-------------------------------- MODULE Csr --------------------------------
(***************************************************************************)
(* Which register a CSR instruction of the rv32 core reaches, which checks *)
(* it passes on the way, and what a write sets off.                        *)
(*                                                                         *)
(* Addresses are the architecture's numbers.  Register contents are left   *)
(* out: where an access ends is a cell, the place that holds the value, so *)
(* two addresses of one register end in the same cell.  A context c is     *)
(* what the checks look at: prv, vgein, vti, stce (a subset of {"m","h"}), *)
(* tvm, injected (the supervisor external interrupt is injected),          *)
(* mcounteren and scounteren, select (xiselect) and mask (the entries of   *)
(* smpumask or vsmpumask that are set).                                    *)
(***************************************************************************)
EXTENDS Integers

CSR_TYPE_U == 0
CSR_TYPE_S == 1
CSR_TYPE_HS_VS == 2
CSR_TYPE_M == 3

CsrType(addr) == (addr \div 256) % 4
CsrReadOnly(addr) == addr \div 1024 = 3

-----------------------------------------------------------------------------
(* The address map.                                                        *)

CounterAddrs == {\hC00, \hC01, \hC02, \hC80, \hC81, \hC82, \hB00, \hB02, \hB80, \hB82}
DebugAddrs == (\h7A0 .. \h7A3) \cup (\h7B0 .. \h7B3)
MachineAddrs ==
  (\hF11 .. \hF14) \cup (\h300 .. \h302) \cup {\h305, \h306, \h310, \h320}
  \cup (\h340 .. \h343) \cup {\h34A, \h34B} \cup (\h350 .. \h353) \cup (\h355 .. \h357)
  \cup {\hFB0, \h35C, \h7FF} \cup (\h3A0 .. \h3A3) \cup (\h3B0 .. \h3BF)
SupervisorAddrs ==
  {\h105, \h106, \h180, \hDB0, \h15C, \h5FF} \cup (\h140 .. \h143)
  \cup (\h150 .. \h153) \cup (\h155 .. \h157)
HypervisorAddrs == {\h600, \h602, \h620, \h643, \h64A, \h680, \h6A8, \hAFF}
VirtualAddrs ==
  {\h200, \h205, \h228, \h25C, \h280, \h6FF, \hEB0} \cup (\h240 .. \h243)
  \cup (\h250 .. \h253) \cup (\h255 .. \h257)

FFLAGS_ADDR == 1
FRM_ADDR == 2
FCSR_ADDR == 3
FcsrAddrs == {FCSR_ADDR, FFLAGS_ADDR, FRM_ADDR}

MISA_ADDR == \h301
SATP_ADDR == \h180
STOPEI_ADDR == \h15C
VSTOPEI_ADDR == \h25C
HGEIP_ADDR == \hE12
MCYCLE_ADDR == \hB00
MCYCLEH_ADDR == \hB80
CycleAddrs == {\hC00, MCYCLE_ADDR}
CyclehAddrs == {\hC80, MCYCLEH_ADDR}
TimeAddrs == {\hC01, \hC81}
MSTATUS_ADDR == \h300
StatusAddrs == {MSTATUS_ADDR, \h100}

HpmAddrs ==
  (\hC03 .. \hC1F) \cup (\hC83 .. \hC9F) \cup (\hB03 .. \hB1F) \cup (\hB83 .. \hB9F)
  \cup (\h323 .. \h33F)

HardwiredAddrs == HpmAddrs \cup DebugAddrs

SpmpAddrs == (\h1A0 .. \h1AF) \cup (\h1B0 .. \h1EF) \cup {\h170, \h171}
SMPUMASK_ADDR == \h128
VSMPUMASK_ADDR == \h228

XieAddrs == {\h304, \h314, \h104, \h114, \h604, \h204, \h214}
XipAddrs == {\h344, \h354, \h144, \h154, \h644, \h244, \h254}
VirtAddrs == {\h309, \h319, \h308, \h318, \h645, \h655, \h608, \h618}
DelegAddrs == {\h303, \h313, \h603, \h613}
ClintAddrs == XieAddrs \cup XipAddrs \cup VirtAddrs \cup DelegAddrs
VsClintAddrs == {\h204, \h214, \h244, \h254}

EnvcfgAddrs == {\h30A, \h31A, \h10A, \h60A, \h61A}
StimecmpAddrs == {\h14D, \h15D}
VstimecmpAddrs == {\h24D, \h25D}
HviprioAddrs == {\h646, \h656, \h647, \h657}
GuestAddrs == {\h609, \h607, \hE12}

\* The addresses csr_table maps, all of one 32 bit register.
Registered ==
  ((CounterAddrs \ TimeAddrs) \cup MachineAddrs \cup SupervisorAddrs \cup HypervisorAddrs
   \cup VirtualAddrs \cup SpmpAddrs \cup {SMPUMASK_ADDR, FCSR_ADDR})

-----------------------------------------------------------------------------
(* Indirect registers.                                                     *)

XiregOffset(addr) == LET k == addr % 16 IN IF k <= 3 THEN k - 1 ELSE k - 2

MiregAddrs == (\h351 .. \h353) \cup (\h355 .. \h357)
SiregAddrs == (\h151 .. \h153) \cup (\h155 .. \h157)
VsiregAddrs == (\h251 .. \h253) \cup (\h255 .. \h257)

IprioIcsrs == \h30 .. \h3F
FileIcsrs == {\h70, \h72} \cup (\h80 .. \hBF) \cup (\hC0 .. \hFF)
SmpuIcsrs == \h100 .. \h13F
HmpuIcsrs == \h180 .. \h1BF

IcsrsM == IprioIcsrs \cup FileIcsrs
IcsrsS == IcsrsM \cup SmpuIcsrs \cup HmpuIcsrs
IcsrsVs(vgein) == IF vgein = 0 THEN IprioIcsrs ELSE IprioIcsrs \cup FileIcsrs \cup SmpuIcsrs

\* smpuaddr and smpuconf of an entry are neighbours.
Locked(c, icsr) == icsr \in SmpuIcsrs /\ (icsr - \h100) \div 2 \in c.mask

-----------------------------------------------------------------------------
(* Checks: "" is a pass, anything else the exception raised.               *)

V(prv) == prv \in {"VS", "VU"}

IsInvalidCsrAccess(c, addr, write) ==
  \/ write /\ CsrReadOnly(addr)
  \/ CASE CsrType(addr) = CSR_TYPE_M -> c.prv # "M"
       [] CsrType(addr) = CSR_TYPE_S -> c.prv \notin {"M", "S", "VS"}
       [] CsrType(addr) = CSR_TYPE_HS_VS -> c.prv \notin {"M", "S"}
       [] OTHER -> FALSE

CounterCheck(c, addr) ==
  LET cnt == addr % 32
  IN IF /\ addr \in (\hC00 .. \hC1F) \cup (\hC80 .. \hC9F)
        /\ \/ c.prv = "S" /\ cnt \notin c.mcounteren
           \/ c.prv = "U" /\ (cnt \notin c.mcounteren \/ cnt \notin c.scounteren)
     THEN "illegal" ELSE ""

VirtTransform(c, addr) ==
  IF c.prv = "VS" /\ CsrType(addr) = CSR_TYPE_S THEN addr + 256 ELSE addr

VsAccessException(c) ==
  CASE c.prv \in {"M", "S"} -> "illegal" [] c.prv = "VS" -> "virtual" [] OTHER -> "assert"

VstopeiCheck(c) == IF c.vgein = 0 THEN VsAccessException(c) ELSE ""

VsIcsrCheck(c, icsr) == IF icsr \in IcsrsVs(c.vgein) THEN "" ELSE VsAccessException(c)

SeiInjectionCheck(c) == IF c.prv = "S" /\ c.injected THEN "illegal" ELSE ""

SIcsrImsicCheck(c, icsr) == IF icsr \in \h70 .. \hFF THEN SeiInjectionCheck(c) ELSE ""

StimecmpCheck(c) == IF "m" \notin c.stce /\ c.prv # "M" THEN "illegal" ELSE ""

VtiCheck(c) == IF c.vti /\ c.prv = "VS" THEN "virtual" ELSE ""

VstimecmpCheck(c) ==
  IF "m" \notin c.stce /\ c.prv # "M" THEN "illegal"
  ELSE IF "h" \notin c.stce /\ V(c.prv) THEN "virtual" ELSE VtiCheck(c)

IregAddrs == MiregAddrs \cup SiregAddrs \cup VsiregAddrs

-----------------------------------------------------------------------------
(* Cells.                                                                  *)

Cell(of, at, guest) == [of |-> of, at |-> at, guest |-> guest]
NoCell == Cell("none", 0, 0)

\* csr_table's register_mapping: the counters have an address per privilege.
RegisterMapping(addr) == IF addr \in {\hC00, \hC02, \hC80, \hC82} THEN addr - 256 ELSE addr

-----------------------------------------------------------------------------
(* get_csr_value, of the transformed address.                              *)

\* Cases that return without a check.
GetUnchecked ==
  TimeAddrs \cup CycleAddrs \cup CyclehAddrs \cup {\hB02, \hB82} \cup HpmAddrs \cup StatusAddrs
  \cup (XipAddrs \ VsClintAddrs) \cup (XieAddrs \ VsClintAddrs) \cup VirtAddrs \cup DelegAddrs
  \cup HviprioAddrs \cup GuestAddrs \cup {\hEB0} \cup FcsrAddrs
  \cup DebugAddrs \cup EnvcfgAddrs \cup {\h150, \h250}

GetIregCheck(c, addr) ==
  LET icsr == c.select + XiregOffset(addr)
  IN CASE addr \in MiregAddrs -> IF icsr \in IcsrsM THEN "" ELSE "illegal"
       [] addr \in SiregAddrs -> IF icsr \in IcsrsS THEN SIcsrImsicCheck(c, icsr) ELSE "illegal"
       [] addr \in VsiregAddrs -> VsIcsrCheck(c, icsr)

GetCheck(c, addr) ==
  CASE addr \in GetUnchecked -> ""
    [] addr \in VsClintAddrs -> VtiCheck(c)
    [] addr = STOPEI_ADDR -> SeiInjectionCheck(c)
    [] addr = VSTOPEI_ADDR -> VstopeiCheck(c)
    [] addr = SATP_ADDR -> IF c.tvm THEN "illegal" ELSE ""
    [] addr \in StimecmpAddrs -> StimecmpCheck(c)
    [] addr \in VstimecmpAddrs -> VstimecmpCheck(c)
    [] addr \in IregAddrs -> GetIregCheck(c, addr)
    [] addr = VSMPUMASK_ADDR -> IF c.vgein = 0 THEN "illegal" ELSE ""
    [] OTHER -> IF addr \in Registered THEN "" ELSE "illegal"

GetCell(c, addr) ==
  CASE addr \in CycleAddrs -> Cell("csr", MCYCLE_ADDR, 0)
    [] addr \in CyclehAddrs -> Cell("csr", MCYCLEH_ADDR, 0)
    [] addr \in HardwiredAddrs -> NoCell
    [] addr \in StatusAddrs -> Cell("csr", MSTATUS_ADDR, 0)
    [] addr \in HviprioAddrs -> Cell("iprio", addr, c.vgein)
    [] addr \in FcsrAddrs -> Cell("csr", FCSR_ADDR, 0)
    [] addr \in MiregAddrs -> Cell("m", c.select + XiregOffset(addr), 0)
    [] addr \in SiregAddrs -> Cell("s", c.select + XiregOffset(addr), 0)
    [] addr \in VsiregAddrs -> Cell("vs", c.select + XiregOffset(addr), c.vgein)
    [] OTHER -> Cell("csr", RegisterMapping(addr), 0)

GetCsrValue(c, addr) ==
  LET a == VirtTransform(c, addr)
      failed == IF CounterCheck(c, addr) # "" THEN CounterCheck(c, addr) ELSE GetCheck(c, a)
  IN [trap |-> failed, cell |-> IF failed = "" THEN GetCell(c, a) ELSE NoCell]

ReadCsr(c, addr) ==
  IF IsInvalidCsrAccess(c, addr, FALSE) THEN [trap |-> "illegal", cell |-> NoCell]
  ELSE GetCsrValue(c, addr)

-----------------------------------------------------------------------------
(* set_csr_value, with a switch of its own.                                *)

\* Cases that write, or ignore the write, without a check.
SetUnchecked ==
  {\h301} \cup HpmAddrs \cup {\h305, \h105, \h205, \h341, \h141, \h300, \h100, \h310, \h600}
  \cup {\h344, \h144, \h644, \h354, \h154, \h304, \h104, \h604, \h314, \h114}
  \cup VirtAddrs \cup DelegAddrs \cup HviprioAddrs
  \cup {\h609, \h607, \hE12, \h35C, \h602, \h306, \h106, \h320}
  \cup FcsrAddrs \cup DebugAddrs \cup EnvcfgAddrs
  \cup {\h150, \h250} \cup SpmpAddrs

\* A locked SMPU entry is refused after the checks a read makes.
LockedCheck(c, icsr) == IF Locked(c, icsr) THEN "illegal" ELSE ""
Then(failed, next) == IF failed = "" THEN next ELSE failed

SetIregCheck(c, addr) ==
  LET icsr == c.select + XiregOffset(addr)
  IN CASE addr \in MiregAddrs -> IF icsr \notin IcsrsM THEN "illegal" ELSE ""
       [] addr \in SiregAddrs ->
            IF icsr \notin IcsrsS THEN "illegal"
            ELSE Then(SIcsrImsicCheck(c, icsr), LockedCheck(c, icsr))
       [] addr \in VsiregAddrs -> Then(VsIcsrCheck(c, icsr), LockedCheck(c, icsr))

\* Mutant: a write of vsmpumask is not asked whether a guest is connected.
SetCheckAnyGuest(c, addr) ==
  CASE addr \in SetUnchecked \cup {VSMPUMASK_ADDR} -> ""
    [] addr \in IregAddrs -> SetIregCheck(c, addr)
    [] OTHER -> GetCheck(c, addr)

SetCheck(c, addr) ==
  CASE addr \in SetUnchecked -> ""
    [] addr = SATP_ADDR -> IF c.tvm THEN "illegal" ELSE ""
    [] addr \in VsClintAddrs -> VtiCheck(c)
    [] addr = STOPEI_ADDR -> SeiInjectionCheck(c)
    [] addr = VSTOPEI_ADDR -> VstopeiCheck(c)
    [] addr \in StimecmpAddrs -> StimecmpCheck(c)
    [] addr \in VstimecmpAddrs -> VstimecmpCheck(c)
    [] addr \in IregAddrs -> SetIregCheck(c, addr)
    [] addr = VSMPUMASK_ADDR -> IF c.vgein = 0 THEN "illegal" ELSE ""
    [] OTHER -> IF addr \in Registered THEN "" ELSE "illegal"

\* Mutant: the priorities are written for the first guest, whoever runs.
SetCellOneGuest(c, addr) ==
  IF addr \in HviprioAddrs THEN Cell("iprio", addr, 0) ELSE GetCell(c, addr)

\* Writes that are accepted and change nothing.
IgnoredAddrs == HardwiredAddrs \cup {MISA_ADDR, HGEIP_ADDR}

SetCell(c, addr) ==
  CASE addr \in IgnoredAddrs -> NoCell
    [] addr \in StatusAddrs -> Cell("csr", MSTATUS_ADDR, 0)
    [] addr \in HviprioAddrs -> Cell("iprio", addr, c.vgein)
    [] addr \in FcsrAddrs -> Cell("csr", FCSR_ADDR, 0)
    [] addr \in MiregAddrs -> Cell("m", c.select + XiregOffset(addr), 0)
    [] addr \in SiregAddrs -> Cell("s", c.select + XiregOffset(addr), 0)
    [] addr \in VsiregAddrs -> Cell("vs", c.select + XiregOffset(addr), c.vgein)
    [] OTHER -> Cell("csr", RegisterMapping(addr), 0)

\* The call that follows the assignment.
OnWrite(addr) ==
  CASE addr \in {\h305, \h105, \h205} -> "on_xtvec_write"
    [] addr = \h600 -> "on_guest_switch"
    [] addr \in ClintAddrs -> "on_clint_csr_write"
    [] addr = \h607 -> "recalc_sgeip"
    [] addr \in {\h35C, \h15C, \h25C} -> "claim_topei_interrupt_on_xtopei"
    [] addr \in {\h31A, \h61A} -> "on_xenvcfgh_write"
    [] addr \in StimecmpAddrs \cup VstimecmpAddrs -> "post_write_xtimecmp"
    [] addr \in IregAddrs -> "compute_imsic_pending_interrupts"
    [] addr \in SpmpAddrs -> "clear_spmp_cache"
    [] OTHER -> ""

SetCsrValue(c, addr) ==
  LET a == VirtTransform(c, addr)
      failed == SetCheck(c, a)
  IN [trap |-> failed,
      cell |-> IF failed = "" THEN SetCell(c, a) ELSE NoCell,
      call |-> IF failed = "" THEN OnWrite(a) ELSE ""]

WriteCsr(c, addr) ==
  IF IsInvalidCsrAccess(c, addr, TRUE)
  THEN [trap |-> "illegal", cell |-> NoCell, call |-> ""]
  ELSE SetCsrValue(c, addr)
=============================================================================
