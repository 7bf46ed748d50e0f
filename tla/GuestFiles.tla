----------------------------- MODULE GuestFiles -----------------------------
(***************************************************************************)
(* The guest interrupt files of a hart and what is derived from them       *)
(* (core/rv32/iss.cpp, core/rv32/csr.h): hgeip and the supervisor guest    *)
(* external interrupt, and, for the file hstatus.vgein connects to the     *)
(* running guest, the VS external interrupt and vstopei.                   *)
(*                                                                         *)
(* A file is named by its vgein number; vgein = 0 connects none.           *)
(***************************************************************************)
EXTENDS ImsicFile

CONSTANTS
  MAX_GUEST,
  EnableWrites,      \* what software writes: in an eie register,
  ThresholdWrites,   \* in eithreshold,
  ModeWrites,        \* in vstvec.mode
  HgeieWrites        \* and in hgeie

Guests == 1 .. MAX_GUEST

ASSUME GuestAssumption ==
  /\ MAX_GUEST \in Nat \ {0}
  /\ HgeieWrites \subseteq SUBSET Guests

VARIABLES
  bank,       \* the guest files
  vgein,      \* hstatus.vgein
  vsMode,     \* vstvec.mode, shared by all the guests
  hgeip,      \* guests whose file signals
  hgeie,      \* guests whose signal may raise the guest external interrupt
  sgeip,      \* mip.SGEIP
  vseip,      \* mip.VSEIP, the connected file's signal
  vstopei     \* vstopei.iid

vars == <<bank, vgein, vsMode, hgeip, hgeie, sgeip, vseip, vstopei>>

Bank == [eip : SUBSET ValidIid, eie : SUBSET ValidIid,
         eidelivery : BOOLEAN, eithreshold : Threshold]

BankReset == [eip |-> {}, eie |-> {}, eidelivery |-> FALSE,
              eithreshold |-> ThresholdReset]

BankSignals(b) == Signals(b.eip, b.eie, b.eidelivery, b.eithreshold)
BankTopei(b, m) ==
  TopeiValue(b.eip, b.eie, b.eidelivery, b.eithreshold, IsNv(m))

Connected(v) == v # 0

\* recalc_sgeip
RecalcSgeip == sgeip' = (hgeip' \intersect hgeie' # {})

\* compute_imsic_pending_interrupts_vs: every file for hgeip, the connected
\* one for mip and vstopei.
ComputeVs ==
  /\ hgeip' = {g \in Guests : BankSignals(bank'[g])}
  /\ RecalcSgeip
  /\ vseip' = (Connected(vgein') /\ BankSignals(bank'[vgein']))
  /\ vstopei' = IF Connected(vgein') THEN BankTopei(bank'[vgein'], vsMode')
                                     ELSE 0

\* update_interrupt_mode: only the connected file learns the mode.
WithMode(b, v, m) ==
  IF Connected(v)
  THEN [b EXCEPT ![v].eithreshold = SetModeSnpsVectored(@, IsNv(m))]
  ELSE b

-----------------------------------------------------------------------------
Init ==
  /\ bank = [g \in Guests |-> BankReset]
  /\ vgein = 0
  /\ vsMode = Direct
  /\ hgeip = {} /\ hgeie = {}
  /\ sgeip = FALSE /\ vseip = FALSE
  /\ vstopei = 0

\* Mutant: identity 0 is accepted.
RouteImsicWriteZero(g, value) ==
  /\ bank' = [bank EXCEPT ![g].eip = @ \union {value}]
  /\ UNCHANGED <<vgein, vsMode, hgeie>>
  /\ ComputeVs

\* An MSI to a guest file, connected or not.
RouteImsicWrite(g, value) ==
  /\ value # 0
  /\ bank' = [bank EXCEPT ![g].eip = @ \union {value}]
  /\ UNCHANGED <<vgein, vsMode, hgeie>>
  /\ ComputeVs

\* csr_hstatus::checked_write
ClipVgein(v) == IF v >= MAX_GUEST THEN MAX_GUEST ELSE v

\* Mutant: a guest switch does not recompute what mip and vstopei show.
WriteHstatusStale(v) ==
  /\ vgein' = ClipVgein(v)
  /\ bank' = WithMode(bank, vgein', vsMode)
  /\ UNCHANGED <<vsMode, hgeip, hgeie, sgeip, vseip, vstopei>>

\* hstatus: vgein is clipped to the last guest; then on_guest_switch.
WriteHstatus(v) ==
  /\ vgein' = ClipVgein(v)
  /\ bank' = WithMode(bank, vgein', vsMode)
  /\ UNCHANGED <<vsMode, hgeie>>
  /\ ComputeVs

\* Mutant: the enables are written without looking at hgeip again.
WriteHgeieStale(guests) ==
  /\ hgeie' = guests
  /\ UNCHANGED <<bank, vgein, vsMode, hgeip, sgeip, vseip, vstopei>>

WriteHgeie(guests) ==
  /\ hgeie' = guests
  /\ UNCHANGED <<bank, vgein, vsMode, hgeip, vseip, vstopei>>
  /\ RecalcSgeip

\* on_xtvec_write(VirtualSupervisorMode): nothing is recomputed.
WriteVstvec(m) ==
  /\ vsMode' = TvecMode(m)
  /\ bank' = WithMode(bank, vgein, vsMode')
  /\ UNCHANGED <<vgein, hgeip, hgeie, sgeip, vseip, vstopei>>

\* vsireg: one register of the connected file; with no file connected they
\* do not exist and the access traps (vs_icsrs_access_check).
WriteVsireg(b) ==
  /\ bank' = [bank EXCEPT ![vgein] = b]
  /\ UNCHANGED <<vgein, vsMode, hgeie>>
  /\ ComputeVs

AccessVsireg ==
  /\ Connected(vgein)
  /\ LET b == bank[vgein] IN
     \/ \E i \in Registers :
          \/ \E bits \in SUBSET RegisterBits(i) :
               WriteVsireg([b EXCEPT !.eip = (@ \ RegisterBits(i)) \union bits])
          \/ \E bits \in EnableWrites \intersect SUBSET RegisterBits(i) :
               WriteVsireg([b EXCEPT !.eie = (@ \ RegisterBits(i)) \union bits])
     \/ \E on \in BOOLEAN : WriteVsireg([b EXCEPT !.eidelivery = on])
     \/ \E val \in ThresholdWrites :
          WriteVsireg([b EXCEPT !.eithreshold = EithresholdWrite(@, val)])

\* claim_topei_interrupt(VirtualSupervisorMode); an access to vstopei traps
\* when no file is connected (vstopei_access_check).
ClaimVstopei(zero, readAccessed) ==
  /\ Connected(vgein)
  /\ bank' = IF IsNv(vsMode) /\ zero /\ ~ readAccessed
             THEN [bank EXCEPT ![vgein].eithreshold = MarkIrqAsHandled(@)]
             ELSE [bank EXCEPT ![vgein].eip = @ \ {vstopei}]
  /\ UNCHANGED <<vgein, vsMode, hgeie>>
  /\ ComputeVs

\* The hart takes the connected file's interrupt; notify_irq_taken pushes
\* the level and claims in nested vectored mode.
TakeVsInterrupt ==
  /\ vseip /\ IsNv(vsMode)
  /\ bank' = [bank EXCEPT
                ![vgein].eithreshold = UpdateWithNewIrq(@, vstopei),
                ![vgein].eip = @ \ {vstopei}]
  /\ UNCHANGED <<vgein, vsMode, hgeie>>
  /\ ComputeVs

Next ==
  \/ \E g \in Guests, value \in Iid : RouteImsicWrite(g, value)
  \/ AccessVsireg
  \/ \E zero, readAccessed \in BOOLEAN : ClaimVstopei(zero, readAccessed)
  \/ \E m \in ModeWrites : WriteVstvec(m)
  \/ TakeVsInterrupt
  \/ \E v \in 0 .. MAX_GUEST + 1 : WriteHstatus(v)
  \/ \E guests \in HgeieWrites : WriteHgeie(guests)

Spec == Init /\ [][Next]_vars

-----------------------------------------------------------------------------
TypeOK ==
  /\ bank \in [Guests -> Bank]
  /\ vgein \in 0 .. MAX_GUEST
  /\ vsMode \in Modes
  /\ hgeip \in SUBSET Guests /\ hgeie \in SUBSET Guests
  /\ sgeip \in BOOLEAN /\ vseip \in BOOLEAN
  /\ vstopei \in Iid

\* The hypervisor is told of every guest whose file signals, of the ones that
\* do not run too: hgeip is the signals of all files as they are now, and the
\* guest external interrupt pends while an enabled one of them is set.
GuestSignalsFresh ==
  /\ hgeip = {g \in Guests : BankSignals(bank[g])}
  /\ sgeip = (hgeip \intersect hgeie # {})

\* The running guest sees its own file: mip.VSEIP is the connected file's
\* signal and vstopei its top interrupt, after any series of guest switches
\* and changes of vstvec; with no file connected both show nothing.  A file
\* that was disconnected while vstvec changed learns the mode when it is
\* connected again: its thresholds nest exactly when vstvec says so.
RunningGuestSeesItsFile ==
  /\ vseip = (Connected(vgein) /\ BankSignals(bank[vgein]))
  /\ ~ Connected(vgein) => vstopei = 0
  /\ Connected(vgein) => bank[vgein].eithreshold.nv = IsNv(vsMode)
  /\ vseip => LET active == bank[vgein].eip \intersect bank[vgein].eie
              IN  vstopei \in active /\ \A iid \in active : vstopei <= iid

\* vstopei is the connected file's value for the mode in force or, after a
\* write of vstvec, for the one before.
VstopeiCached ==
  Connected(vgein) =>
    \E nv \in BOOLEAN :
      vstopei = TopeiValue(bank[vgein].eip, bank[vgein].eie,
                           bank[vgein].eidelivery, bank[vgein].eithreshold, nv)

\* The inductive invariant.
Inv ==
  TypeOK /\ GuestSignalsFresh /\ RunningGuestSeesItsFile /\ VstopeiCached

\* A claim through the cached vstopei clears in the running guest's file its
\* top enabled interrupt or nothing, never what another guest's file showed
\* and never an identity behind or masked beside the top.
ClaimsOwnTop ==
  [][(\/ TakeVsInterrupt
      \/ \E zero, readAccessed \in BOOLEAN : ClaimVstopei(zero, readAccessed))
     => \A g \in Guests : \A iid \in bank[g].eip \ bank'[g].eip :
          /\ g = vgein
          /\ iid \in bank[g].eie
          /\ \A other \in bank[g].eip \intersect bank[g].eie : iid <= other]_vars
=============================================================================
