-------------------------------- MODULE Trap --------------------------------
(***************************************************************************)
(* Traps of one hart: how an exception or an interrupt is given to a       *)
(* privilege level, how the level is entered and how xRET leaves it        *)
(* (core/rv32/iss.cpp: prepare_trap, compute_pending_interrupt,            *)
(* switch_to_trap_handler, stsp_swap_sp_on_mode_change,                    *)
(* jump_to_trap_vector, process_pending_ivt, return_from_trap_handler and  *)
(* run_step).                                                              *)
(*                                                                         *)
(* An instruction is one step in phase "exec"; the interrupt check that    *)
(* ends run_step is one in phase "irq".  A program counter is a place in   *)
(* the code of some mode; a stack pointer names the stack it points into.  *)
(* Which interrupts pend is left open: HartIrq is about that.              *)
(*                                                                         *)
(* The software is any that keeps the architecture's discipline: a handler *)
(* saves xepc and xstatus before it enables its interrupts or causes an    *)
(* exception its own level takes, and restores them before xRET.  `live',  *)
(* `soft' and `calls' describe it, and `calls' remembers what the handlers *)
(* interrupted.                                                            *)
(***************************************************************************)
EXTENDS Naturals, SequencesExt

CONSTANTS
  Places,      \* per mode: places in its code
  Entry,       \* the place where a handler starts
  Causes,      \* exceptions, by how they are delegated
  MEDELEG, HEDELEG,
  Configs,     \* what software may have configured at boot
  MAX_CALLS    \* bound on nested handlers

M == "M"
S == "S"
VS == "VS"
U == "U"
VU == "VU"
Levels == {M, S, VS}
Modes == Levels \union {U, VU}
NoMode == "none"

\* Stack pointer swapping: the bits of menvcfg, senvcfg and henvcfg, named
\* after the registers they switch on (vgtsp enables vstsp).
TspRegs == {"mtsp", "stsp", "htsp", "vstsp"}

ConfigType ==
  [tsp : SUBSET TspRegs,       \* which swaps are enabled
   nv : SUBSET Levels,         \* levels whose xtvec is nested vectored
   trapSret : SUBSET {S, VS}]  \* mstatus.tsr, hstatus.vtsr

ASSUME TrapAssumption ==
  /\ \A mode \in Modes : Entry \in Places[mode]
  /\ MEDELEG \subseteq Causes /\ HEDELEG \subseteq Causes
  /\ Configs \subseteq ConfigType
  /\ MAX_CALLS \in Nat \ {0}

VARIABLES
  config, prv, pc,
  last_pc,     \* instruction run_step executes, or executed last
  phase,       \* "exec", or "irq" after the instruction
  ivt,         \* ivt_access.pending
  regs,        \* per level: xstatus.xie, xpie, xpp, xpv and xepc
  spvp,        \* hstatus.spvp
  mprv,        \* mstatus.mprv
  sp, tsp,     \* the stack pointer, and xtsp
  live,        \* levels whose registers hold a frame that software still needs
  soft,        \* per level: frames its handlers saved in memory
  calls        \* what the entered handlers interrupted, outermost first

vars == <<config, prv, pc, last_pc, phase, ivt, regs, spvp, mprv, sp, tsp,
          live, soft, calls>>

software == <<live, soft, calls>>

Code(mode) == {mode} \X Places[mode]
Pcs == UNION {Code(mode) : mode \in Modes}

\* PrivilegeLevelToPP, PrivilegeLevelToV and VPPToPrivilegeLevel.
PP(mode) == CASE mode = M -> 3 [] mode \in {S, VS} -> 1 [] OTHER -> 0
V(mode) == mode \in {VS, VU}
VPPToPrivilegeLevel(v, pp) ==
  CASE pp = 3 -> M
    [] pp = 1 -> IF v THEN VS ELSE S
    [] OTHER -> IF v THEN VU ELSE U

RegType == [ie : BOOLEAN, pie : BOOLEAN, pp : {0, 1, 3}, pv : BOOLEAN, epc : Pcs]

\* What an interrupted program expects to find again, and who interrupted it.
FrameType == [by : Levels, prv : Modes, pc : Pcs, sp : Modes, ie : BOOLEAN]

\* The level that a register of stack pointer swapping keeps the stack of.
BootStacks == [r \in TspRegs |-> CASE r = "mtsp" -> M [] r = "vstsp" -> VS [] OTHER -> S]

\* Reset, with the stack pointers the boot code has written.
Init ==
  /\ config \in Configs
  /\ prv = M /\ pc = <<M, Entry>> /\ last_pc = pc
  /\ phase = "exec" /\ ivt = FALSE
  /\ regs = [x \in Levels |-> [ie |-> FALSE, pie |-> FALSE, pp |-> 0,
                               pv |-> FALSE, epc |-> pc]]
  /\ spvp = 0 /\ mprv = FALSE
  /\ sp = M /\ tsp = BootStacks
  /\ live = {} /\ soft = [x \in Levels |-> <<>>] /\ calls = <<>>

-----------------------------------------------------------------------------
(* Entering and leaving a level *)

\* Mutant: nested traps of machine mode swap too.
SwappedAlways(base, desc) ==
  CASE base = M -> {"mtsp"} \intersect config.tsp
    [] base = VS -> {"vstsp" : d \in {desc} \ {VS}} \intersect config.tsp
    [] OTHER -> (IF V(desc) THEN {"htsp"} ELSE {"stsp" : d \in {desc} \ {S}})
                  \intersect config.tsp

\* stsp_swap_sp_on_mode_change: the register swapped with sp between `base'
\* and a mode it traps from or returns to, if any.
Swapped(base, desc) ==
  LET candidate ==
        CASE base = M -> {"mtsp" : d \in {desc} \ {M}}
          [] base = VS -> {"vstsp" : d \in {desc} \ {VS}}
          [] base = S /\ V(desc) -> {"htsp"}
          [] base = S /\ ~V(desc) -> {"stsp" : d \in {desc} \ {S}}
  IN candidate \intersect config.tsp

SwapSp(base, desc) ==
  LET r == Swapped(base, desc)
  IN /\ sp' = IF r = {} THEN sp ELSE tsp[CHOOSE x \in r : TRUE]
     /\ tsp' = [x \in TspRegs |-> IF x \in r THEN sp ELSE tsp[x]]

\* jump_to_trap_vector; at is the pc the hart was left with, and last the
\* instruction it executed last.  The next run_step sets last_pc, unless it
\* first has to fetch a vector.
JumpToTrapVector(target, at, last) ==
  IF target \in config.nv
  THEN ivt' = TRUE /\ pc' = at /\ last_pc' = last
  ELSE ivt' = FALSE /\ pc' = <<target, Entry>> /\ last_pc' = pc'

\* Mutant: spvp follows spp on every trap.
SpvpAfterTrapAlways(target) == IF target = S THEN PP(prv) ELSE spvp

\* spvp is left unchanged by traps that do not come from a guest.
SpvpAfterTrap(target) == IF target = S /\ V(prv) THEN PP(prv) ELSE spvp

\* switch_to_trap_handler.
SwitchToTrapHandler(target, at, last) ==
  /\ prv' = target
  /\ SwapSp(target, prv)
  /\ regs' = [regs EXCEPT ![target] =
       [ie |-> FALSE, pie |-> @.ie, pp |-> PP(prv),
        pv |-> IF target = VS THEN @.pv ELSE V(prv), epc |-> at]]
  /\ spvp' = SpvpAfterTrap(target)
  /\ JumpToTrapVector(target, at, last)
  /\ phase' = "exec"
  /\ live' = live \union {target}
  /\ calls' = Append(calls, [by |-> target, prv |-> prv, pc |-> at, sp |-> sp,
                             ie |-> regs[target].ie])
  /\ UNCHANGED <<config, mprv, soft>>

\* Mutant: delegation counts in machine mode too.
PrepareTrapDelegatesAll(cause) ==
  IF cause \notin MEDELEG THEN M
  ELSE IF prv \in {S, U} \/ cause \notin HEDELEG THEN S
  ELSE VS

\* prepare_trap: the level that takes an exception.
PrepareTrap(cause) ==
  IF prv = M \/ cause \notin MEDELEG THEN M
  ELSE IF prv \in {S, U} \/ cause \notin HEDELEG THEN S
  ELSE VS

\* The catch clause of run_step: the pc is set back to last_pc.  Software
\* causes no exception its level takes while it still needs the frame there.
TakeException(cause) ==
  LET target == PrepareTrap(cause)
  IN /\ Len(calls) < MAX_CALLS
     /\ target \notin live
     /\ SwitchToTrapHandler(target, last_pc, last_pc)

\* Mutant: MPRV is left alone.
MprvKept(x, to) == mprv

\* MPRV is cleared by SRET, and by MRET to a lower mode.
MprvAfterReturn(x, to) == mprv /\ x = M /\ to = M

\* return_from_trap_handler.
ReturnFromTrapHandler(x) ==
  LET r == regs[x]
      to == VPPToPrivilegeLevel(IF x = VS THEN TRUE ELSE r.pv, r.pp)
  IN /\ prv' = to /\ pc' = r.epc
     /\ regs' = [regs EXCEPT ![x] = [@ EXCEPT !.ie = r.pie, !.pie = TRUE,
                                     !.pp = 0, !.pv = FALSE]]
     /\ mprv' = MprvAfterReturn(x, to)
     /\ SwapSp(x, to)

-----------------------------------------------------------------------------
(* Phase "exec": one instruction *)

Executing == phase = "exec" /\ ~ivt

\* An instruction that only moves on in the code of its mode.
Run ==
  /\ Executing
  /\ pc' \in Code(prv) /\ phase' = "irq"
  /\ UNCHANGED <<config, prv, last_pc, ivt, regs, spvp, mprv, sp, tsp, software>>

\* Any exception of an instruction: ECALL, faults, illegal instructions.
Exception(cause) == Executing /\ TakeException(cause)

\* get_mem_mode: the mode whose privilege a load or a store is checked with.
MemMode == IF mprv THEN VPPToPrivilegeLevel(FALSE, regs[M].pp) ELSE prv

\* process_pending_ivt: the vector is fetched before the next instruction.
FetchVector ==
  /\ phase = "exec" /\ ivt
  /\ ivt' = FALSE /\ pc' = <<prv, Entry>> /\ last_pc' = pc'
  /\ UNCHANGED <<config, prv, phase, regs, spvp, mprv, sp, tsp, software>>

\* ... or the fetch faults.  ivt_access.pending is already cleared.
FetchFaults(cause) == phase = "exec" /\ ivt /\ TakeException(cause)

\* The level whose frame is the one to return to, if software has it ready.
Returns(x) == calls # <<>> /\ Last(calls).by = x /\ x \in live

\* MRET and SRET.
Return(x) ==
  /\ Executing /\ Returns(x)
  /\ ReturnFromTrapHandler(x)
  /\ phase' = "irq"
  /\ live' = live \ {x} /\ calls' = Front(calls)
  /\ UNCHANGED <<config, last_pc, ivt, spvp, soft>>

Mret == prv = M /\ Return(M)

\* In machine mode SRET leaves the supervisor level.
Sret ==
  \/ prv = VS /\ VS \notin config.trapSret /\ Return(VS)
  \/ prv = S /\ S \notin config.trapSret /\ Return(S)
  \/ prv = M /\ Return(S)

\* SRET where mstatus.tsr or hstatus.vtsr forbids it: an exception.
SretTraps(cause) ==
  /\ Executing /\ prv \in config.trapSret /\ Returns(prv)
  /\ TakeException(cause)

\* Writes of mstatus, sstatus and vsstatus that switch the interrupts of the
\* current level.
SetIe(enable) ==
  /\ Executing /\ prv \in Levels \ live
  /\ regs' = [regs EXCEPT ![prv].ie = enable]
  /\ phase' = "irq"
  /\ UNCHANGED <<config, prv, pc, last_pc, ivt, spvp, mprv, sp, tsp, software>>

SetMprv ==
  /\ Executing /\ prv = M /\ mprv' = TRUE
  /\ phase' = "irq"
  /\ UNCHANGED <<config, prv, pc, last_pc, ivt, regs, spvp, sp, tsp, software>>

\* A handler reads xepc and xstatus into memory, so that it may be interrupted.
SaveFrame ==
  /\ Executing /\ prv \in live /\ Returns(prv)
  /\ soft' = [soft EXCEPT ![prv] = Append(@, regs[prv])]
  /\ live' = live \ {prv}
  /\ phase' = "irq"
  /\ UNCHANGED <<config, prv, pc, last_pc, ivt, regs, spvp, mprv, sp, tsp, calls>>

\* ... and writes them back, with its interrupts disabled.
RestoreFrame ==
  /\ Executing /\ prv \in Levels \ live /\ soft[prv] # <<>>
  /\ regs' = [regs EXCEPT ![prv] = [Last(soft[prv]) EXCEPT !.ie = FALSE]]
  /\ soft' = [soft EXCEPT ![prv] = Front(@)]
  /\ live' = live \union {prv}
  /\ phase' = "irq"
  /\ UNCHANGED <<config, prv, pc, last_pc, ivt, spvp, mprv, sp, tsp, calls>>

\* The modes that software of a level starts programs in.
Below(x) ==
  CASE x = M -> {S, U, VS, VU} [] x = S -> {U, VS, VU} [] x = VS -> {VU}

\* Software of level x prepares to start or resume a program in mode `to' with
\* interrupts of x on: it writes xpp, xpv (and spvp), xpie, xepc and xtsp, and
\* leaves its own stack in the xtsp it does not use.  The program
\* replaces the one the handler interrupted, if any.  Machine software may
\* leave through the supervisor's registers; it does so only with swapping off.
Schedule(x, to, at) ==
  LET r == Swapped(x, to)
  IN /\ Executing /\ ~regs[x].ie
     /\ \/ prv = x
        \/ prv = M /\ x = S /\ config.tsp = {}
     /\ \/ calls = <<>>
        \/ Len(calls) = 1 /\ Returns(x) /\ prv = x
     /\ regs' = [regs EXCEPT ![x] = [ie |-> FALSE, pie |-> TRUE, pp |-> PP(to),
                                     pv |-> IF x = VS THEN @.pv ELSE V(to),
                                     epc |-> at]]
     /\ tsp' = [t \in TspRegs |-> IF t \in r THEN to
                                 ELSE IF BootStacks[t] = x THEN x ELSE tsp[t]]
     /\ live' = live \union {x}
     /\ calls' = << [by |-> x, prv |-> to, pc |-> at,
                     sp |-> IF r = {} THEN sp ELSE to, ie |-> TRUE] >>
     /\ phase' = "irq"
     /\ spvp' = IF x = S /\ V(to) THEN PP(to) ELSE spvp
     /\ UNCHANGED <<config, prv, pc, last_pc, ivt, mprv, sp, soft>>

-----------------------------------------------------------------------------
(* Phase "irq": the interrupt check *)

\* Mutant: supervisor mode does not look at its own interrupt enable.
GloballyEnabledAlways(x) ==
  CASE x = M -> prv # M \/ regs[M].ie
    [] x = S -> prv # M
    [] x = VS -> prv = VU \/ (prv = VS /\ regs[VS].ie)

\* is_irq_globaly_enable_per_level.
GloballyEnabled(x) ==
  CASE x = M -> prv # M \/ regs[M].ie
    [] x = S -> prv \notin {M, S} \/ (prv = S /\ regs[S].ie)
    [] x = VS -> prv = VU \/ (prv = VS /\ regs[VS].ie)

\* compute_pending_interrupt: the most privileged level with a pending and
\* enabled interrupt.
ComputePendingInterrupt(pending) ==
  IF M \in pending /\ GloballyEnabled(M) THEN M
  ELSE IF S \in pending /\ GloballyEnabled(S) THEN S
  ELSE IF VS \in pending /\ GloballyEnabled(VS) THEN VS
  ELSE NoMode

\* prepare_interrupt finds an interrupt to take.
Interrupt(pending) ==
  LET target == ComputePendingInterrupt(pending)
  IN /\ phase = "irq" /\ target # NoMode
     /\ Len(calls) < MAX_CALLS
     /\ SwitchToTrapHandler(target, pc, last_pc)

\* ... or none; the next run_step begins.
NoInterrupt ==
  /\ phase = "irq"
  /\ phase' = "exec" /\ last_pc' = pc
  /\ UNCHANGED <<config, prv, pc, ivt, regs, spvp, mprv, sp, tsp, software>>

-----------------------------------------------------------------------------
Next ==
  \/ Run
  \/ \E c \in Causes : Exception(c)
  \/ FetchVector
  \/ \E c \in Causes : FetchFaults(c)
  \/ Mret
  \/ Sret
  \/ \E c \in Causes : SretTraps(c)
  \/ \E enable \in BOOLEAN : SetIe(enable)
  \/ SetMprv
  \/ SaveFrame
  \/ RestoreFrame
  \/ \E x \in Levels : \E to \in Below(x) : \E at \in Code(to) : Schedule(x, to, at)
  \/ \E pending \in SUBSET Levels : Interrupt(pending)
  \/ NoInterrupt

Spec == Init /\ [][Next]_vars

-----------------------------------------------------------------------------
(* Properties *)

\* Every variable has its type; the bound on nested handlers is respected.
TypeOK ==
  /\ config \in Configs
  /\ prv \in Modes /\ pc \in Pcs /\ last_pc \in Pcs
  /\ phase \in {"exec", "irq"} /\ ivt \in BOOLEAN
  /\ regs \in [Levels -> RegType]
  /\ spvp \in {0, 1} /\ mprv \in BOOLEAN
  /\ sp \in Modes /\ tsp \in [TspRegs -> Modes]
  /\ live \subseteq Levels
  /\ soft \in [Levels -> Seq(RegType)]
  /\ calls \in Seq(FrameType) /\ Len(calls) <= MAX_CALLS

\* MRET and SRET give back to the interrupted program its mode, pc and stack
\* pointer, and to the level left the interrupt enable it had, however many
\* handlers of whatever levels ran in between.
ReturnsToCaller ==
  [][Len(calls') < Len(calls) =>
       LET f == Last(calls)
       IN <<prv', pc', sp', regs'[f.by].ie>> = <<f.prv, f.pc, f.sp, f.ie>>]_vars

\* The assertions of switch_to_trap_handler and prepare_trap: the supervisor
\* never interrupts machine mode, and a guest's supervisor interrupts nothing
\* but its guest.
TrapAssertsHold ==
  \A i \in DOMAIN calls :
    /\ calls[i].by = S => calls[i].prv # M
    /\ calls[i].by = VS => V(calls[i].prv)

\* No mode but M ever accesses memory with the privilege of mpp: on every way
\* out of machine mode MPRV is cleared, and no trap leads down from it.
MprvOnlyInMachine == mprv => prv = M

\* The vector is fetched like data (load_word), so MPRV applies to it; it is
\* fetched with the privilege of the level that is entered all the same.
VectorFetchedByHandler == ivt => MemMode = prv

\* With all swaps enabled each mode runs on its own stack, whatever traps and
\* returns there were between the modes.
OwnStack == config.tsp = TspRegs => sp = prv

\* While the hypervisor handles a trap of a guest, spvp is the guest's nominal
\* mode, the one HLV and HSV act with, also across nested traps of the
\* hypervisor itself.
SpvpNamesGuest ==
  \A i \in DOMAIN calls :
    calls[i].by = S /\ V(calls[i].prv) => spvp = PP(calls[i].prv)
=============================================================================
