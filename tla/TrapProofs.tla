----------------------------- MODULE TrapProofs -----------------------------
(***************************************************************************)
(* Proofs about Trap, for any code, causes, delegation, configuration and  *)
(* depth of nested handlers.                                               *)
(*                                                                         *)
(* TypeOK, MprvOnlyInMachine, VectorFetchedByHandler and TrapAssertsHold   *)
(* are inductive together: a trap out of machine mode stays in machine     *)
(* mode, so MPRV is never carried down by a trap, and the mpp it saves is  *)
(* then the mode the vector is fetched in.                                 *)
(*                                                                         *)
(* What a return restores is in registers that later handlers reuse.       *)
(* NestInv says where: for every suspended handler, in the registers of    *)
(* its level or in a frame its level saved, in order (FramesKept); its     *)
(* stack pointer in the register it was swapped with (Resumable); handlers *)
(* rise in privilege, so what a return overwrites belongs to it (Rising).  *)
(***************************************************************************)
EXTENDS Trap, SequenceTheorems, TLAPS

TInv ==
  /\ TypeOK
  /\ MprvOnlyInMachine
  /\ VectorFetchedByHandler
  /\ TrapAssertsHold

-----------------------------------------------------------------------------
(* The helpers *)

\* What the conversions between modes and their saved form return.
LEMMA ModeLemma ==
  /\ \A mode \in Modes : PP(mode) \in {0, 1, 3} /\ V(mode) \in BOOLEAN
  /\ PP(M) = 3
  /\ \A mode \in Modes : V(mode) => PP(mode) \in {0, 1}
  /\ \A v \in BOOLEAN, pp \in {0, 1, 3} : VPPToPrivilegeLevel(v, pp) \in Modes
  /\ \A v \in BOOLEAN : VPPToPrivilegeLevel(v, 3) = M
BY DEF PP, V, VPPToPrivilegeLevel, Modes, Levels, M, S, VS, U, VU

\* Removing the last element of a sequence, and reading it.
LEMMA FrontLast ==
  ASSUME NEW T, NEW s \in Seq(T), s # <<>>
  PROVE  /\ Front(s) \in Seq(T) /\ Last(s) \in T
         /\ Len(Front(s)) = Len(s) - 1
         /\ \A i \in 1 .. Len(s) - 1 : Front(s)[i] = s[i]
<1>1. Len(s) \in Nat /\ Len(s) >= 1
  BY EmptySeq
<1> DEFINE n == Len(s) - 1
<1>2. n \in Int /\ n >= 0 /\ n + 1 = Len(s)
  BY <1>1
<1>3. \A i \in 1 .. n : s[i] \in T
  BY <1>1
<1> HIDE DEF n
<1>4. /\ SubSeq(s, 1, n) \in Seq(T)
      /\ Len(SubSeq(s, 1, n)) = IF 1 <= n THEN n - 1 + 1 ELSE 0
      /\ \A i \in 1 .. n - 1 + 1 : SubSeq(s, 1, n)[i] = s[1 + i - 1]
  BY <1>2, <1>3, SubSeqProperties
<1>5. Front(s) = SubSeq(s, 1, n)
  BY DEF Front, n
<1>6. Len(Front(s)) = n /\ Front(s) \in Seq(T)
  BY <1>2, <1>4, <1>5
<1>7. \A i \in 1 .. n : Front(s)[i] = s[i]
  BY <1>2, <1>4, <1>5
<1>8. Last(s) \in T
  BY <1>1 DEF Last
<1> QED
  BY <1>6, <1>7, <1>8 DEF n

\* Swapping keeps the stack pointers stack pointers.
LEMMA SwapLemma ==
  ASSUME TypeOK, NEW base \in Levels, NEW desc \in Modes, SwapSp(base, desc)
  PROVE  sp' \in Modes /\ tsp' \in [TspRegs -> Modes]
<1>1. Swapped(base, desc) \subseteq TspRegs
  BY DEF Swapped, TspRegs, Levels, M, S, VS
<1>2. Swapped(base, desc) # {} => (CHOOSE x \in Swapped(base, desc) : TRUE) \in TspRegs
  BY <1>1
<1> QED
  BY <1>1, <1>2 DEF SwapSp, TypeOK

\* prepare_trap never chooses a level below the running one.
LEMMA PrepareTrapLemma ==
  ASSUME TypeOK, NEW cause \in Causes
  PROVE  LET t == PrepareTrap(cause)
         IN t \in Levels /\ (t = S => prv # M) /\ (t = VS => V(prv))
BY DEF PrepareTrap, TypeOK, V, Modes, Levels, M, S, VS, U, VU

\* Neither does compute_pending_interrupt.
LEMMA PendingLemma ==
  ASSUME TypeOK, NEW pending \in SUBSET Levels,
         ComputePendingInterrupt(pending) # NoMode
  PROVE  LET t == ComputePendingInterrupt(pending)
         IN t \in Levels /\ (t = S => prv # M) /\ (t = VS => V(prv))
BY DEF ComputePendingInterrupt, GloballyEnabled, NoMode, TypeOK, V,
       Modes, Levels, M, S, VS, U, VU

\* The code of a mode is among the program counters.
LEMMA CodeLemma ==
  /\ \A mode \in Modes : Code(mode) \subseteq Pcs
  /\ \A mode \in Modes : <<mode, Entry>> \in Code(mode)
BY TrapAssumption DEF Code, Pcs

-----------------------------------------------------------------------------
\* Entering a level that is not below the running one keeps the invariant.
LEMMA SwitchLemma ==
  ASSUME TInv, NEW target \in Levels, NEW at \in Pcs, NEW last \in Pcs,
         Len(calls) < MAX_CALLS, target = S => prv # M, target = VS => V(prv),
         SwitchToTrapHandler(target, at, last)
  PROVE  TInv'
<1> USE DEF TInv
<1>0. prv \in Modes /\ target \in Modes /\ PP(prv) \in {0, 1, 3} /\ V(prv) \in BOOLEAN
  BY ModeLemma DEF TypeOK, Modes
<1>1. regs' \in [Levels -> RegType]
  <2>1. regs[target] \in RegType
    BY DEF TypeOK
  <2>2. [ie |-> FALSE, pie |-> regs[target].ie, pp |-> PP(prv),
         pv |-> IF target = VS THEN regs[target].pv ELSE V(prv), epc |-> at] \in RegType
    BY <2>1, <1>0 DEF RegType
  <2> QED
    BY <2>2 DEF SwitchToTrapHandler, TypeOK
<1>2. sp' \in Modes /\ tsp' \in [TspRegs -> Modes]
  BY <1>0, SwapLemma DEF SwitchToTrapHandler
<1>3. /\ pc' \in Pcs /\ last_pc' \in Pcs /\ ivt' \in BOOLEAN
  BY CodeLemma, <1>0 DEF SwitchToTrapHandler, JumpToTrapVector
<1>4. spvp' \in {0, 1}
  BY ModeLemma, <1>0 DEF SwitchToTrapHandler, SpvpAfterTrap, TypeOK
<1> DEFINE f == [by |-> target, prv |-> prv, pc |-> at, sp |-> sp,
                 ie |-> regs[target].ie]
<1>5. f \in FrameType /\ calls' = Append(calls, f)
  BY <1>0 DEF SwitchToTrapHandler, FrameType, TypeOK, RegType
<1>6. calls' \in Seq(FrameType) /\ Len(calls') <= MAX_CALLS
  BY <1>5, TrapAssumption DEF TypeOK
<1>7. TypeOK'
  BY <1>0, <1>1, <1>2, <1>3, <1>4, <1>6 DEF TypeOK, SwitchToTrapHandler, Levels
<1>8. mprv => prv = M /\ target = M
  BY DEF MprvOnlyInMachine, V, Levels, M, S, VS, VU
<1>9. MprvOnlyInMachine'
  BY <1>8 DEF MprvOnlyInMachine, SwitchToTrapHandler
<1>10. VectorFetchedByHandler'
  <2>1. CASE mprv
    <3>1. regs'[M].pp = 3 /\ prv' = M /\ mprv'
      BY <2>1, <1>8, ModeLemma DEF SwitchToTrapHandler, TypeOK
    <3> QED
      BY <3>1, ModeLemma DEF VectorFetchedByHandler, MemMode
  <2>2. CASE ~mprv
    BY <2>2 DEF VectorFetchedByHandler, MemMode, SwitchToTrapHandler
  <2> QED
    BY <2>1, <2>2 DEF TypeOK
<1>11. TrapAssertsHold'
  BY <1>5 DEF TrapAssertsHold, TypeOK
<1> QED
  BY <1>7, <1>9, <1>10, <1>11

\* xRET keeps the invariant.
LEMMA ReturnLemma ==
  ASSUME TInv, NEW x \in Levels, Return(x)
  PROVE  TInv'
<1> USE DEF TInv
<1> DEFINE r == regs[x]
           to == VPPToPrivilegeLevel(IF x = VS THEN TRUE ELSE r.pv, r.pp)
<1>1. r \in RegType
  BY DEF TypeOK
<1>2. to \in Modes
  BY <1>1, ModeLemma DEF RegType
<1>3. /\ prv' = to /\ pc' = r.epc
      /\ regs' = [regs EXCEPT ![x] = [r EXCEPT !.ie = r.pie, !.pie = TRUE,
                                      !.pp = 0, !.pv = FALSE]]
      /\ mprv' = (mprv /\ x = M /\ to = M)
      /\ SwapSp(x, to)
  BY DEF Return, ReturnFromTrapHandler, MprvAfterReturn
<1>4. [r EXCEPT !.ie = r.pie, !.pie = TRUE, !.pp = 0, !.pv = FALSE] \in RegType
  BY <1>1 DEF RegType
<1>5. regs' \in [Levels -> RegType]
  BY <1>3, <1>4 DEF TypeOK
<1>6. sp' \in Modes /\ tsp' \in [TspRegs -> Modes]
  BY <1>2, <1>3, SwapLemma
<1>7. /\ calls' \in Seq(FrameType) /\ Len(calls') = Len(calls) - 1
      /\ Len(calls') <= MAX_CALLS
      /\ \A i \in 1 .. Len(calls') : calls'[i] = calls[i]
  <2>1. /\ calls \in Seq(FrameType) /\ calls # <<>> /\ calls' = Front(calls)
        /\ Len(calls) <= MAX_CALLS /\ Len(calls) \in Nat
    BY DEF Return, Returns, TypeOK
  <2>2. /\ Front(calls) \in Seq(FrameType) /\ Len(Front(calls)) = Len(calls) - 1
        /\ \A i \in 1 .. Len(calls) - 1 : Front(calls)[i] = calls[i]
    BY <2>1, FrontLast
  <2> QED
    BY <2>1, <2>2, TrapAssumption
<1>8. mprv' \in BOOLEAN /\ pc' \in Pcs
  BY <1>1, <1>3 DEF TypeOK, RegType
<1>9. TypeOK'
  BY <1>2, <1>3, <1>5, <1>6, <1>7, <1>8 DEF TypeOK, Return
<1>10. MprvOnlyInMachine'
  BY <1>3 DEF MprvOnlyInMachine
<1>11. VectorFetchedByHandler'
  BY DEF VectorFetchedByHandler, Return, Executing
<1>12. TrapAssertsHold'
  <2>1. DOMAIN calls' = 1 .. Len(calls') /\ DOMAIN calls = 1 .. Len(calls)
    BY <1>7 DEF TypeOK
  <2>2. \A i \in DOMAIN calls' : i \in DOMAIN calls /\ calls'[i] = calls[i]
    BY <1>7, <2>1 DEF TypeOK
  <2> QED
    BY <2>2 DEF TrapAssertsHold
<1> QED
  BY <1>9, <1>10, <1>11, <1>12

\* A program counter set back to last_pc: the exceptions.
LEMMA ExceptionLemma ==
  ASSUME TInv, NEW cause \in Causes, TakeException(cause)
  PROVE  TInv'
<1>1. last_pc \in Pcs
  BY DEF TInv, TypeOK
<1> QED
  BY <1>1, PrepareTrapLemma, SwitchLemma DEF TakeException, TInv

-----------------------------------------------------------------------------
LEMMA InitTInv == Init => TInv
<1> SUFFICES ASSUME Init PROVE TInv
  OBVIOUS
<1>1. <<M, Entry>> \in Pcs
  BY CodeLemma DEF Modes, Levels
<1>2. BootStacks \in [TspRegs -> Modes]
  BY DEF BootStacks, TspRegs, Modes, Levels, M, S, VS
<1>3. TypeOK
  <2>1. regs \in [Levels -> RegType]
    BY <1>1 DEF Init, RegType
  <2>2. soft \in [Levels -> Seq(RegType)] /\ calls \in Seq(FrameType)
        /\ Len(calls) <= MAX_CALLS
    BY TrapAssumption DEF Init
  <2> QED
    BY <1>1, <1>2, <2>1, <2>2 DEF Init, TypeOK, Modes, Levels
<1> QED
  BY <1>3 DEF Init, TInv, MprvOnlyInMachine, VectorFetchedByHandler, TrapAssertsHold

LEMMA NextTInv == TInv /\ [Next]_vars => TInv'
<1> SUFFICES ASSUME TInv, [Next]_vars PROVE TInv'
  OBVIOUS
<1> USE DEF TInv
<1>1. CASE Run
  <2>1. pc' \in Pcs
    BY <1>1, CodeLemma DEF Run, TypeOK
  <2> QED
    BY <1>1, <2>1 DEF Run, Executing, software, TypeOK, MprvOnlyInMachine,
       VectorFetchedByHandler, TrapAssertsHold
<1>2. CASE \E c \in Causes : Exception(c) \/ FetchFaults(c) \/ SretTraps(c)
  BY <1>2, ExceptionLemma DEF Exception, FetchFaults, SretTraps
<1>3. CASE FetchVector
  <2>1. pc' \in Pcs /\ last_pc' \in Pcs
    BY <1>3, CodeLemma DEF FetchVector, TypeOK
  <2> QED
    BY <1>3, <2>1 DEF FetchVector, software, TypeOK, MprvOnlyInMachine,
       VectorFetchedByHandler, TrapAssertsHold
<1>4. CASE Mret \/ Sret
  BY <1>4, ReturnLemma DEF Mret, Sret, Levels
<1>5. CASE \E enable \in BOOLEAN : SetIe(enable)
  <2>1. PICK enable \in BOOLEAN : SetIe(enable)
    BY <1>5
  <2>2. regs' \in [Levels -> RegType]
    <3>1. prv \in Levels /\ regs[prv] \in RegType
      BY <2>1 DEF SetIe, TypeOK
    <3>2. [regs[prv] EXCEPT !.ie = enable] \in RegType
      BY <3>1 DEF RegType
    <3> QED
      BY <2>1, <3>1, <3>2 DEF SetIe, TypeOK
  <2> QED
    BY <2>1, <2>2 DEF SetIe, Executing, software, TypeOK, MprvOnlyInMachine,
       VectorFetchedByHandler, TrapAssertsHold
<1>6. CASE SetMprv
  BY <1>6 DEF SetMprv, Executing, software, TypeOK, MprvOnlyInMachine,
     VectorFetchedByHandler, TrapAssertsHold
<1>7. CASE SaveFrame
  <2>1. soft' \in [Levels -> Seq(RegType)] /\ live' \subseteq Levels
    BY <1>7 DEF SaveFrame, TypeOK
  <2> QED
    BY <1>7, <2>1 DEF SaveFrame, Executing, TypeOK, MprvOnlyInMachine,
       VectorFetchedByHandler, TrapAssertsHold
<1>8. CASE RestoreFrame
  <2>1. /\ prv \in Levels /\ soft[prv] \in Seq(RegType) /\ soft[prv] # <<>>
    BY <1>8 DEF RestoreFrame, TypeOK
  <2>2. Front(soft[prv]) \in Seq(RegType) /\ Last(soft[prv]) \in RegType
    BY <2>1, FrontLast
  <2>3. [Last(soft[prv]) EXCEPT !.ie = FALSE] \in RegType
    BY <2>2 DEF RegType
  <2>4. /\ soft' \in [Levels -> Seq(RegType)] /\ live' \subseteq Levels
        /\ regs' \in [Levels -> RegType]
    BY <1>8, <2>1, <2>2, <2>3 DEF RestoreFrame, TypeOK
  <2> QED
    BY <1>8, <2>4 DEF RestoreFrame, Executing, TypeOK, MprvOnlyInMachine,
       VectorFetchedByHandler, TrapAssertsHold
<1>9. CASE \E x \in Levels : \E to \in Below(x) : \E at \in Code(to) : Schedule(x, to, at)
  <2>0. PICK x \in Levels : \E to \in Below(x) : \E at \in Code(to) : Schedule(x, to, at)
    BY <1>9
  <2>01. PICK to \in Below(x) : \E at \in Code(to) : Schedule(x, to, at)
    BY <2>0
  <2>1. PICK at \in Code(to) : Schedule(x, to, at)
    BY <2>01
  <2>2. /\ to \in Modes /\ (x = S => to # M) /\ (x = VS => V(to))
    BY DEF Below, V, Modes, Levels, M, S, VS, U, VU
  <2>3. at \in Pcs /\ PP(to) \in {0, 1, 3} /\ V(to) \in BOOLEAN
        /\ (V(to) => PP(to) \in {0, 1})
    BY <2>2, CodeLemma, ModeLemma
  <2>4. regs' \in [Levels -> RegType]
    <3>1. regs[x] \in RegType
      BY DEF TypeOK
    <3>2. [ie |-> FALSE, pie |-> TRUE, pp |-> PP(to),
           pv |-> IF x = VS THEN regs[x].pv ELSE V(to), epc |-> at] \in RegType
      BY <2>3, <3>1 DEF RegType
    <3> QED
      BY <2>1, <3>2 DEF Schedule, TypeOK
  <2>5. tsp' \in [TspRegs -> Modes]
    BY <2>1, <2>2 DEF Schedule, TypeOK, Modes
  <2> DEFINE f == [by |-> x, prv |-> to, pc |-> at,
                   sp |-> IF Swapped(x, to) = {} THEN sp ELSE to, ie |-> TRUE]
  <2>6. f \in FrameType /\ calls' = <<f>>
    BY <2>1, <2>2, <2>3 DEF Schedule, FrameType, TypeOK
  <2>7. calls' \in Seq(FrameType) /\ Len(calls') <= MAX_CALLS
    BY <2>6, TrapAssumption
  <2>8. TypeOK'
    BY <2>1, <2>3, <2>4, <2>5, <2>7 DEF Schedule, TypeOK
  <2>9. TrapAssertsHold'
    BY <2>2, <2>6 DEF TrapAssertsHold
  <2> QED
    BY <2>1, <2>8, <2>9 DEF Schedule, Executing, MprvOnlyInMachine,
       VectorFetchedByHandler
<1>10. CASE \E pending \in SUBSET Levels : Interrupt(pending)
  <2>1. PICK pending \in SUBSET Levels : Interrupt(pending)
    BY <1>10
  <2>2. pc \in Pcs /\ last_pc \in Pcs
    BY DEF TypeOK
  <2> QED
    BY <2>1, <2>2, PendingLemma, SwitchLemma DEF Interrupt
<1>11. CASE NoInterrupt
  BY <1>11 DEF NoInterrupt, software, TypeOK, MprvOnlyInMachine,
     VectorFetchedByHandler, MemMode, TrapAssertsHold
<1>12. CASE UNCHANGED vars
  BY <1>12 DEF vars, TypeOK, MprvOnlyInMachine, VectorFetchedByHandler, MemMode,
     TrapAssertsHold
<1> QED
  BY <1>1, <1>2, <1>3, <1>4, <1>5, <1>6, <1>7, <1>8, <1>9, <1>10, <1>11, <1>12
     DEF Next

LEMMA TInvHolds == Spec => []TInv
BY InitTInv, NextTInv, PTL DEF Spec

-----------------------------------------------------------------------------
\* Every register keeps its type and handlers nest no deeper than the bound.
THEOREM TrapTypeCorrect == Spec => []TypeOK
<1>1. TInv => TypeOK
  BY DEF TInv
<1> QED
  BY <1>1, TInvHolds, PTL

\* MPRV is set in machine mode only: neither traps nor xRET carry it to a lower
\* mode.
THEOREM MprvStaysInMachine == Spec => []MprvOnlyInMachine
<1>1. TInv => MprvOnlyInMachine
  BY DEF TInv
<1> QED
  BY <1>1, TInvHolds, PTL

\* The postponed vector fetch is checked with the privilege of the level that
\* was entered, although it is an ordinary load.
THEOREM VectorAlwaysFetchedByHandler == Spec => []VectorFetchedByHandler
<1>1. TInv => VectorFetchedByHandler
  BY DEF TInv
<1> QED
  BY <1>1, TInvHolds, PTL

\* The assertions of prepare_trap and switch_to_trap_handler never fail.
THEOREM TrapAssertsAlwaysHold == Spec => []TrapAssertsHold
<1>1. TInv => TrapAssertsHold
  BY DEF TInv
<1> QED
  BY <1>1, TInvHolds, PTL

-----------------------------------------------------------------------------
(* Nested handlers *)

\* The modes that code may run in while a handler of level x is suspended or
\* runs itself.
Upper(x) == IF x = M THEN {M} ELSE IF x = S THEN {S, M} ELSE {VS, S, M}

\* The register swapped between level `base' and mode `desc', as a function of
\* the swaps that are on.
TspOf(base, desc) ==
  IF base = M THEN "mtsp"
  ELSE IF base = VS THEN "vstsp"
  ELSE IF V(desc) THEN "htsp" ELSE "stsp"

Uses(on, base, desc) == {t \in on : t = TspOf(base, desc) /\ base # desc}

\* Handlers only ever interrupt less privileged code, or code of their level.
Rising ==
  /\ \A i \in 1 .. Len(calls) : prv \in Upper(calls[i].by)
  /\ \A i, j \in 1 .. Len(calls) : i < j => calls[j].prv \in Upper(calls[i].by)

\* With swapping on, a level is left by its own xRET only.
Handling ==
  config.tsp # {} =>
    \A i \in 1 .. Len(calls) :
      calls[i].by = IF i = Len(calls) THEN prv ELSE calls[i + 1].prv

\* The stack pointer of what a handler interrupted is in the register it was
\* swapped with; if none was, it is the one the handler runs with.
Resumable ==
  \A i \in 1 .. Len(calls) :
    LET u == Uses(config.tsp, calls[i].by, calls[i].prv)
    IN  /\ \A t \in u : tsp[t] = calls[i].sp
        /\ u = {} => calls[i].sp = IF i = Len(calls) THEN sp ELSE calls[i + 1].sp

\* With all swaps on, the registers not in use keep the stacks of their levels.
OwnStacks ==
  config.tsp = TspRegs =>
    /\ sp = prv
    /\ \A i \in 1 .. Len(calls) : calls[i].sp = calls[i].prv
    /\ \A t \in TspRegs :
         (\A i \in 1 .. Len(calls) : t \notin Uses(TspRegs, calls[i].by, calls[i].prv))
           => tsp[t] = BootStacks[t]

\* A level whose registers are in use cannot be interrupted by itself.
LiveMasked == \A x \in live : ~regs[x].ie

\* Registers r of level x describe what frame f remembers.
Describes(x, r, f) ==
  /\ VPPToPrivilegeLevel(IF x = VS THEN TRUE ELSE r.pv, r.pp) = f.prv
  /\ r.epc = f.pc
  /\ r.pie = f.ie

\* The registers of the frames of level x, oldest first: those its handlers
\* saved, and those still in the registers.
Held(x) == IF x \in live THEN Append(soft[x], regs[x]) ELSE soft[x]

\* s lists the frames of level x among the n frames of cs in their order, and
\* held describes them.
Listed(x, s, m, cs, n, held) ==
  /\ \A k \in 1 .. m : /\ s[k] \in 1 .. n /\ cs[s[k]].by = x
                       /\ Describes(x, held[k], cs[s[k]])
  /\ \A k, l \in 1 .. m : k < l => s[k] < s[l]
  /\ \A i \in 1 .. n : cs[i].by = x => \E k \in 1 .. m : s[k] = i

FramesKept ==
  \A x \in Levels :
    \E s \in [1 .. Len(Held(x)) -> Nat] :
      Listed(x, s, Len(Held(x)), calls, Len(calls), Held(x))

NestInv == /\ TInv /\ Rising /\ Handling /\ Resumable /\ OwnStacks
           /\ LiveMasked /\ FramesKept /\ SpvpNamesGuest

LEMMA ModeInverse ==
  \A mode \in Modes : VPPToPrivilegeLevel(V(mode), PP(mode)) = mode
BY DEF VPPToPrivilegeLevel, PP, V, Modes, Levels, M, S, VS, U, VU

LEMMA SwappedUses ==
  ASSUME TypeOK, NEW base \in Levels, NEW desc \in Modes
  PROVE  Swapped(base, desc) = Uses(config.tsp, base, desc)
<1>1. config.tsp \subseteq TspRegs
  BY TrapAssumption DEF TypeOK, ConfigType
<1>2. CASE base = M
  BY <1>2 DEF Swapped, Uses, TspOf, M, VS, S
<1>3. CASE base = VS
  BY <1>3 DEF Swapped, Uses, TspOf, M, VS, S
<1>4. CASE base = S /\ V(desc)
  <2>1. desc # S
    BY <1>4 DEF V, VS, VU, S
  <2> QED BY <1>4, <2>1 DEF Swapped, Uses, TspOf, M, VS, S
<1>5. CASE base = S /\ ~V(desc)
  BY <1>5 DEF Swapped, Uses, TspOf, M, VS, S
<1> QED BY <1>2, <1>3, <1>4, <1>5 DEF Levels

\* What swapping does, when sp and the registers are given.
LEMMA SwapSpLemma ==
  ASSUME TypeOK, NEW base \in Levels, NEW desc \in Modes, SwapSp(base, desc)
  PROVE  LET u == Uses(config.tsp, base, desc)
         IN  /\ u = {} => sp' = sp
             /\ \A t \in u : sp' = tsp[t]
             /\ \A t \in TspRegs : tsp'[t] = IF t \in u THEN sp ELSE tsp[t]
<1> DEFINE u == Uses(config.tsp, base, desc)
<1>1. u = Swapped(base, desc)
  BY SwappedUses
<1>2. \A t, w \in u : t = w
  BY DEF Uses
<1>3. sp' = IF u = {} THEN sp ELSE tsp[CHOOSE x \in u : TRUE]
  BY <1>1 DEF SwapSp
<1>4. \A t \in TspRegs : tsp'[t] = IF t \in u THEN sp ELSE tsp[t]
  BY <1>1 DEF SwapSp
<1> HIDE DEF u
<1>5. ASSUME NEW t \in u PROVE sp' = tsp[t]
  <2>1. (CHOOSE x \in u : TRUE) \in u
    BY <1>5
  <2> QED BY <1>2, <1>3, <1>5, <2>1
<1> QED BY <1>3, <1>4, <1>5 DEF u

\* A register belongs to one level.
LEMMA UsesOwn ==
  ASSUME NEW on \in SUBSET TspRegs, NEW base \in Levels, NEW desc \in Modes,
         NEW t \in Uses(on, base, desc)
  PROVE  t \in TspRegs /\ BootStacks[t] = base
BY DEF Uses, TspOf, BootStacks, TspRegs, Levels, M, S, VS

\* With all swaps on every change of level swaps.
LEMMA UsesAll ==
  ASSUME NEW base \in Levels, NEW desc \in Modes, base # desc
  PROVE  Uses(TspRegs, base, desc) # {}
<1>1. TspOf(base, desc) \in Uses(TspRegs, base, desc)
  BY DEF Uses, TspOf, TspRegs
<1> QED BY <1>1

\* No register is in use by two handlers: above a suspended handler of a level
\* nothing runs that could swap with the same register again.
LEMMA UsesApart ==
  ASSUME NEW on, NEW a \in Levels, NEW p, NEW b \in Levels, NEW q \in Upper(a),
         b = S => q # M, b = VS => V(q)
  PROVE  Uses(on, a, p) \intersect Uses(on, b, q) = {}
BY DEF Uses, TspOf, Upper, V, Levels, M, S, VS, VU

LEMMA UpperLemma ==
  ASSUME NEW a \in Levels, NEW b \in Levels, NEW q \in Upper(a),
         b = S => q # M, b = VS => V(q)
  PROVE  b \in Upper(a) /\ b \in Upper(b)
BY DEF Upper, V, Levels, M, S, VS, VU

-----------------------------------------------------------------------------
(* Lists of frames *)

\* A frame of another level is added.
LEMMA ListedOther ==
  ASSUME NEW x, NEW m \in Nat, NEW s \in [1 .. m -> Nat], NEW n \in Nat,
         NEW cs, NEW held, NEW ds, Listed(x, s, m, cs, n, held),
         \A i \in 1 .. n : ds[i] = cs[i], ds[n + 1].by # x
  PROVE  Listed(x, s, m, ds, n + 1, held)
<1>1. \A k \in 1 .. m : s[k] \in 1 .. n + 1 /\ s[k] \in 1 .. n
  BY DEF Listed
<1>2. \A i \in 1 .. n + 1 : i \in 1 .. n \/ i = n + 1
  OBVIOUS
<1> QED BY <1>1, <1>2 DEF Listed

\* A frame of the level is added.
LEMMA ListedMore ==
  ASSUME NEW x, NEW m \in Nat, NEW s \in [1 .. m -> Nat], NEW n \in Nat,
         NEW cs, NEW held, NEW ds, NEW more, Listed(x, s, m, cs, n, held),
         \A i \in 1 .. n : ds[i] = cs[i], ds[n + 1].by = x,
         \A k \in 1 .. m : more[k] = held[k], Describes(x, more[m + 1], ds[n + 1])
  PROVE  \E z \in [1 .. m + 1 -> Nat] : Listed(x, z, m + 1, ds, n + 1, more)
<1> DEFINE z == [k \in 1 .. m + 1 |-> IF k = m + 1 THEN n + 1 ELSE s[k]]
<1>1. \A k \in 1 .. m : k \in 1 .. m + 1 /\ k # m + 1 /\ s[k] \in 1 .. n
  BY DEF Listed
<1>2. \A k \in 1 .. m + 1 : k \in 1 .. m \/ k = m + 1
  OBVIOUS
<1>3. z \in [1 .. m + 1 -> Nat] /\ z[m + 1] = n + 1
  BY <1>2
<1>4. \A k \in 1 .. m : z[k] = s[k]
  BY <1>1
<1> HIDE DEF z
<1>5. ASSUME NEW k \in 1 .. m + 1
      PROVE  z[k] \in 1 .. n + 1 /\ ds[z[k]].by = x /\ Describes(x, more[k], ds[z[k]])
  <2>1. CASE k = m + 1
    BY <1>3, <2>1
  <2>2. CASE k \in 1 .. m
    <3>1. z[k] \in 1 .. n
      BY <1>1, <1>4, <2>2
    <3> QED BY <1>4, <2>2, <3>1 DEF Listed
  <2> QED BY <1>2, <2>1, <2>2
<1>6. ASSUME NEW k \in 1 .. m + 1, NEW l \in 1 .. m + 1, k < l PROVE z[k] < z[l]
  <2>1. k \in 1 .. m
    BY <1>6
  <2>2. CASE l = m + 1
    <3>1. z[k] \in 1 .. n
      BY <1>1, <1>4, <2>1
    <3> QED BY <1>3, <2>2, <3>1
  <2>3. CASE l \in 1 .. m
    BY <1>4, <1>6, <2>1, <2>3 DEF Listed
  <2> QED BY <1>2, <2>2, <2>3
<1>7. ASSUME NEW i \in 1 .. n + 1, ds[i].by = x PROVE \E k \in 1 .. m + 1 : z[k] = i
  <2>1. CASE i = n + 1
    BY <1>3, <2>1
  <2>2. CASE i \in 1 .. n
    <3>1. PICK k \in 1 .. m : s[k] = i
      BY <1>7, <2>2 DEF Listed
    <3>2. k \in 1 .. m + 1 /\ z[k] = i
      BY <1>1, <1>4, <3>1
    <3> QED BY <3>2
  <2> QED BY <2>1, <2>2
<1>8. Listed(x, z, m + 1, ds, n + 1, more)
  BY <1>5, <1>6, <1>7 DEF Listed
<1> QED BY <1>3, <1>8

\* The last frame is that of the level's last entry.
LEMMA ListedLast ==
  ASSUME NEW x, NEW m \in Nat, NEW s \in [1 .. m -> Nat], NEW n \in Nat,
         NEW cs, NEW held, Listed(x, s, m, cs, n, held), n >= 1, cs[n].by = x
  PROVE  m >= 1 /\ s[m] = n /\ Describes(x, held[m], cs[n])
<1>1. PICK k \in 1 .. m : s[k] = n
  BY DEF Listed
<1>2. m \in 1 .. m
  BY <1>1
<1>3. s[m] \in 1 .. n
  BY <1>2 DEF Listed
<1>4. k < m => s[k] < s[m]
  BY <1>2 DEF Listed
<1>5. k = m
  BY <1>1, <1>2, <1>3, <1>4
<1> QED BY <1>1, <1>2, <1>5 DEF Listed

\* The last frame, one of another level, is removed.
LEMMA ListedOtherLess ==
  ASSUME NEW x, NEW m \in Nat, NEW s \in [1 .. m -> Nat], NEW n \in Nat,
         NEW cs, NEW held, NEW ds, Listed(x, s, m, cs, n + 1, held),
         \A i \in 1 .. n : ds[i] = cs[i], cs[n + 1].by # x
  PROVE  Listed(x, s, m, ds, n, held)
<1>1. \A k \in 1 .. m : s[k] \in 1 .. n
  <2>1. ASSUME NEW k \in 1 .. m PROVE s[k] \in 1 .. n
    <3>1. s[k] \in 1 .. n + 1 /\ s[k] # n + 1
      BY DEF Listed
    <3> QED BY <3>1
  <2> QED BY <2>1
<1>2. \A i \in 1 .. n : i \in 1 .. n + 1
  OBVIOUS
<1> QED BY <1>1, <1>2 DEF Listed

\* The last frame, one of the level, is removed.
LEMMA ListedLess ==
  ASSUME NEW x, NEW m \in Nat, NEW s \in [1 .. m + 1 -> Nat], NEW n \in Nat,
         NEW cs, NEW held, NEW ds, Listed(x, s, m + 1, cs, n + 1, held),
         \A i \in 1 .. n : ds[i] = cs[i], cs[n + 1].by = x
  PROVE  \E z \in [1 .. m -> Nat] : Listed(x, z, m, ds, n, held)
<1> DEFINE z == [k \in 1 .. m |-> s[k]]
<1>1. m + 1 \in Nat /\ n + 1 \in Nat /\ n + 1 >= 1 /\ m + 1 \in 1 .. m + 1
  OBVIOUS
<1>2. s[m + 1] = n + 1
  BY <1>1, ListedLast
<1>3. ASSUME NEW k \in 1 .. m
      PROVE  k \in 1 .. m + 1 /\ s[k] \in 1 .. n
  <2>1. k \in 1 .. m + 1 /\ k < m + 1
    OBVIOUS
  <2>2. s[k] < n + 1 /\ s[k] \in 1 .. n + 1
    BY <1>1, <1>2, <2>1 DEF Listed
  <2> QED BY <2>1, <2>2
<1>4. z \in [1 .. m -> Nat] /\ \A k \in 1 .. m : z[k] = s[k]
  BY <1>3
<1> HIDE DEF z
<1>5. ASSUME NEW k \in 1 .. m
      PROVE  z[k] \in 1 .. n /\ ds[z[k]].by = x /\ Describes(x, held[k], ds[z[k]])
  BY <1>3, <1>4 DEF Listed
<1>6. ASSUME NEW k \in 1 .. m, NEW l \in 1 .. m, k < l PROVE z[k] < z[l]
  BY <1>3, <1>4, <1>6 DEF Listed
<1>7. ASSUME NEW i \in 1 .. n, ds[i].by = x PROVE \E k \in 1 .. m : z[k] = i
  <2>1. i \in 1 .. n + 1 /\ i # n + 1 /\ cs[i].by = x
    BY <1>7
  <2>2. PICK k \in 1 .. m + 1 : s[k] = i
    BY <2>1 DEF Listed
  <2>3. k \in 1 .. m
    BY <1>2, <2>1, <2>2
  <2> QED BY <1>4, <2>2, <2>3
<1>8. Listed(x, z, m, ds, n, held)
  BY <1>5, <1>6, <1>7 DEF Listed
<1> QED BY <1>4, <1>8

\* Other registers describe the same frames.
LEMMA ListedAs ==
  ASSUME NEW x, NEW m \in Nat, NEW s \in [1 .. m -> Nat], NEW n \in Nat,
         NEW cs, NEW held, NEW other, Listed(x, s, m, cs, n, held),
         \A k \in 1 .. m : \A f : Describes(x, held[k], f) => Describes(x, other[k], f)
  PROVE  Listed(x, s, m, cs, n, other)
BY DEF Listed

\* What the registers of a level hold, as a sequence.
LEMMA HeldType ==
  ASSUME TypeOK, NEW x \in Levels
  PROVE  /\ soft[x] \in Seq(RegType) /\ Len(soft[x]) \in Nat /\ regs[x] \in RegType
         /\ Held(x) \in Seq(RegType) /\ Len(Held(x)) \in Nat
         /\ x \in live => /\ Len(Held(x)) = Len(soft[x]) + 1
                          /\ Held(x)[Len(soft[x]) + 1] = regs[x]
                          /\ \A k \in 1 .. Len(soft[x]) : Held(x)[k] = soft[x][k]
         /\ x \notin live => Held(x) = soft[x]
BY DEF TypeOK, Held

\* A level whose registers are in use has a frame, so that what runs is at
\* least as privileged.
LEMMA LiveBelow ==
  ASSUME NestInv, NEW x \in live
  PROVE  prv \in Upper(x) /\ ~regs[x].ie
<1>1. x \in Levels /\ TypeOK
  BY DEF NestInv, TInv, TypeOK
<1>2. PICK s \in [1 .. Len(Held(x)) -> Nat] :
        Listed(x, s, Len(Held(x)), calls, Len(calls), Held(x))
  BY <1>1 DEF NestInv, FramesKept
<1>3. Len(Held(x)) \in 1 .. Len(Held(x))
  BY <1>1, HeldType
<1> DEFINE i == s[Len(Held(x))]
<1>4. i \in 1 .. Len(calls) /\ calls[i].by = x
  BY <1>2, <1>3 DEF Listed
<1> QED BY <1>4 DEF NestInv, Rising, LiveMasked

-----------------------------------------------------------------------------
(* The steps *)

LEMMA SwitchNest ==
  ASSUME NestInv, NEW target \in Levels, NEW at \in Pcs, NEW last \in Pcs,
         Len(calls) < MAX_CALLS, target = S => prv # M, target = VS => V(prv),
         target \notin live, SwitchToTrapHandler(target, at, last)
  PROVE  NestInv'
<1> DEFINE n == Len(calls)
           f == [by |-> target, prv |-> prv, pc |-> at, sp |-> sp,
                 ie |-> regs[target].ie]
           r == [ie |-> FALSE, pie |-> regs[target].ie, pp |-> PP(prv),
                 pv |-> IF target = VS THEN regs[target].pv ELSE V(prv), epc |-> at]
           u == Uses(config.tsp, target, prv)
<1>1. TInv /\ TypeOK /\ TrapAssertsHold
  BY DEF NestInv, TInv
<1>2. TInv'
  BY <1>1, SwitchLemma
<1>3. /\ prv' = target /\ config' = config /\ soft' = soft
      /\ live' = live \union {target}
      /\ regs' = [regs EXCEPT ![target] = r]
      /\ spvp' = SpvpAfterTrap(target)
      /\ calls' = Append(calls, f)
      /\ SwapSp(target, prv)
  BY DEF SwitchToTrapHandler
<1>4. /\ prv \in Modes /\ n \in Nat /\ calls \in Seq(FrameType) /\ f \in FrameType
      /\ regs \in [Levels -> RegType] /\ soft \in [Levels -> Seq(RegType)]
      /\ config.tsp \subseteq TspRegs
  <2>1. regs[target].ie \in BOOLEAN
    BY <1>1 DEF TypeOK, RegType
  <2> QED BY <1>1, <2>1, TrapAssumption DEF TypeOK, FrameType, ConfigType
<1>5. /\ Len(calls') = n + 1
      /\ \A i \in 1 .. n : calls'[i] = calls[i] /\ calls[i] \in FrameType
      /\ calls'[n + 1] = f
  BY <1>3, <1>4
<1>6. /\ u = {} => sp' = sp
      /\ \A t \in u : sp' = tsp[t]
      /\ \A t \in TspRegs : tsp'[t] = IF t \in u THEN sp ELSE tsp[t]
  BY <1>1, <1>3, <1>4, SwapSpLemma
<1>7. regs'[target] = r /\ \A x \in Levels \ {target} : regs'[x] = regs[x]
  BY <1>3, <1>4
<1>8. f.by = target /\ f.prv = prv /\ f.sp = sp /\ f.pc = at /\ f.ie = regs[target].ie
  OBVIOUS
<1>9. \A i \in 1 .. n : calls[i].by \in Levels /\ prv \in Upper(calls[i].by)
                         /\ target \in Upper(calls[i].by)
  BY <1>4, <1>5, UpperLemma DEF NestInv, Rising, FrameType
<1>10. target \in Upper(target)
  BY DEF Upper, Levels
<1> HIDE DEF n, f, r, u
<1>11. Rising'
  <2>1. ASSUME NEW i \in 1 .. n + 1 PROVE prv' \in Upper(calls'[i].by)
    <3>1. i \in 1 .. n \/ i = n + 1
      BY <1>4
    <3> QED BY <1>3, <1>5, <1>8, <1>9, <1>10, <3>1
  <2>2. ASSUME NEW i \in 1 .. n + 1, NEW j \in 1 .. n + 1, i < j
        PROVE  calls'[j].prv \in Upper(calls'[i].by)
    <3>1. i \in 1 .. n /\ (j \in 1 .. n \/ j = n + 1)
      BY <1>4, <2>2
    <3>2. CASE j \in 1 .. n
      BY <1>5, <2>2, <3>1, <3>2 DEF NestInv, Rising, n
    <3>3. CASE j = n + 1
      BY <1>5, <1>8, <1>9, <3>1, <3>3
    <3> QED BY <3>1, <3>2, <3>3
  <2> QED BY <1>5, <2>1, <2>2 DEF Rising
<1>12. Handling'
  <2>1. SUFFICES ASSUME config.tsp # {}, NEW i \in 1 .. n + 1
                 PROVE  calls'[i].by = IF i = n + 1 THEN prv' ELSE calls'[i + 1].prv
    BY <1>3, <1>5 DEF Handling
  <2>2. CASE i = n + 1
    BY <1>3, <1>5, <1>8, <2>2
  <2>3. CASE i = n
    <3>1. i \in 1 .. n /\ i # n + 1
      BY <1>4, <2>3
    <3>2. calls[i].by = prv
      BY <2>1, <2>3, <3>1 DEF NestInv, Handling, n
    <3> QED BY <1>5, <1>8, <2>3, <3>1, <3>2
  <2>4. CASE i # n /\ i # n + 1
    <3>1. i \in 1 .. n /\ i + 1 \in 1 .. n
      BY <1>4, <2>4
    <3>2. calls[i].by = calls[i + 1].prv
      BY <2>1, <2>4, <3>1 DEF NestInv, Handling, n
    <3> QED BY <1>5, <2>4, <3>1, <3>2
  <2> QED BY <2>2, <2>3, <2>4
<1>13. \A i \in 1 .. n : Uses(config.tsp, calls[i].by, calls[i].prv) \intersect u = {}
  BY <1>9, UsesApart DEF u
<1>14. \A i \in 1 .. n : Uses(config.tsp, calls[i].by, calls[i].prv) \subseteq TspRegs
  BY <1>4 DEF Uses
<1>15. Resumable'
  <2> DEFINE w(i) == Uses(config.tsp, calls'[i].by, calls'[i].prv)
  <2>1. ASSUME NEW i \in 1 .. n + 1
        PROVE  /\ \A t \in w(i) : tsp'[t] = calls'[i].sp
               /\ w(i) = {} => calls'[i].sp = IF i = n + 1 THEN sp' ELSE calls'[i + 1].sp
    <3>1. CASE i = n + 1
      <4>1. w(i) = u
        BY <1>5, <1>8, <3>1 DEF u
      <4>2. u \subseteq TspRegs
        BY <1>4 DEF u, Uses
      <4> QED BY <1>5, <1>6, <1>8, <3>1, <4>1, <4>2
    <3>2. CASE i \in 1 .. n
      <4>1. w(i) = Uses(config.tsp, calls[i].by, calls[i].prv)
        BY <1>5, <3>2
      <4>2. \A t \in w(i) : tsp'[t] = tsp[t] /\ tsp[t] = calls[i].sp
        BY <1>6, <1>13, <1>14, <3>2, <4>1 DEF NestInv, Resumable, n
      <4>3. w(i) = {} => calls[i].sp = IF i = n THEN sp ELSE calls[i + 1].sp
        BY <3>2, <4>1 DEF NestInv, Resumable, n
      <4>4. i # n + 1 /\ (i # n => i + 1 \in 1 .. n)
        BY <1>4, <3>2
      <4>5. calls'[i].sp = calls[i].sp
        BY <1>5, <3>2
      <4>6. CASE i = n
        BY <1>5, <1>8, <4>2, <4>3, <4>4, <4>5, <4>6
      <4>7. CASE i # n
        <5>1. calls'[i + 1] = calls[i + 1]
          BY <1>5, <4>4, <4>7
        <5> QED BY <4>2, <4>3, <4>4, <4>5, <4>7, <5>1
      <4> QED BY <4>6, <4>7
    <3>3. i = n + 1 \/ i \in 1 .. n
      BY <1>4
    <3> QED BY <3>1, <3>2, <3>3
  <2> QED BY <1>3, <1>5, <2>1 DEF Resumable
<1>16. OwnStacks'
  <2>1. SUFFICES ASSUME config.tsp = TspRegs PROVE OwnStacks'
    BY <1>3 DEF OwnStacks
  <2>2. /\ sp = prv
        /\ \A i \in 1 .. n : calls[i].sp = calls[i].prv
        /\ \A t \in TspRegs :
             (\A i \in 1 .. n : t \notin Uses(TspRegs, calls[i].by, calls[i].prv))
               => tsp[t] = BootStacks[t]
    BY <2>1 DEF NestInv, OwnStacks, n
  <2>3. sp' = prv'
    <3>1. CASE target = prv
      BY <1>3, <1>6, <2>2, <3>1 DEF u, Uses
    <3>2. CASE target # prv
      <4>1. PICK t : t \in u
        BY <1>4, <2>1, <3>2, UsesAll DEF u
      <4>2. t \in TspRegs /\ BootStacks[t] = target
        BY <1>4, <2>1, <4>1, UsesOwn DEF u
      <4>3. \A i \in 1 .. n : t \notin Uses(TspRegs, calls[i].by, calls[i].prv)
        BY <1>13, <2>1, <4>1
      <4> QED BY <1>3, <1>6, <2>2, <4>1, <4>2, <4>3
    <3> QED BY <3>1, <3>2
  <2>4. ASSUME NEW i \in 1 .. n + 1 PROVE calls'[i].sp = calls'[i].prv
    <3>1. i \in 1 .. n \/ i = n + 1
      BY <1>4
    <3> QED BY <1>5, <1>8, <2>2, <3>1
  <2>5. ASSUME NEW t \in TspRegs,
               \A i \in 1 .. n + 1 : t \notin Uses(TspRegs, calls'[i].by, calls'[i].prv)
        PROVE  tsp'[t] = BootStacks[t]
    <3>1. n + 1 \in 1 .. n + 1 /\ \A i \in 1 .. n : i \in 1 .. n + 1
      BY <1>4
    <3>2. t \notin u
      BY <1>5, <1>8, <2>1, <2>5, <3>1 DEF u
    <3>3. \A i \in 1 .. n : t \notin Uses(TspRegs, calls[i].by, calls[i].prv)
      BY <1>5, <2>5, <3>1
    <3> QED BY <1>6, <2>2, <3>2, <3>3
  <2> QED BY <1>5, <2>3, <2>4, <2>5 DEF OwnStacks
<1>17. LiveMasked'
  <2>1. ~ r.ie
    BY DEF r
  <2>2. \A x \in live : x \in Levels /\ ~ regs[x].ie
    BY <1>1 DEF NestInv, LiveMasked, TypeOK
  <2> QED BY <1>3, <1>7, <2>1, <2>2 DEF LiveMasked
<1>18. FramesKept'
  <2>1. SUFFICES ASSUME NEW x \in Levels
                 PROVE  \E s \in [1 .. Len(Held(x)') -> Nat] :
                          Listed(x, s, Len(Held(x)'), calls', Len(calls'), Held(x)')
    BY DEF FramesKept
  <2> DEFINE m == Len(Held(x))
  <2>2. PICK s \in [1 .. m -> Nat] : Listed(x, s, m, calls, n, Held(x))
    BY DEF NestInv, FramesKept, n
  <2>3. m \in Nat /\ Held(x) \in Seq(RegType)
    BY <1>1, HeldType
  <2>4. CASE x # target
    <3>1. Held(x)' = Held(x)
      BY <1>3, <1>7, <2>4 DEF Held
    <3>2. Listed(x, s, m, calls', n + 1, Held(x))
      BY <1>4, <1>5, <1>8, <2>2, <2>3, <2>4, ListedOther
    <3> QED BY <1>5, <3>1, <3>2
  <2>5. CASE x = target
    <3>1. Held(x) = soft[x] /\ soft[x] \in Seq(RegType)
      BY <1>1, <2>5, HeldType
    <3>2. Held(x)' = Append(soft[x], r)
      BY <1>3, <1>7, <2>5 DEF Held
    <3> DEFINE more == Append(soft[x], r)
    <3>3. Len(more) = m + 1 /\ more[m + 1] = r /\ \A k \in 1 .. m : more[k] = Held(x)[k]
      BY <3>1
    <3>4. Describes(x, r, f)
      <4>1. VPPToPrivilegeLevel(IF x = VS THEN TRUE ELSE r.pv, r.pp) = prv
        <5>1. r.pp = PP(prv) /\ (x # VS => r.pv = V(prv))
          BY <2>5 DEF r
        <5>2. VPPToPrivilegeLevel(V(prv), PP(prv)) = prv /\ V(prv) \in BOOLEAN
          BY <1>4, ModeInverse, ModeLemma
        <5>3. x = VS => V(prv) = TRUE
          BY <2>5, <5>2
        <5> QED BY <5>1, <5>2, <5>3
      <4>2. r.epc = at /\ r.pie = regs[target].ie
        BY DEF r
      <4> QED BY <1>8, <4>1, <4>2 DEF Describes
    <3> HIDE DEF more, m
    <3>5. \E z \in [1 .. m + 1 -> Nat] : Listed(x, z, m + 1, calls', n + 1, more)
      <4>1. n \in Nat /\ m \in Nat
        BY <1>4, <2>3
      <4>2. calls'[n + 1].by = x /\ Describes(x, more[m + 1], calls'[n + 1])
        BY <1>5, <1>8, <2>5, <3>3, <3>4
      <4>3. \A i \in 1 .. n : calls'[i] = calls[i]
        BY <1>5
      <4>4. \A k \in 1 .. m : more[k] = Held(x)[k]
        BY <3>3
      <4> QED BY <2>2, <4>1, <4>2, <4>3, <4>4, ListedMore
    <3> QED BY <1>5, <3>2, <3>3, <3>5 DEF more
  <2> QED BY <2>4, <2>5
<1>19. SpvpNamesGuest'
  <2>1. SUFFICES ASSUME NEW i \in 1 .. n + 1, calls'[i].by = S, V(calls'[i].prv)
                 PROVE  spvp' = PP(calls'[i].prv)
    <3>1. DOMAIN calls' = 1 .. n + 1
      BY <1>3, <1>4, <1>5
    <3> QED BY <3>1 DEF SpvpNamesGuest
  <2>2. CASE i = n + 1
    BY <1>3, <1>5, <1>8, <2>1, <2>2 DEF SpvpAfterTrap
  <2>3. CASE i \in 1 .. n
    <3>1. prv \in {S, M}
      BY <1>5, <1>9, <2>1, <2>3 DEF Upper, S, M
    <3>2. ~ V(prv)
      BY <3>1 DEF V, S, M, VS, VU
    <3>3. DOMAIN calls = 1 .. n
      BY <1>4 DEF n
    <3>4. spvp = PP(calls[i].prv)
      BY <1>5, <2>1, <2>3, <3>3 DEF NestInv, SpvpNamesGuest
    <3> QED BY <1>3, <1>5, <2>3, <3>2, <3>4 DEF SpvpAfterTrap
  <2> QED BY <1>4, <2>2, <2>3
<1> QED BY <1>2, <1>11, <1>12, <1>15, <1>16, <1>17, <1>18, <1>19 DEF NestInv

\* xRET resumes what the handler interrupted.
LEMMA ReturnResumes ==
  ASSUME NestInv, NEW x \in Levels, Return(x)
  PROVE  LET f == calls[Len(calls)]
         IN  /\ Len(calls) \in Nat /\ Len(calls) >= 1 /\ f \in FrameType /\ f.by = x
             /\ prv' = f.prv /\ pc' = f.pc /\ sp' = f.sp /\ regs'[x].ie = f.ie
             /\ SwapSp(x, f.prv)
<1> DEFINE n == Len(calls)
           f == calls[n]
           r == regs[x]
           to == VPPToPrivilegeLevel(IF x = VS THEN TRUE ELSE r.pv, r.pp)
<1>1. TypeOK /\ calls \in Seq(FrameType) /\ n \in Nat /\ regs \in [Levels -> RegType]
  BY DEF NestInv, TInv, TypeOK
<1>2. calls # <<>> /\ f.by = x /\ x \in live
  BY DEF Return, Returns, Last
<1>3. n >= 1 /\ f \in FrameType
  BY <1>1, <1>2, EmptySeq
<1>4. /\ Len(Held(x)) = Len(soft[x]) + 1 /\ Len(Held(x)) \in Nat
      /\ Held(x)[Len(Held(x))] = r
  BY <1>1, <1>2, HeldType
<1>5. PICK s \in [1 .. Len(Held(x)) -> Nat] : Listed(x, s, Len(Held(x)), calls, n, Held(x))
  BY DEF NestInv, FramesKept
<1>6. Describes(x, r, f)
  <2>1. Describes(x, Held(x)[Len(Held(x))], f)
    BY <1>1, <1>2, <1>3, <1>4, <1>5, ListedLast
  <2> QED BY <1>4, <2>1
<1>7. to = f.prv /\ r.epc = f.pc /\ r.pie = f.ie
  BY <1>6 DEF Describes
<1>8. /\ prv' = to /\ pc' = r.epc /\ SwapSp(x, to)
      /\ regs' = [regs EXCEPT ![x] = [r EXCEPT !.ie = r.pie, !.pie = TRUE,
                                      !.pp = 0, !.pv = FALSE]]
  BY DEF Return, ReturnFromTrapHandler
<1>9. regs'[x].ie = r.pie
  BY <1>1, <1>8 DEF RegType
<1> DEFINE u == Uses(config.tsp, x, f.prv)
<1>10. (u = {} => sp' = sp) /\ \A t \in u : sp' = tsp[t]
  <2>1. f.prv \in Modes
    BY <1>3 DEF FrameType
  <2> QED BY <1>1, <1>7, <1>8, <2>1, SwapSpLemma
<1>11. (\A t \in u : tsp[t] = f.sp) /\ (u = {} => f.sp = sp)
  BY <1>1, <1>2, <1>3 DEF NestInv, Resumable
<1>12. sp' = f.sp
  BY <1>10, <1>11
<1> QED BY <1>1, <1>2, <1>3, <1>7, <1>8, <1>9, <1>12

LEMMA ReturnNest ==
  ASSUME NestInv, NEW x \in Levels, Return(x)
  PROVE  NestInv'
<1> DEFINE n == Len(calls) - 1
           f == calls[n + 1]
           u == Uses(config.tsp, x, f.prv)
<1>1. TInv /\ TypeOK /\ TrapAssertsHold
  BY DEF NestInv, TInv
<1>2. TInv'
  BY <1>1, ReturnLemma
<1>3. /\ Len(calls) = n + 1 /\ n \in Nat /\ f \in FrameType /\ f.by = x
      /\ prv' = f.prv /\ sp' = f.sp /\ SwapSp(x, f.prv)
  BY ReturnResumes
<1>4. /\ calls \in Seq(FrameType) /\ calls # <<>> /\ calls' = Front(calls)
      /\ live' = live \ {x} /\ x \in live
      /\ config' = config /\ spvp' = spvp /\ soft' = soft
      /\ regs \in [Levels -> RegType] /\ config.tsp \subseteq TspRegs
  BY <1>1, TrapAssumption DEF Return, Returns, TypeOK, ConfigType
<1>5. /\ Len(calls') = n /\ calls' \in Seq(FrameType)
      /\ \A i \in 1 .. n : calls'[i] = calls[i] /\ calls[i] \in FrameType
  <2>1. /\ calls' \in Seq(FrameType) /\ Len(calls') = Len(calls) - 1
        /\ \A i \in 1 .. Len(calls) - 1 : calls'[i] = calls[i]
    BY <1>4, FrontLast
  <2>2. \A i \in 1 .. n : i \in 1 .. Len(calls)
    BY <1>3
  <2> QED BY <1>3, <1>4, <2>1, <2>2
<1>6. \A y \in Levels \ {x} : regs'[y] = regs[y]
  BY <1>4 DEF Return, ReturnFromTrapHandler
<1>7. /\ u = {} => sp' = sp
      /\ \A t \in u : sp' = tsp[t]
      /\ \A t \in TspRegs : tsp'[t] = IF t \in u THEN sp ELSE tsp[t]
  <2>1. f.prv \in Modes
    BY <1>3 DEF FrameType
  <2> QED BY <1>1, <1>3, <2>1, SwapSpLemma
<1> HIDE DEF n, f, u
<1>8. \A i \in 1 .. n : i \in 1 .. n + 1 /\ i < n + 1 /\ i # n + 1
  BY <1>3
<1>9. n + 1 \in 1 .. n + 1
  BY <1>3
<1>10. \A i \in 1 .. n : f.prv \in Upper(calls[i].by)
  BY <1>3, <1>8, <1>9 DEF NestInv, Rising, f
<1>11. Rising'
  <2>1. \A i \in 1 .. n : prv' \in Upper(calls'[i].by)
    BY <1>3, <1>5, <1>10
  <2>2. ASSUME NEW i \in 1 .. n, NEW j \in 1 .. n, i < j
        PROVE  calls'[j].prv \in Upper(calls'[i].by)
    BY <1>3, <1>5, <1>8, <2>2 DEF NestInv, Rising
  <2> QED BY <1>5, <2>1, <2>2 DEF Rising
<1>12. Handling'
  <2>1. SUFFICES ASSUME config.tsp # {}, NEW i \in 1 .. n
                 PROVE  calls'[i].by = IF i = n THEN prv' ELSE calls'[i + 1].prv
    BY <1>4, <1>5 DEF Handling
  <2>2. calls[i].by = calls[i + 1].prv
    BY <1>3, <1>8, <2>1 DEF NestInv, Handling
  <2>3. i # n => i + 1 \in 1 .. n
    BY <1>3
  <2>4. i = n => calls[i + 1] = f
    BY DEF f
  <2> QED BY <1>3, <1>5, <2>2, <2>3, <2>4
<1>13. \A i \in 1 .. n : Uses(config.tsp, calls[i].by, calls[i].prv) \intersect u = {}
  <2>1. DOMAIN calls = 1 .. n + 1
    BY <1>3, <1>4
  <2>2. x = S => f.prv # M
    BY <1>1, <1>3, <1>9, <2>1 DEF TrapAssertsHold, f
  <2>3. x = VS => V(f.prv)
    BY <1>1, <1>3, <1>9, <2>1 DEF TrapAssertsHold, f
  <2>4. \A i \in 1 .. n : calls[i].by \in Levels
    BY <1>5 DEF FrameType
  <2> QED BY <1>10, <2>2, <2>3, <2>4, UsesApart DEF u
<1>14. Resumable'
  <2> DEFINE w(i) == Uses(config.tsp, calls[i].by, calls[i].prv)
  <2>1. ASSUME NEW i \in 1 .. n
        PROVE  /\ \A t \in w(i) : tsp'[t] = calls'[i].sp
               /\ w(i) = {} => calls'[i].sp = IF i = n THEN sp' ELSE calls'[i + 1].sp
    <3>1. /\ \A t \in w(i) : tsp[t] = calls[i].sp
          /\ w(i) = {} => calls[i].sp = calls[i + 1].sp
      BY <1>3, <1>8 DEF NestInv, Resumable
    <3>2. \A t \in w(i) : t \in TspRegs /\ t \notin u
      BY <1>4, <1>13 DEF Uses
    <3>3. i # n => i + 1 \in 1 .. n
      BY <1>3
    <3>4. i = n => calls[i + 1].sp = sp'
      BY <1>3 DEF f
    <3>5. calls'[i].sp = calls[i].sp /\ (i # n => calls'[i + 1].sp = calls[i + 1].sp)
      BY <1>5, <3>3
    <3> QED BY <1>7, <3>1, <3>2, <3>4, <3>5
  <2> QED BY <1>4, <1>5, <2>1 DEF Resumable
<1>15. OwnStacks'
  <2>1. SUFFICES ASSUME config.tsp = TspRegs PROVE OwnStacks'
    BY <1>4 DEF OwnStacks
  <2>2. /\ sp = prv
        /\ \A i \in 1 .. n + 1 : calls[i].sp = calls[i].prv
        /\ \A t \in TspRegs :
             (\A i \in 1 .. n + 1 : t \notin Uses(TspRegs, calls[i].by, calls[i].prv))
               => tsp[t] = BootStacks[t]
    BY <1>3, <2>1 DEF NestInv, OwnStacks
  <2>3. sp' = prv'
    BY <1>3, <1>9, <2>2 DEF f
  <2>4. \A i \in 1 .. n : calls'[i].sp = calls'[i].prv
    BY <1>5, <1>8, <2>2
  <2>5. ASSUME NEW t \in TspRegs,
               \A i \in 1 .. n : t \notin Uses(TspRegs, calls'[i].by, calls'[i].prv)
        PROVE  tsp'[t] = BootStacks[t]
    <3>1. CASE t \in u
      <4>1. BootStacks[t] = x
        <5>1. f.prv \in Modes
          BY <1>3 DEF FrameType
        <5> QED BY <1>4, <3>1, <5>1, UsesOwn DEF u
      <4>2. TspRegs # {}
        BY DEF TspRegs
      <4>3. x = prv
        BY <1>3, <1>9, <2>1, <4>2 DEF NestInv, Handling, f
      <4> QED BY <1>7, <2>2, <3>1, <4>1, <4>3
    <3>2. CASE t \notin u
      <4>1. ASSUME NEW i \in 1 .. n + 1
            PROVE  t \notin Uses(TspRegs, calls[i].by, calls[i].prv)
        <5>1. i \in 1 .. n \/ i = n + 1
          BY <1>3
        <5>2. CASE i = n + 1
          BY <1>3, <2>1, <3>2, <5>2 DEF u, f
        <5>3. CASE i \in 1 .. n
          BY <1>5, <2>5, <5>3
        <5> QED BY <5>1, <5>2, <5>3
      <4> QED BY <1>7, <2>2, <3>2, <4>1
    <3> QED BY <3>1, <3>2
  <2> QED BY <1>5, <2>3, <2>4, <2>5 DEF OwnStacks
<1>16. LiveMasked'
  <2>1. \A y \in live : y \in Levels /\ ~ regs[y].ie
    BY <1>1 DEF NestInv, LiveMasked, TypeOK
  <2> QED BY <1>4, <1>6, <2>1 DEF LiveMasked
<1>17. FramesKept'
  <2>1. SUFFICES ASSUME NEW y \in Levels
                 PROVE  \E s \in [1 .. Len(Held(y)') -> Nat] :
                          Listed(y, s, Len(Held(y)'), calls', Len(calls'), Held(y)')
    BY DEF FramesKept
  <2> DEFINE m == Len(Held(y))
  <2>2. PICK s \in [1 .. m -> Nat] : Listed(y, s, m, calls, n + 1, Held(y))
    BY <1>3 DEF NestInv, FramesKept
  <2>3. m \in Nat
    BY <1>1, HeldType
  <2>4. CASE y # x
    <3>1. Held(y)' = Held(y)
      BY <1>4, <1>6, <2>4 DEF Held
    <3>2. \A i \in 1 .. n : calls'[i] = calls[i]
      BY <1>5
    <3>3. calls[n + 1].by # y
      BY <1>3, <2>4 DEF f
    <3>4. Listed(y, s, m, calls', n, Held(y))
      BY <1>3, <2>2, <2>3, <3>2, <3>3, ListedOtherLess
    <3> QED BY <1>5, <3>1, <3>4
  <2>5. CASE y = x
    <3> DEFINE k == Len(soft[x])
    <3>1. /\ m = k + 1 /\ k \in Nat /\ \A i \in 1 .. k : soft[x][i] = Held(x)[i]
      BY <1>1, <1>4, <2>5, HeldType
    <3>2. Held(y)' = soft[x]
      BY <1>4, <2>5 DEF Held
    <3>3. \A i \in 1 .. n : calls'[i] = calls[i]
      BY <1>5
    <3>4. calls[n + 1].by = x
      BY <1>3 DEF f
    <3> HIDE DEF k, m
    <3>5. s \in [1 .. k + 1 -> Nat] /\ Listed(x, s, k + 1, calls, n + 1, Held(x))
      BY <2>2, <2>5, <3>1
    <3>6. \E z \in [1 .. k -> Nat] : Listed(x, z, k, calls', n, soft[x])
      <4>1. n \in Nat /\ k \in Nat
        BY <1>3, <3>1
      <4>2. \A i \in 1 .. k : soft[x][i] = Held(x)[i]
        BY <3>1
      <4>3. PICK z \in [1 .. k -> Nat] : Listed(x, z, k, calls', n, Held(x))
        BY <3>3, <3>4, <3>5, <4>1, ListedLess
      <4> QED BY <4>1, <4>2, <4>3, ListedAs
    <3> QED BY <1>5, <2>5, <3>2, <3>6 DEF k
  <2> QED BY <2>4, <2>5
<1>18. SpvpNamesGuest'
  <2>1. DOMAIN calls' = 1 .. n /\ DOMAIN calls = 1 .. n + 1
    BY <1>3, <1>4, <1>5
  <2>2. ASSUME NEW i \in 1 .. n, calls'[i].by = S, V(calls'[i].prv)
        PROVE  spvp' = PP(calls'[i].prv)
    BY <1>4, <1>5, <1>8, <2>1, <2>2 DEF NestInv, SpvpNamesGuest
  <2> QED BY <2>1, <2>2 DEF SpvpNamesGuest
<1> QED BY <1>2, <1>11, <1>12, <1>14, <1>15, <1>16, <1>17, <1>18 DEF NestInv

\* Software schedules a program only when no handler is suspended.
LEMMA ScheduleAlone ==
  ASSUME NestInv, NEW x \in Levels, NEW to, NEW at, Schedule(x, to, at)
  PROVE  /\ \A y \in Levels : Len(soft[y]) = 0 /\ (y \in live => y = x)
         /\ \A i \in 1 .. Len(calls) : calls[i].by = x
<1>1. TypeOK /\ calls \in Seq(FrameType) /\ Len(calls) \in Nat
  BY DEF NestInv, TInv, TypeOK
<1>2. \/ Len(calls) = 0
      \/ Len(calls) = 1 /\ calls[1].by = x /\ x \in live
  BY <1>1, EmptySeq DEF Schedule, Returns, Last
<1>3. ASSUME NEW y \in Levels PROVE Len(soft[y]) = 0 /\ (y \in live => y = x)
  <2> DEFINE m == Len(Held(y))
             n == Len(calls)
  <2>1. PICK s \in [1 .. m -> Nat] : Listed(y, s, m, calls, n, Held(y))
    BY DEF NestInv, FramesKept
  <2>2. /\ m \in Nat /\ Len(soft[y]) \in Nat
        /\ y \in live => m = Len(soft[y]) + 1
        /\ y \notin live => m = Len(soft[y])
    BY <1>1, HeldType
  <2> HIDE DEF m
  <2>3. m >= 1 => n = 1 /\ y = x
    <3>1. SUFFICES ASSUME m >= 1 PROVE n = 1 /\ y = x
      OBVIOUS
    <3>2. 1 \in 1 .. m
      BY <2>2, <3>1
    <3>3. s[1] \in 1 .. n /\ calls[s[1]].by = y
      BY <2>1, <3>2 DEF Listed
    <3> QED BY <1>1, <1>2, <3>3
  <2>4. m <= 1
    <3>1. SUFFICES ASSUME m >= 2 PROVE FALSE
      BY <2>2
    <3>2. 1 \in 1 .. m /\ 2 \in 1 .. m /\ n = 1
      BY <2>2, <2>3, <3>1
    <3>3. s[1] \in 1 .. 1 /\ s[2] \in 1 .. 1 /\ s[1] < s[2]
      BY <2>1, <3>2 DEF Listed
    <3> QED BY <3>3
  <2>5. CASE y \in live
    BY <2>2, <2>3, <2>4, <2>5
  <2>6. CASE y \notin live
    <3>1. m = 0
      <4>1. m = 1 => x \in live /\ y = x
        BY <1>2, <2>3
      <4> QED BY <2>2, <2>4, <2>6, <4>1
    <3> QED BY <2>2, <2>6, <3>1
  <2> QED BY <2>5, <2>6
<1>4. \A i \in 1 .. Len(calls) : calls[i].by = x
  BY <1>1, <1>2
<1> QED BY <1>3, <1>4

LEMMA ScheduleNest ==
  ASSUME NestInv, TInv', NEW x \in Levels, NEW to \in Below(x), NEW at \in Code(to),
         Schedule(x, to, at)
  PROVE  NestInv'
<1> DEFINE r == [ie |-> FALSE, pie |-> TRUE, pp |-> PP(to),
                 pv |-> IF x = VS THEN regs[x].pv ELSE V(to), epc |-> at]
           u == Uses(config.tsp, x, to)
           f == [by |-> x, prv |-> to, pc |-> at,
                 sp |-> IF u = {} THEN sp ELSE to, ie |-> TRUE]
<1>1. TypeOK /\ regs \in [Levels -> RegType] /\ config.tsp \subseteq TspRegs
      /\ soft \in [Levels -> Seq(RegType)] /\ tsp \in [TspRegs -> Modes]
  BY TrapAssumption DEF NestInv, TInv, TypeOK, ConfigType
<1>2. /\ to \in Modes /\ to # x /\ (x = S => to # M) /\ (x = VS => V(to))
  BY DEF Below, V, Modes, Levels, M, S, VS, U, VU
<1>3. /\ config' = config /\ prv' = prv /\ sp' = sp /\ soft' = soft
      /\ calls' = <<f>> /\ live' = live \union {x}
      /\ regs' = [regs EXCEPT ![x] = r]
      /\ tsp' = [t \in TspRegs |-> IF t \in u THEN to
                                   ELSE IF BootStacks[t] = x THEN x ELSE tsp[t]]
      /\ spvp' = IF x = S /\ V(to) THEN PP(to) ELSE spvp
      /\ prv = x \/ (prv = M /\ x = S /\ config.tsp = {})
  <2>1. u = Swapped(x, to)
    BY <1>1, <1>2, SwappedUses
  <2> QED BY <2>1 DEF Schedule
<1>4. f.by = x /\ f.prv = to /\ f.pc = at /\ f.ie = TRUE
      /\ f.sp = IF u = {} THEN sp ELSE to
  OBVIOUS
<1>5. Len(calls') = 1 /\ calls'[1] = f /\ \A i \in 1 .. 1 : i = 1
  BY <1>3
<1>6. regs'[x] = r /\ \A y \in Levels \ {x} : regs'[y] = regs[y]
  BY <1>1, <1>3
<1>7. u \subseteq TspRegs
  BY <1>1 DEF Uses
<1> HIDE DEF r, f, u
<1>8. Rising'
  <2>1. prv' \in Upper(x)
    BY <1>3 DEF Upper, Levels
  <2> QED BY <1>4, <1>5, <2>1 DEF Rising
<1>9. Handling'
  BY <1>3, <1>4, <1>5 DEF Handling
<1>10. Resumable'
  <2>1. /\ \A t \in u : tsp'[t] = f.sp
        /\ u = {} => f.sp = sp'
    BY <1>3, <1>4, <1>7
  <2>2. Uses(config'.tsp, calls'[1].by, calls'[1].prv) = u
    BY <1>3, <1>4, <1>5 DEF u
  <2> QED BY <1>5, <2>1, <2>2 DEF Resumable
<1>11. OwnStacks'
  <2>1. SUFFICES ASSUME config.tsp = TspRegs PROVE OwnStacks'
    BY <1>3 DEF OwnStacks
  <2>2. sp' = prv'
    BY <1>3, <2>1 DEF NestInv, OwnStacks
  <2>3. u = Uses(TspRegs, x, to) /\ u # {}
    BY <1>2, <2>1, UsesAll DEF u
  <2>4. calls'[1].sp = calls'[1].prv
    BY <1>4, <1>5, <2>3
  <2>5. ASSUME NEW t \in TspRegs, t \notin u PROVE tsp'[t] = BootStacks[t]
    <3>1. CASE BootStacks[t] = x
      BY <1>3, <2>5, <3>1
    <3>2. CASE BootStacks[t] # x
      <4>1. ASSUME NEW i \in 1 .. Len(calls), t \in Uses(TspRegs, calls[i].by, calls[i].prv)
            PROVE  FALSE
        <5>1. calls[i].by = x
          BY ScheduleAlone
        <5>2. calls[i].prv \in Modes
          <6>1. calls \in Seq(FrameType)
            BY <1>1 DEF TypeOK
          <6>2. calls[i] \in FrameType
            BY <6>1
          <6> QED BY <6>2 DEF FrameType
        <5> QED BY <3>2, <4>1, <5>1, <5>2, UsesOwn
      <4>2. tsp[t] = BootStacks[t]
        BY <2>1, <4>1 DEF NestInv, OwnStacks
      <4> QED BY <1>3, <2>5, <3>2, <4>2
    <3> QED BY <3>1, <3>2
  <2>6. Uses(TspRegs, calls'[1].by, calls'[1].prv) = u
    BY <1>4, <1>5, <2>3
  <2> QED BY <1>5, <2>2, <2>4, <2>5, <2>6 DEF OwnStacks
<1>12. LiveMasked'
  <2>1. ~ r.ie
    BY DEF r
  <2>2. \A y \in live : y \in Levels /\ ~ regs[y].ie
    BY <1>1 DEF NestInv, LiveMasked, TypeOK
  <2> QED BY <1>3, <1>6, <2>1, <2>2 DEF LiveMasked
<1>13. Describes(x, r, f)
  <2>1. VPPToPrivilegeLevel(IF x = VS THEN TRUE ELSE r.pv, r.pp) = to
    <3>1. r.pp = PP(to) /\ (x # VS => r.pv = V(to))
      BY DEF r
    <3>2. VPPToPrivilegeLevel(V(to), PP(to)) = to /\ V(to) \in BOOLEAN
      BY <1>2, ModeInverse, ModeLemma
    <3>3. x = VS => V(to) = TRUE
      BY <1>2, <3>2
    <3> QED BY <3>1, <3>2, <3>3
  <2>2. r.epc = at /\ r.pie = TRUE
    BY DEF r
  <2> QED BY <1>4, <2>1, <2>2 DEF Describes
<1>14. FramesKept'
  <2>1. SUFFICES ASSUME NEW y \in Levels
                 PROVE  \E s \in [1 .. Len(Held(y)') -> Nat] :
                          Listed(y, s, Len(Held(y)'), calls', Len(calls'), Held(y)')
    BY DEF FramesKept
  <2>2. Len(soft[y]) = 0 /\ (y \in live => y = x) /\ soft[y] \in Seq(RegType)
    BY <1>1, ScheduleAlone
  <2>3. CASE y # x
    <3>1. Held(y)' = soft[y]
      BY <1>3, <2>2, <2>3 DEF Held
    <3>2. Listed(y, [k \in 1 .. 0 |-> 0], 0, calls', 1, soft[y])
      BY <1>4, <1>5, <2>3 DEF Listed
    <3>3. [k \in 1 .. 0 |-> 0] \in [1 .. 0 -> Nat]
      OBVIOUS
    <3> QED BY <1>5, <2>2, <3>1, <3>2, <3>3
  <2>4. CASE y = x
    <3>1. Held(y)' = Append(soft[y], r)
      BY <1>3, <1>6, <2>4 DEF Held
    <3> DEFINE h == Append(soft[y], r)
               z == [k \in 1 .. 1 |-> 1]
    <3>2. Len(h) = 1 /\ h[1] = r
      BY <2>2
    <3>3. z \in [1 .. 1 -> Nat] /\ z[1] = 1
      OBVIOUS
    <3> HIDE DEF h, z
    <3>4. Listed(y, z, 1, calls', 1, h)
      <4>1. \A k \in 1 .. 1 : z[k] \in 1 .. 1 /\ calls'[z[k]].by = y
                               /\ Describes(y, h[k], calls'[z[k]])
        BY <1>4, <1>5, <1>13, <2>4, <3>2, <3>3
      <4>2. \A k, l \in 1 .. 1 : ~ (k < l)
        OBVIOUS
      <4>3. \A i \in 1 .. 1 : \E k \in 1 .. 1 : z[k] = i
        BY <3>3
      <4> QED BY <4>1, <4>2, <4>3 DEF Listed
    <3> QED BY <1>5, <3>1, <3>2, <3>3, <3>4 DEF h
  <2> QED BY <2>3, <2>4
<1>15. SpvpNamesGuest'
  <2>1. DOMAIN calls' = 1 .. 1
    BY <1>3
  <2> QED BY <1>3, <1>4, <1>5, <2>1 DEF SpvpNamesGuest
<1> QED BY <1>8, <1>9, <1>10, <1>11, <1>12, <1>14, <1>15 DEF NestInv

\* A step that enters and leaves no handler, and keeps the frames.
LEMMA QuietNest ==
  ASSUME NestInv, TInv', UNCHANGED <<config, prv, spvp, sp, tsp, calls>>,
         LiveMasked', FramesKept'
  PROVE  NestInv'
BY DEF NestInv, Rising, Handling, Resumable, OwnStacks, SpvpNamesGuest

LEMMA SilentNest ==
  ASSUME NestInv, TInv', UNCHANGED <<config, prv, spvp, sp, tsp, calls, live, soft, regs>>
  PROVE  NestInv'
<1>1. LiveMasked'
  BY DEF NestInv, LiveMasked
<1>2. FramesKept'
  <2>1. \A x \in Levels : Held(x)' = Held(x)
    BY DEF Held
  <2> QED BY <2>1 DEF NestInv, FramesKept
<1> QED BY <1>1, <1>2, QuietNest

LEMMA SetIeNest ==
  ASSUME NestInv, TInv', NEW enable \in BOOLEAN, SetIe(enable)
  PROVE  NestInv'
<1>1. /\ prv \notin live /\ live \subseteq Levels /\ regs \in [Levels -> RegType]
      /\ UNCHANGED <<config, prv, spvp, sp, tsp, calls, live, soft>>
      /\ \A x \in Levels \ {prv} : regs'[x] = regs[x]
  BY DEF SetIe, software, NestInv, TInv, TypeOK
<1>2. LiveMasked'
  BY <1>1 DEF NestInv, LiveMasked
<1>3. FramesKept'
  <2>1. \A x \in Levels : Held(x)' = Held(x)
    BY <1>1 DEF Held
  <2> QED BY <1>1, <2>1 DEF NestInv, FramesKept
<1> QED BY <1>1, <1>2, <1>3, QuietNest

LEMMA SaveFrameNest ==
  ASSUME NestInv, TInv', SaveFrame
  PROVE  NestInv'
<1>1. /\ prv \in live /\ live' = live \ {prv} /\ live \subseteq Levels
      /\ soft' = [soft EXCEPT ![prv] = Append(@, regs[prv])]
      /\ soft \in [Levels -> Seq(RegType)]
      /\ UNCHANGED <<config, prv, spvp, sp, tsp, calls, regs>>
  BY DEF SaveFrame, NestInv, TInv, TypeOK
<1>2. LiveMasked'
  BY <1>1 DEF NestInv, LiveMasked
<1>3. FramesKept'
  <2>1. \A x \in Levels : Held(x)' = Held(x)
    BY <1>1 DEF Held
  <2> QED BY <1>1, <2>1 DEF NestInv, FramesKept
<1> QED BY <1>1, <1>2, <1>3, QuietNest

LEMMA RestoreFrameNest ==
  ASSUME NestInv, TInv', RestoreFrame
  PROVE  NestInv'
<1> DEFINE o == soft[prv]
           r == [Last(o) EXCEPT !.ie = FALSE]
<1>1. /\ prv \in Levels /\ prv \notin live /\ live' = live \union {prv} /\ live \subseteq Levels
      /\ soft' = [soft EXCEPT ![prv] = Front(@)] /\ regs' = [regs EXCEPT ![prv] = r]
      /\ soft \in [Levels -> Seq(RegType)] /\ o # <<>> /\ regs \in [Levels -> RegType]
      /\ UNCHANGED <<config, prv, spvp, sp, tsp, calls>>
  BY DEF RestoreFrame, NestInv, TInv, TypeOK
<1>2. /\ regs'[prv] = r /\ soft'[prv] = Front(o)
      /\ \A x \in Levels \ {prv} : regs'[x] = regs[x] /\ soft'[x] = soft[x]
  BY <1>1
<1>3. /\ o \in Seq(RegType) /\ Len(o) \in Nat /\ Len(o) >= 1
      /\ Front(o) \in Seq(RegType) /\ Len(Front(o)) = Len(o) - 1
      /\ \A k \in 1 .. Len(o) - 1 : Front(o)[k] = o[k]
      /\ Last(o) = o[Len(o)] /\ Last(o) \in RegType
  <2>1. o \in Seq(RegType)
    BY <1>1
  <2> QED BY <1>1, <2>1, FrontLast, EmptySeq DEF Last
<1>4. /\ ~ r.ie /\ r.epc = o[Len(o)].epc /\ r.pie = o[Len(o)].pie
      /\ r.pp = o[Len(o)].pp /\ r.pv = o[Len(o)].pv
  BY <1>3 DEF RegType
<1>5. LiveMasked'
  BY <1>1, <1>2, <1>4 DEF NestInv, LiveMasked
<1> HIDE DEF r, o
<1>6. FramesKept'
  <2>1. SUFFICES ASSUME NEW x \in Levels
                 PROVE  \E s \in [1 .. Len(Held(x)') -> Nat] :
                          Listed(x, s, Len(Held(x)'), calls', Len(calls'), Held(x)')
    BY DEF FramesKept
  <2>2. PICK s \in [1 .. Len(Held(x)) -> Nat] :
          Listed(x, s, Len(Held(x)), calls, Len(calls), Held(x))
    BY DEF NestInv, FramesKept
  <2>3. CASE x # prv
    <3>1. Held(x)' = Held(x)
      BY <1>1, <1>2, <2>3 DEF Held
    <3> QED BY <1>1, <2>2, <3>1
  <2>4. CASE x = prv
    <3> DEFINE h == Append(Front(o), r)
               m == Len(o)
    <3>1. Held(x) = o /\ Held(x)' = h
      BY <1>1, <1>2, <2>4 DEF Held, o
    <3>2. Len(h) = m /\ h[m] = r /\ \A k \in 1 .. m - 1 : h[k] = o[k]
      BY <1>3
    <3>3. m \in Nat /\ Len(calls) \in Nat
      BY <1>3 DEF NestInv, TInv, TypeOK
    <3> HIDE DEF h, m
    <3>4. ASSUME NEW k \in 1 .. m, NEW f, Describes(x, o[k], f) PROVE Describes(x, h[k], f)
      <4>1. CASE k = m
        BY <1>4, <3>2, <3>4, <4>1 DEF Describes, m
      <4>2. CASE k # m
        <5>1. k \in 1 .. m - 1
          BY <3>3, <4>2
        <5> QED BY <3>2, <3>4, <5>1
      <4> QED BY <4>1, <4>2
    <3>5. s \in [1 .. m -> Nat] /\ Listed(x, s, m, calls, Len(calls), o)
      BY <2>2, <3>1 DEF m
    <3>6. Listed(x, s, m, calls, Len(calls), h)
      BY <3>3, <3>4, <3>5, ListedAs
    <3> QED BY <1>1, <3>1, <3>2, <3>5, <3>6
  <2> QED BY <2>3, <2>4
<1> QED BY <1>1, <1>5, <1>6, QuietNest

LEMMA InitNest == ASSUME Init PROVE NestInv
<1>1. TInv
  BY InitTInv
<1>2. /\ calls = <<>> /\ Len(calls) = 0 /\ live = {} /\ soft = [x \in Levels |-> <<>>]
      /\ sp = M /\ prv = M /\ tsp = BootStacks
  BY DEF Init
<1>3. Rising /\ Handling /\ Resumable /\ LiveMasked /\ SpvpNamesGuest
  BY <1>2 DEF Rising, Handling, Resumable, LiveMasked, SpvpNamesGuest
<1>4. OwnStacks
  BY <1>2 DEF OwnStacks
<1>5. FramesKept
  <2>1. SUFFICES ASSUME NEW x \in Levels
                 PROVE  \E s \in [1 .. Len(Held(x)) -> Nat] :
                          Listed(x, s, Len(Held(x)), calls, Len(calls), Held(x))
    BY DEF FramesKept
  <2>2. Held(x) = <<>> /\ Len(Held(x)) = 0
    BY <1>2 DEF Held
  <2>3. [k \in 1 .. 0 |-> 0] \in [1 .. 0 -> Nat]
    OBVIOUS
  <2>4. Listed(x, [k \in 1 .. 0 |-> 0], 0, calls, 0, Held(x))
    BY DEF Listed
  <2> QED BY <1>2, <2>2, <2>3, <2>4
<1> QED BY <1>1, <1>3, <1>4, <1>5 DEF NestInv

\* An interrupt is not taken by a level whose registers are in use.
LEMMA InterruptNest ==
  ASSUME NestInv, NEW pending \in SUBSET Levels, Interrupt(pending)
  PROVE  NestInv'
<1> DEFINE t == ComputePendingInterrupt(pending)
<1>1. TypeOK /\ pc \in Pcs /\ last_pc \in Pcs
  BY DEF NestInv, TInv, TypeOK
<1>2. t \in Levels /\ (t = S => prv # M) /\ (t = VS => V(prv))
  BY <1>1, PendingLemma DEF Interrupt
<1>3. GloballyEnabled(t)
  BY DEF Interrupt, ComputePendingInterrupt, NoMode
<1> HIDE DEF t
<1>4. t \notin live
  <2>1. SUFFICES ASSUME t \in live PROVE FALSE
    OBVIOUS
  <2>2. prv \in Upper(t) /\ ~regs[t].ie
    BY <2>1, LiveBelow
  <2> QED BY <1>2, <1>3, <2>2 DEF GloballyEnabled, Upper, V, Levels, M, S, VS, U, VU
<1>5. Len(calls) < MAX_CALLS /\ SwitchToTrapHandler(t, pc, last_pc)
  BY DEF Interrupt, t
<1> QED BY <1>1, <1>2, <1>4, <1>5, SwitchNest

LEMMA ExceptionNest ==
  ASSUME NestInv, NEW cause \in Causes, TakeException(cause)
  PROVE  NestInv'
<1> DEFINE t == PrepareTrap(cause)
<1>1. TypeOK /\ last_pc \in Pcs
  BY DEF NestInv, TInv, TypeOK
<1>2. t \in Levels /\ (t = S => prv # M) /\ (t = VS => V(prv))
  BY <1>1, PrepareTrapLemma
<1>3. /\ Len(calls) < MAX_CALLS /\ t \notin live
      /\ SwitchToTrapHandler(t, last_pc, last_pc)
  BY DEF TakeException
<1> HIDE DEF t
<1> QED BY <1>1, <1>2, <1>3, SwitchNest

LEMMA NextNest == NestInv /\ [Next]_vars => NestInv'
<1> SUFFICES ASSUME NestInv, [Next]_vars PROVE NestInv'
  OBVIOUS
<1>0. TInv'
  BY NextTInv DEF NestInv
<1>1. CASE Run \/ FetchVector \/ SetMprv \/ NoInterrupt \/ UNCHANGED vars
  BY <1>0, <1>1, SilentNest DEF Run, FetchVector, SetMprv, NoInterrupt, software, vars
<1>2. CASE \E c \in Causes : Exception(c) \/ FetchFaults(c) \/ SretTraps(c)
  BY <1>2, ExceptionNest DEF Exception, FetchFaults, SretTraps
<1>3. CASE Mret \/ Sret
  BY <1>3, ReturnNest DEF Mret, Sret, Levels
<1>4. CASE \E enable \in BOOLEAN : SetIe(enable)
  BY <1>0, <1>4, SetIeNest
<1>5. CASE SaveFrame
  BY <1>0, <1>5, SaveFrameNest
<1>6. CASE RestoreFrame
  BY <1>0, <1>6, RestoreFrameNest
<1>7. CASE \E x \in Levels : \E to \in Below(x) : \E at \in Code(to) : Schedule(x, to, at)
  BY <1>0, <1>7, ScheduleNest
<1>8. CASE \E pending \in SUBSET Levels : Interrupt(pending)
  BY <1>8, InterruptNest
<1> QED BY <1>1, <1>2, <1>3, <1>4, <1>5, <1>6, <1>7, <1>8 DEF Next

LEMMA NestInvHolds == Spec => []NestInv
<1>1. Init => NestInv
  BY InitNest
<1> QED BY <1>1, NextNest, PTL DEF Spec

-----------------------------------------------------------------------------
\* With all swaps on each mode runs on its own stack: the registers not in use
\* hold the stacks of their levels, and no register is in use twice.
THEOREM AlwaysOwnStack == Spec => []OwnStack
<1>1. NestInv => OwnStack
  BY DEF NestInv, OwnStacks, OwnStack
<1> QED BY <1>1, NestInvHolds, PTL

\* spvp names the guest whose trap is handled: no second guest trap can reach
\* the hypervisor before it has returned to the guest.
THEOREM SpvpAlwaysNamesGuest == Spec => []SpvpNamesGuest
<1>1. NestInv => SpvpNamesGuest
  BY DEF NestInv
<1> QED BY <1>1, NestInvHolds, PTL

\* A step that takes a frame off is an xRET.
LEMMA LeavesByReturn ==
  ASSUME NestInv, [Next]_vars, Len(calls') < Len(calls)
  PROVE  \E x \in Levels : Return(x)
<1>1. calls \in Seq(FrameType) /\ Len(calls) \in Nat
  BY DEF NestInv, TInv, TypeOK
<1>2. CASE Run \/ FetchVector \/ SetMprv \/ NoInterrupt \/ UNCHANGED vars
           \/ SaveFrame \/ RestoreFrame \/ \E enable \in BOOLEAN : SetIe(enable)
  <2>1. calls' = calls
    BY <1>2 DEF Run, FetchVector, SetMprv, NoInterrupt, SaveFrame, RestoreFrame,
       SetIe, software, vars
  <2> QED BY <1>1, <2>1
<1>3. ASSUME NEW t, NEW at, NEW last, SwitchToTrapHandler(t, at, last) PROVE FALSE
  <2>1. PICK f : calls' = Append(calls, f)
    BY <1>3 DEF SwitchToTrapHandler
  <2>2. Len(calls') = Len(calls) + 1
    BY <1>1, <2>1
  <2> QED BY <1>1, <2>2
<1>4. CASE \/ \E c \in Causes : Exception(c) \/ FetchFaults(c) \/ SretTraps(c)
           \/ \E pending \in SUBSET Levels : Interrupt(pending)
  BY <1>3, <1>4 DEF Exception, FetchFaults, SretTraps, TakeException, Interrupt
<1>5. CASE \E x \in Levels : \E to \in Below(x) : \E at \in Code(to) : Schedule(x, to, at)
  <2>1. Len(calls') = 1 /\ (calls = <<>> \/ Len(calls) = 1)
    BY <1>5 DEF Schedule
  <2>2. Len(calls) = 0 \/ Len(calls) = 1
    BY <1>1, <2>1, EmptySeq
  <2>3. Len(calls') = 1
    BY <2>1
  <2>4. \A b \in {0, 1} : ~ (1 < b)
    OBVIOUS
  <2> QED BY <2>2, <2>3, <2>4
<1>6. CASE Mret \/ Sret
  BY <1>6 DEF Mret, Sret, Levels
<1> QED BY <1>2, <1>4, <1>5, <1>6 DEF Next

\* However handlers nest, MRET and SRET resume what was interrupted: its mode,
\* its pc, its stack pointer and the interrupt enable of the level left.
THEOREM AlwaysReturnsToCaller == Spec => ReturnsToCaller
<1> DEFINE Resumes ==
      Len(calls') < Len(calls) =>
        LET f == Last(calls)
        IN <<prv', pc', sp', regs'[f.by].ie>> = <<f.prv, f.pc, f.sp, f.ie>>
<1>1. ASSUME NestInv, [Next]_vars PROVE Resumes
  <2>1. SUFFICES ASSUME Len(calls') < Len(calls)
                 PROVE  LET f == Last(calls)
                        IN <<prv', pc', sp', regs'[f.by].ie>> = <<f.prv, f.pc, f.sp, f.ie>>
    OBVIOUS
  <2>2. PICK x \in Levels : Return(x)
    BY <1>1, <2>1, LeavesByReturn
  <2> DEFINE f == calls[Len(calls)]
  <2>3. f.by = x /\ prv' = f.prv /\ pc' = f.pc /\ sp' = f.sp /\ regs'[x].ie = f.ie
    BY <1>1, <2>2, ReturnResumes
  <2>4. Last(calls) = f
    BY DEF Last
  <2> QED BY <2>3, <2>4
<1>2. NestInv /\ [Next]_vars => [Resumes]_vars
  BY <1>1
<1> QED BY <1>2, NestInvHolds, PTL DEF Spec, ReturnsToCaller

=============================================================================
