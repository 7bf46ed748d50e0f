---------------------------- MODULE BusLockProofs ----------------------------
(***************************************************************************)
(* Proofs about BusLock, for any number of harts and addresses, any window *)
(* and quantum, with and without a debugger.                               *)
(*                                                                         *)
(* The inductive invariant adds to the properties that one thread runs at  *)
(* a time and that the owner's reservation is intact at whatever address   *)
(* it was made.                                                            *)
(***************************************************************************)
EXTENDS BusLock, TLAPS

OneRuns ==
  \A g, h \in Harts : state[g] = "running" /\ state[h] = "running" => g = h

OwnerIntact == \A h \in Harts : owner = h => ~ overwritten[h]

Inv ==
  /\ TypeOK
  /\ OneRuns
  /\ SleepersHoldNoLock
  /\ OwnerIntact
  /\ NobodyWaits

-----------------------------------------------------------------------------
\* What the end of an instruction leaves, when the instruction left the lock
\* with its hart only if the counter runs.
LEMMA UpdateLemma ==
  ASSUME Inv, NEW h \in Harts, state[h] = "running",
         NEW own \in {owner, Free, h}, NEW cnt \in 0 .. WINDOW,
         NEW had \in BOOLEAN, own = h => cnt # 0, UNCHANGED debug,
         PerformanceAndSyncUpdate(h, own, cnt, had)
  PROVE  /\ owner' \in {own, Free}
         /\ event' \in BOOLEAN
         /\ state' \in [Harts -> ThreadStates]
         /\ counter' \in [Harts -> 0 .. WINDOW]
         /\ elapsed' \in [Harts -> 0 .. QUANTUM]
         /\ OneRuns' /\ SleepersHoldNoLock' /\ NobodyWaits'
<1> USE BusAssumption
<1> DEFINE left == IF cnt = 0 THEN 0 ELSE cnt - 1
           sync == elapsed[h] + 1 >= QUANTUM /\ left = 0
<1>1. /\ counter' = [counter EXCEPT ![h] = left]
      /\ owner' = IF cnt = 1 THEN Released(own, h) ELSE own
      /\ event' = (event \/ (had /\ owner' = Free))
      /\ elapsed' = [elapsed EXCEPT ![h] =
                       IF sync THEN 0
                       ELSE IF @ < QUANTUM THEN @ + 1 ELSE @]
      /\ state' = [state EXCEPT ![h] = IF sync THEN "synced" ELSE @]
  BY DEF PerformanceAndSyncUpdate
<1>2. left \in 0 .. WINDOW
  OBVIOUS
<1>3. owner' \in {own, Free}
  BY <1>1 DEF Released
<1>4. event' \in BOOLEAN
  BY <1>1 DEF Inv, TypeOK
<1>5. state' \in [Harts -> ThreadStates]
  BY <1>1 DEF Inv, TypeOK, ThreadStates
<1>6. counter' \in [Harts -> 0 .. WINDOW]
  BY <1>1, <1>2 DEF Inv, TypeOK
<1>7. elapsed' \in [Harts -> 0 .. QUANTUM]
  BY <1>1 DEF Inv, TypeOK
<1>8. OneRuns'
  BY <1>1 DEF Inv, TypeOK, OneRuns
<1>9. SleepersHoldNoLock'
  <2> SUFFICES ASSUME NEW g \in Harts, owner' = g
               PROVE  /\ state'[g] \in {"running", "ready", "stopped"}
                      /\ state'[g] # "running" => debug
                      /\ counter'[g] # 0
    BY DEF SleepersHoldNoLock
  <2>1. CASE g = h
    <3>1. own = h /\ cnt # 0 /\ cnt # 1
      BY <1>1, <2>1 DEF Released
    <3>2. left # 0
      BY <3>1
    <3> QED
      BY <1>1, <3>2, <2>1 DEF Inv, TypeOK
  <2>2. CASE g # h
    <3>1. owner = g
      BY <1>3, <2>2
    <3> QED
      BY <1>1, <2>2, <3>1 DEF Inv, TypeOK, SleepersHoldNoLock
  <2> QED
    BY <2>1, <2>2
<1>10. NobodyWaits'
  BY <1>1 DEF Inv, TypeOK, NobodyWaits
<1> QED
  BY <1>3, <1>4, <1>5, <1>6, <1>7, <1>8, <1>9, <1>10

\* The same with an interrupt taken after the instruction.
LEMMA FinishLemma ==
  ASSUME Inv, NEW h \in Harts, state[h] = "running",
         NEW own \in {owner, Free, h}, NEW cnt \in 0 .. WINDOW,
         NEW had \in BOOLEAN, own = h => cnt # 0, UNCHANGED debug,
         Finish(h, own, cnt, had)
  PROVE  /\ owner' \in {own, Free}
         /\ event' \in BOOLEAN
         /\ state' \in [Harts -> ThreadStates]
         /\ counter' \in [Harts -> 0 .. WINDOW]
         /\ elapsed' \in [Harts -> 0 .. QUANTUM]
         /\ OneRuns' /\ SleepersHoldNoLock' /\ NobodyWaits'
<1>1. CASE PerformanceAndSyncUpdate(h, own, cnt, had)
  BY <1>1, UpdateLemma
<1>2. CASE PerformanceAndSyncUpdate(h, Released(own, h), 0, had)
  <2>1. /\ Released(own, h) \in {owner, Free, h}
        /\ Released(own, h) \in {own, Free}
        /\ Released(own, h) # h
        /\ 0 \in 0 .. WINDOW
    BY BusAssumption DEF Released
  <2> QED
    BY <1>2, <2>1, UpdateLemma
<1> QED
  BY <1>1, <1>2 DEF Finish

\* Writes keeps its variable's type.
LEMMA WritesType ==
  ASSUME TypeOK, NEW h, NEW a, Writes(h, a)
  PROVE  overwritten' \in [Harts -> BOOLEAN]
BY DEF TypeOK, Writes

-----------------------------------------------------------------------------
\* Every instruction of a running hart preserves the invariant.
LEMMA StepInv ==
  ASSUME Inv, NEW h \in Harts, Step(h)
  PROVE  Inv'
<1> USE BusAssumption
<1>1. CASE Wait(h)
  <2>1. /\ state[h] = "running" /\ owner \notin {Free, h}
        /\ state' = [state EXCEPT ![h] = "waiting"]
        /\ UNCHANGED <<owner, event, counter, lrAddr, elapsed, overwritten, failed, debug>>
    BY <1>1 DEF Wait, Blocked
  <2>2. debug
    BY <2>1 DEF Inv, TypeOK, OneRuns, SleepersHoldNoLock
  <2> QED
    BY <2>1, <2>2 DEF Inv, TypeOK, ThreadStates, OneRuns, SleepersHoldNoLock,
                      OwnerIntact, NobodyWaits
<1>2. CASE Trap(h)
  <2>1. /\ Released(owner, h) \in {owner, Free, h}
        /\ Released(owner, h) # h
        /\ (owner = h) \in BOOLEAN
        /\ 0 \in 0 .. WINDOW
        /\ state[h] = "running"
        /\ PerformanceAndSyncUpdate(h, Released(owner, h), 0, owner = h)
        /\ UNCHANGED <<lrAddr, overwritten, failed, debug>>
    BY <1>2 DEF Trap, Released
  <2>2. /\ owner' \in {Released(owner, h), Free}
        /\ event' \in BOOLEAN
        /\ state' \in [Harts -> ThreadStates]
        /\ counter' \in [Harts -> 0 .. WINDOW]
        /\ elapsed' \in [Harts -> 0 .. QUANTUM]
        /\ OneRuns' /\ SleepersHoldNoLock' /\ NobodyWaits'
    BY <2>1, UpdateLemma
  <2> QED
    BY <2>1, <2>2 DEF Inv, TypeOK, OwnerIntact, Released
<1>3. CASE Compute(h)
  <2>1. /\ owner \in {owner, Free, h}
        /\ owner = h => counter[h] # 0
        /\ (owner = h) \in BOOLEAN
        /\ counter[h] \in 0 .. WINDOW
        /\ state[h] = "running"
        /\ Finish(h, owner, counter[h], owner = h)
        /\ UNCHANGED <<lrAddr, overwritten, failed, debug>>
    BY <1>3 DEF Compute, Inv, TypeOK, SleepersHoldNoLock
  <2>2. /\ owner' \in {owner, Free}
        /\ event' \in BOOLEAN
        /\ state' \in [Harts -> ThreadStates]
        /\ counter' \in [Harts -> 0 .. WINDOW]
        /\ elapsed' \in [Harts -> 0 .. QUANTUM]
        /\ OneRuns' /\ SleepersHoldNoLock' /\ NobodyWaits'
    BY <2>1, FinishLemma
  <2> QED
    BY <2>1, <2>2 DEF Inv, TypeOK, OwnerIntact
<1>4. CASE Wfi(h)
  BY <1>4 DEF Wfi, Released, Inv, TypeOK, ThreadStates, OneRuns,
              SleepersHoldNoLock, OwnerIntact, NobodyWaits
<1>5. ASSUME NEW walk \in Walks, Load(h, walk) PROVE Inv'
  <2> DEFINE own == IF walk THEN Released(owner, h) ELSE owner
  <2>1. /\ own \in {owner, Free, h}
        /\ own \in {owner, Free}
        /\ own = h => counter[h] # 0
        /\ (owner = h) \in BOOLEAN
        /\ counter[h] \in 0 .. WINDOW
        /\ state[h] = "running"
        /\ Finish(h, own, counter[h], owner = h)
        /\ UNCHANGED <<lrAddr, overwritten, failed, debug>>
    BY <1>5 DEF Load, Access, Released, Inv, TypeOK, SleepersHoldNoLock
  <2> HIDE DEF own
  <2>2. /\ owner' \in {own, Free}
        /\ event' \in BOOLEAN
        /\ state' \in [Harts -> ThreadStates]
        /\ counter' \in [Harts -> 0 .. WINDOW]
        /\ elapsed' \in [Harts -> 0 .. QUANTUM]
        /\ OneRuns' /\ SleepersHoldNoLock' /\ NobodyWaits'
    BY <2>1, FinishLemma
  <2> QED
    BY <2>1, <2>2 DEF Inv, TypeOK, OwnerIntact
<1>6. ASSUME NEW a \in Addrs, Store(h, a) PROVE Inv'
  <2>1. /\ Released(owner, h) = Free
        /\ (owner = h) \in BOOLEAN
        /\ counter[h] \in 0 .. WINDOW
        /\ state[h] = "running"
        /\ Finish(h, Free, counter[h], owner = h)
        /\ Writes(h, a)
        /\ UNCHANGED <<lrAddr, failed, debug>>
    BY <1>6 DEF Store, Access, Blocked, Released, Inv, TypeOK
  <2>2. /\ owner' \in {Free, Free}
        /\ event' \in BOOLEAN
        /\ state' \in [Harts -> ThreadStates]
        /\ counter' \in [Harts -> 0 .. WINDOW]
        /\ elapsed' \in [Harts -> 0 .. QUANTUM]
        /\ OneRuns' /\ SleepersHoldNoLock' /\ NobodyWaits'
    BY <2>1, FinishLemma
  <2>3. overwritten' \in [Harts -> BOOLEAN]
    BY <2>1, WritesType DEF Inv
  <2> QED
    BY <2>1, <2>2, <2>3 DEF Inv, TypeOK, OwnerIntact
<1>7. ASSUME NEW a \in Addrs, StoreConditional(h, a) PROVE Inv'
  <2>1. /\ Released(owner, h) \in {owner, Free, h}
        /\ Released(owner, h) # h
        /\ owner = h => Released(owner, h) = Free
        /\ Released(owner, h) \in {owner, Free}
        /\ (owner = h) \in BOOLEAN
        /\ 0 \in 0 .. WINDOW
        /\ state[h] = "running"
        /\ Finish(h, Released(owner, h), 0, owner = h)
        /\ UNCHANGED <<lrAddr, failed, debug>>
    BY <1>7 DEF StoreConditional, Released
  <2>2. /\ owner' \in {Released(owner, h), Free}
        /\ event' \in BOOLEAN
        /\ state' \in [Harts -> ThreadStates]
        /\ counter' \in [Harts -> 0 .. WINDOW]
        /\ elapsed' \in [Harts -> 0 .. QUANTUM]
        /\ OneRuns' /\ SleepersHoldNoLock' /\ NobodyWaits'
    BY <2>1, FinishLemma
  <2>3. CASE Succeeds(h, a)
    <3>1. owner = h /\ Writes(h, a)
      BY <1>7, <2>3 DEF StoreConditional, Succeeds
    <3>2. overwritten' \in [Harts -> BOOLEAN]
      BY <3>1, WritesType DEF Inv
    <3> QED
      BY <2>1, <2>2, <3>1, <3>2 DEF Inv, TypeOK, OwnerIntact
  <2>4. CASE ~ Succeeds(h, a)
    <3>1. UNCHANGED overwritten
      BY <1>7, <2>4 DEF StoreConditional
    <3> QED
      BY <2>1, <2>2, <3>1 DEF Inv, TypeOK, OwnerIntact
  <2> QED
    BY <2>3, <2>4
<1>8. ASSUME NEW a \in Addrs, LoadReservedTraps(h, a) PROVE Inv'
  <2>0. Free # h /\ 0 \in 0 .. WINDOW
    OBVIOUS
  <2>1. /\ state[h] = "running"
        /\ PerformanceAndSyncUpdate(h, Free, 0, TRUE)
        /\ lrAddr' = [lrAddr EXCEPT ![h] = a]
        /\ overwritten' = [overwritten EXCEPT ![h] = FALSE]
        /\ UNCHANGED <<failed, debug>>
    BY <1>8, Zenon DEF LoadReservedTraps, Access
  <2>2. /\ owner' \in {Free, Free}
        /\ event' \in BOOLEAN
        /\ state' \in [Harts -> ThreadStates]
        /\ counter' \in [Harts -> 0 .. WINDOW]
        /\ elapsed' \in [Harts -> 0 .. QUANTUM]
        /\ OneRuns' /\ SleepersHoldNoLock' /\ NobodyWaits'
    BY <2>0, <2>1, UpdateLemma
  <2> QED
    BY <2>1, <2>2 DEF Inv, TypeOK, OwnerIntact
<1>9. ASSUME NEW a \in Addrs, NEW walk \in Walks, LoadReserved(h, a, walk)
      PROVE  Inv'
  <2> DEFINE own == IF walk THEN Free ELSE h
             cnt == IF counter[h] = 0 THEN WINDOW ELSE counter[h]
  <2>0. /\ own \in {owner, Free, h}
        /\ own \in {Free, h}
        /\ cnt # 0
        /\ cnt \in 0 .. WINDOW
    BY DEF Inv, TypeOK
  <2>1. /\ state[h] = "running"
        /\ Finish(h, own, cnt, TRUE)
        /\ lrAddr' = [lrAddr EXCEPT ![h] = a]
        /\ overwritten' = [overwritten EXCEPT ![h] = FALSE]
        /\ UNCHANGED <<failed, debug>>
    BY <1>9, Zenon DEF LoadReserved, Access
  <2> HIDE DEF own, cnt
  <2>2. /\ owner' \in {own, Free}
        /\ event' \in BOOLEAN
        /\ state' \in [Harts -> ThreadStates]
        /\ counter' \in [Harts -> 0 .. WINDOW]
        /\ elapsed' \in [Harts -> 0 .. QUANTUM]
        /\ OneRuns' /\ SleepersHoldNoLock' /\ NobodyWaits'
    BY <2>0, <2>1, FinishLemma
  <2> QED
    BY <2>0, <2>1, <2>2 DEF Inv, TypeOK, OwnerIntact
<1>10. ASSUME NEW a \in Addrs, NEW walk \in Walks, Amo(h, a, walk) PROVE Inv'
  <2>1. /\ Free # h /\ TRUE \in BOOLEAN
        /\ counter[h] \in 0 .. WINDOW
        /\ state[h] = "running"
        /\ Finish(h, Free, counter[h], TRUE)
        /\ Writes(h, a)
        /\ failed' \in BOOLEAN
        /\ UNCHANGED <<lrAddr, debug>>
    BY <1>10 DEF Amo, Access, Inv, TypeOK
  <2>2. /\ owner' \in {Free, Free}
        /\ event' \in BOOLEAN
        /\ state' \in [Harts -> ThreadStates]
        /\ counter' \in [Harts -> 0 .. WINDOW]
        /\ elapsed' \in [Harts -> 0 .. QUANTUM]
        /\ OneRuns' /\ SleepersHoldNoLock' /\ NobodyWaits'
    BY <2>1, FinishLemma
  <2>3. overwritten' \in [Harts -> BOOLEAN]
    BY <2>1, WritesType DEF Inv
  <2> QED
    BY <2>1, <2>2, <2>3 DEF Inv, TypeOK, OwnerIntact
<1> QED
  BY <1>1, <1>2, <1>3, <1>4, <1>5, <1>6, <1>7, <1>8, <1>9, <1>10 DEF Step

\* So do the debugger, the kernel and the devices.
LEMMA NextInv ==
  ASSUME Inv, [Next]_vars
  PROVE  Inv'
<1> USE BusAssumption
<1>1. ASSUME NEW h \in Harts, Break(h) PROVE Inv'
  BY <1>1 DEF Break, Inv, TypeOK, ThreadStates, OneRuns, SleepersHoldNoLock,
              OwnerIntact, NobodyWaits
<1>2. ASSUME NEW h \in Harts, NEW from \in ThreadStates \ {"running"},
             Resume(h, from)
      PROVE  Inv'
  <2>1. /\ state[h] # "running"
        /\ state' = [state EXCEPT ![h] = "ready"]
        /\ UNCHANGED <<owner, event, counter, lrAddr, elapsed, overwritten, failed, debug>>
    BY <1>2 DEF Resume
  <2> QED
    BY <2>1 DEF Inv, TypeOK, ThreadStates, OneRuns, SleepersHoldNoLock,
                OwnerIntact, NobodyWaits
<1>3. ASSUME NEW h \in Harts, Kernel(h) PROVE Inv'
  <2>1. CASE Dispatch(h)
    BY <2>1 DEF Dispatch, Idle, Inv, TypeOK, ThreadStates, OneRuns,
                SleepersHoldNoLock, OwnerIntact, NobodyWaits
  <2>2. CASE Advance(h)
    BY <2>2, <1>2 DEF Advance, ThreadStates
  <2>3. CASE WakeFromWfi(h)
    BY <2>3, <1>2 DEF WakeFromWfi, ThreadStates
  <2>4. CASE Continue(h)
    BY <2>4, <1>2 DEF Continue, ThreadStates
  <2> QED
    BY <1>3, <2>1, <2>2, <2>3, <2>4 DEF Kernel
<1>4. CASE NotifyWaiting
  BY <1>4 DEF NotifyWaiting, EvaluationDone, Inv, TypeOK, ThreadStates, OneRuns,
              SleepersHoldNoLock, OwnerIntact, NobodyWaits
<1>5. ASSUME NEW a \in Addrs, DeviceWrite(a) PROVE Inv'
  <2>1. overwritten' \in [Harts -> BOOLEAN]
    BY <1>5, WritesType DEF DeviceWrite, Inv
  <2> QED
    BY <1>5, <2>1 DEF DeviceWrite, Inv, TypeOK, OneRuns, SleepersHoldNoLock,
                OwnerIntact, NobodyWaits
<1>6. CASE UNCHANGED vars
  BY <1>6 DEF vars, Inv, TypeOK, OneRuns, SleepersHoldNoLock, OwnerIntact,
              NobodyWaits
<1>7. CASE \E h \in Harts : Step(h) \/ Break(h) \/ Kernel(h)
  BY <1>7, <1>1, <1>3, StepInv
<1>8. CASE \E a \in Addrs : DeviceWrite(a)
  BY <1>8, <1>5
<1> QED
  BY <1>4, <1>6, <1>7, <1>8 DEF Next

LEMMA InitInv == Init => Inv
<1> SUFFICES ASSUME Init PROVE Inv
  OBVIOUS
<1>1. TypeOK
  <2>1. 0 \in 0 .. WINDOW /\ 0 \in 0 .. QUANTUM
    BY BusAssumption
  <2>2. counter \in [Harts -> 0 .. WINDOW] /\ elapsed \in [Harts -> 0 .. QUANTUM]
    BY <2>1 DEF Init
  <2>3. state \in [Harts -> ThreadStates]
    BY DEF Init, ThreadStates
  <2>4. overwritten \in [Harts -> BOOLEAN]
    BY DEF Init
  <2>5. lrAddr \in [Harts -> Addrs \union {NoAddr}]
    BY DEF Init
  <2>6. owner \in Harts \union {Free} /\ event \in BOOLEAN
        /\ failed \in BOOLEAN /\ debug \in BOOLEAN
    BY DEF Init
  <2> QED
    BY <2>2, <2>3, <2>4, <2>5, <2>6 DEF TypeOK
<1>2. OneRuns /\ NobodyWaits
  BY DEF Init, OneRuns, NobodyWaits
<1>3. SleepersHoldNoLock /\ OwnerIntact
  BY BusAssumption DEF Init, SleepersHoldNoLock, OwnerIntact
<1> QED
  BY <1>1, <1>2, <1>3 DEF Inv

LEMMA InvHolds == Spec => []Inv
BY InitInv, NextInv, PTL DEF Spec

-----------------------------------------------------------------------------
\* Every variable keeps its type; the counter never passes below zero or
\* above the window (assert(lr_sc_counter >= 0)).
THEOREM BusTypeCorrect == Spec => []TypeOK
<1>1. Inv => TypeOK
  BY DEF Inv
<1> QED
  BY <1>1, InvHolds, PTL

\* An SC succeeds only if nobody else wrote the reserved address since the LR.
THEOREM ScAlwaysAtomic == Spec => []ScIsAtomic
<1>1. Inv => ScIsAtomic
  BY DEF Inv, OwnerIntact, ScIsAtomic, Succeeds
<1> QED
  BY <1>1, InvHolds, PTL

\* A hart that gives up control on its own holds no lock.
THEOREM SleepersNeverHoldLock == Spec => []SleepersHoldNoLock
<1>1. Inv => SleepersHoldNoLock
  BY DEF Inv
<1> QED
  BY <1>1, InvHolds, PTL

\* Without a debugger no hart ever waits for the lock.
THEOREM NobodyEverWaits == Spec => []NobodyWaits
<1>1. Inv => NobodyWaits
  BY DEF Inv
<1> QED
  BY <1>1, InvHolds, PTL
=============================================================================
