------------------------------- MODULE BusLock -------------------------------
(***************************************************************************)
(* The bus lock that makes LR/SC and AMO instructions atomic between the   *)
(* harts and the bus masters of a platform: BusLock and                    *)
(* PeripheralWriteConnector (platform/common/bus.h), the memory accesses   *)
(* of a hart (core/rv32/mem.h) and the instructions and the instruction    *)
(* loop that use them (core/rv32/iss.cpp).                                 *)
(*                                                                         *)
(* Harts are SystemC threads: one runs at a time, until it waits.  It      *)
(* waits for the lock, for time to pass (quantum_keeper.sync), in WFI, and *)
(* when the debugger stops it.  An instruction is thus one step.  What     *)
(* program a hart runs is left open, so a hart that waited for the lock    *)
(* goes on with any access.                                                *)
(***************************************************************************)
EXTENDS Naturals

CONSTANTS
  Harts,
  Addrs,       \* the addresses the harts contend for
  Free,        \* no hart: the owner of an unlocked bus
  NoAddr,      \* lr_addr before the first LR
  WINDOW,      \* instructions an LR may keep the lock, itself included
  QUANTUM,     \* instructions after which a hart must synchronise
  Walks        \* may an access set a bit of a page table entry? \subseteq BOOLEAN

ASSUME BusAssumption ==
  /\ Free \notin Harts
  /\ NoAddr \notin Addrs
  /\ WINDOW \in Nat \ {0} /\ QUANTUM \in Nat \ {0}
  /\ Walks \subseteq BOOLEAN

VARIABLES
  owner,       \* BusLock: locked, and by whom
  event,       \* lock_event is notified for the next delta cycle
  state,       \* what the thread of each hart does
  counter,     \* lr_sc_counter
  lrAddr,      \* lr_addr
  elapsed,     \* instructions since the last synchronisation
  overwritten, \* somebody else wrote the reserved address since the LR
  failed,      \* the assertion of an AMO failed
  debug        \* debug_mode: harts may stop at breakpoints, WFI does not wait

vars == <<owner, event, state, counter, lrAddr, elapsed, overwritten, failed, debug>>

ThreadStates == {"ready", "running", "waiting", "synced", "wfi", "stopped"}

Init ==
  /\ owner = Free /\ event = FALSE
  /\ state = [h \in Harts |-> "ready"]
  /\ counter = [h \in Harts |-> 0]
  /\ lrAddr = [h \in Harts |-> NoAddr]
  /\ elapsed = [h \in Harts |-> 0]
  /\ overwritten = [h \in Harts |-> FALSE]
  /\ failed = FALSE
  /\ debug \in BOOLEAN

\* wait_for_access_rights and lock wait while another hart owns the lock.
Blocked(h) == owner \notin {Free, h}

\* unlock: the owner of the lock after hart h released what it may have.
Released(own, h) == IF own = h THEN Free ELSE own

-----------------------------------------------------------------------------
\* A write to address a by h, or by a device, ends the others' reservations.
Writes(h, a) ==
  overwritten' = [g \in Harts |-> overwritten[g] \/ (g # h /\ lrAddr[g] = a)]

\* performance_and_sync_update, at the end of each instruction.  own and cnt
\* are what the instruction left in the lock and in the counter; the hart had
\* the lock before or during it if `had'.
PerformanceAndSyncUpdate(h, own, cnt, had) ==
  LET left == IF cnt = 0 THEN 0 ELSE cnt - 1
      sync == elapsed[h] + 1 >= QUANTUM /\ left = 0
  IN  /\ counter' = [counter EXCEPT ![h] = left]
      /\ owner' = IF cnt = 1 THEN Released(own, h) ELSE own
      /\ event' = (event \/ (had /\ owner' = Free))
      /\ elapsed' = [elapsed EXCEPT ![h] =
                       IF sync THEN 0
                       ELSE IF @ < QUANTUM THEN @ + 1 ELSE @]
      /\ state' = [state EXCEPT ![h] = IF sync THEN "synced" ELSE @]

\* The rest of run_step: an interrupt taken after the instruction releases
\* the reservation (release_lr_sc_reservation).
Finish(h, own, cnt, had) ==
  \/ PerformanceAndSyncUpdate(h, own, cnt, had)
  \/ PerformanceAndSyncUpdate(h, Released(own, h), 0, had)

\* An access of h: it has the bus, or the hart waits.
Access(h) == state[h] = "running" /\ ~ Blocked(h)

Wait(h) ==
  /\ state[h] = "running" /\ Blocked(h)
  /\ state' = [state EXCEPT ![h] = "waiting"]
  /\ UNCHANGED <<owner, event, counter, lrAddr, elapsed, overwritten, failed, debug>>

\* _raw_load_data, for data and instructions.  A page walk that sets a bit of
\* the page table entry does so through _raw_store_data, which unlocks.
Load(h, walk) ==
  /\ Access(h)
  /\ Finish(h, IF walk THEN Released(owner, h) ELSE owner, counter[h],
            owner = h)
  /\ UNCHANGED <<lrAddr, overwritten, failed, debug>>

\* Mutant: a store does not wait for the lock.
StoreAtOnce(h, a) ==
  /\ state[h] = "running"
  /\ Writes(h, a)
  /\ Finish(h, Released(owner, h), counter[h], owner = h)
  /\ UNCHANGED <<lrAddr, failed, debug>>

\* _raw_store_data
Store(h, a) ==
  /\ Access(h)
  /\ Writes(h, a)
  /\ Finish(h, Released(owner, h), counter[h], owner = h)
  /\ UNCHANGED <<lrAddr, failed, debug>>

\* Mutant: each LR opens a new window.
LoadReservedRenews(h, a, walk) ==
  /\ Access(h)
  /\ lrAddr' = [lrAddr EXCEPT ![h] = a]
  /\ overwritten' = [overwritten EXCEPT ![h] = FALSE]
  /\ Finish(h, IF walk THEN Free ELSE h, WINDOW, TRUE)
  /\ UNCHANGED <<failed, debug>>

\* LR_W, atomic_load_reserved_word: the lock is kept until the SC, or until
\* the window of the first LR is over.
LoadReserved(h, a, walk) ==
  /\ Access(h)
  /\ lrAddr' = [lrAddr EXCEPT ![h] = a]
  /\ overwritten' = [overwritten EXCEPT ![h] = FALSE]
  /\ Finish(h, IF walk THEN Free ELSE h,
            IF counter[h] = 0 THEN WINDOW ELSE counter[h], TRUE)
  /\ UNCHANGED <<failed, debug>>

\* An LR that traps in its load has locked and set lr_addr; the trap unlocks.
LoadReservedTraps(h, a) ==
  /\ Access(h)
  /\ lrAddr' = [lrAddr EXCEPT ![h] = a]
  /\ overwritten' = [overwritten EXCEPT ![h] = FALSE]
  /\ PerformanceAndSyncUpdate(h, Free, 0, TRUE)
  /\ UNCHANGED <<failed, debug>>

\* SC_W, atomic_store_conditional_word: succeeds for the owner of the lock.
Succeeds(h, a) == owner = h /\ a = lrAddr[h]

StoreConditional(h, a) ==
  /\ state[h] = "running"
  /\ IF Succeeds(h, a) THEN Writes(h, a) ELSE UNCHANGED overwritten
  /\ Finish(h, Released(owner, h), 0, owner = h)
  /\ UNCHANGED <<lrAddr, failed, debug>>

\* execute_amo: lock, load, store.  The load's page walk unlocks the bus;
\* atomic_store_word asserts that it is locked (a build without assertions
\* goes on).
Amo(h, a, walk) ==
  /\ Access(h)
  /\ failed' = (failed \/ walk)
  /\ Writes(h, a)
  /\ Finish(h, Free, counter[h], TRUE)
  /\ UNCHANGED <<lrAddr, debug>>

\* Mutant: a trap leaves the reservation alone.
TrapKeepsLock(h) ==
  /\ state[h] = "running"
  /\ PerformanceAndSyncUpdate(h, owner, 0, FALSE)
  /\ UNCHANGED <<lrAddr, overwritten, failed, debug>>

\* An instruction that traps: switch_to_trap_handler.
Trap(h) ==
  /\ state[h] = "running"
  /\ PerformanceAndSyncUpdate(h, Released(owner, h), 0, owner = h)
  /\ UNCHANGED <<lrAddr, overwritten, failed, debug>>

\* Any other instruction.
Compute(h) ==
  /\ state[h] = "running"
  /\ Finish(h, owner, counter[h], owner = h)
  /\ UNCHANGED <<lrAddr, overwritten, failed, debug>>

\* WFI releases the reservation and, with nothing pending, waits; a debugged
\* hart does not wait.
Wfi(h) ==
  /\ state[h] = "running" /\ ~ debug
  /\ owner' = Released(owner, h)
  /\ event' = (event \/ owner = h)
  /\ counter' = [counter EXCEPT ![h] = 0]
  /\ state' = [state EXCEPT ![h] = "wfi"]
  /\ UNCHANGED <<lrAddr, elapsed, overwritten, failed, debug>>

\* run_step at a breakpoint: run returns to the debugger.
Break(h) ==
  /\ debug /\ state[h] = "running"
  /\ state' = [state EXCEPT ![h] = "stopped"]
  /\ UNCHANGED <<owner, event, counter, lrAddr, elapsed, overwritten, failed, debug>>

-----------------------------------------------------------------------------
\* The SystemC kernel.
Idle == \A h \in Harts : state[h] # "running"
EvaluationDone == \A h \in Harts : state[h] \notin {"running", "ready"}

Resume(h, from) ==
  /\ state[h] = from
  /\ state' = [state EXCEPT ![h] = "ready"]
  /\ UNCHANGED <<owner, event, counter, lrAddr, elapsed, overwritten, failed, debug>>

Dispatch(h) ==
  /\ Idle /\ state[h] = "ready"
  /\ state' = [state EXCEPT ![h] = "running"]
  /\ UNCHANGED <<owner, event, counter, lrAddr, elapsed, overwritten, failed, debug>>

\* The delta cycle in which lock_event wakes the waiting harts.
NotifyWaiting ==
  /\ EvaluationDone /\ event
  /\ event' = FALSE
  /\ state' = [h \in Harts |->
                 IF state[h] = "waiting" THEN "ready" ELSE state[h]]
  /\ UNCHANGED <<owner, counter, lrAddr, elapsed, overwritten, failed, debug>>

\* Time passes only when no delta notification is left.
Advance(h) == EvaluationDone /\ ~ event /\ Resume(h, "synced")

WakeFromWfi(h) == EvaluationDone /\ Resume(h, "wfi")
Continue(h) == EvaluationDone /\ Resume(h, "stopped")

\* PeripheralWriteConnector: a device writes once the bus is unlocked.
DeviceWrite(a) ==
  /\ Idle /\ owner = Free
  /\ Writes(Free, a)
  /\ UNCHANGED <<owner, event, state, counter, lrAddr, elapsed, failed, debug>>

Step(h) ==
  \/ Wait(h) \/ Trap(h) \/ Compute(h) \/ Wfi(h)
  \/ \E walk \in Walks : Load(h, walk)
  \/ \E a \in Addrs : Store(h, a) \/ StoreConditional(h, a)
                        \/ LoadReservedTraps(h, a)
  \/ \E a \in Addrs, walk \in Walks : LoadReserved(h, a, walk) \/ Amo(h, a, walk)

Kernel(h) == Dispatch(h) \/ Advance(h) \/ WakeFromWfi(h) \/ Continue(h)

Next ==
  \/ \E h \in Harts : Step(h) \/ Break(h) \/ Kernel(h)
  \/ NotifyWaiting
  \/ \E a \in Addrs : DeviceWrite(a)

Spec == Init /\ [][Next]_vars

\* A running hart keeps executing instructions, and the kernel runs every
\* process that is ready before it lets time pass.
LiveSpec ==
  Spec /\ \A h \in Harts : WF_vars(Step(h)) /\ WF_vars(Dispatch(h))

-----------------------------------------------------------------------------
TypeOK ==
  /\ owner \in Harts \union {Free}
  /\ event \in BOOLEAN
  /\ state \in [Harts -> ThreadStates]
  /\ counter \in [Harts -> 0 .. WINDOW]
  /\ lrAddr \in [Harts -> Addrs \union {NoAddr}]
  /\ elapsed \in [Harts -> 0 .. QUANTUM]
  /\ overwritten \in [Harts -> BOOLEAN]
  /\ failed \in BOOLEAN
  /\ debug \in BOOLEAN

\* The comment on PeripheralWriteConnector, "those peripherals do not violate
\* the RISC-V LR/SC atomic semantic", and the same of the other harts: when an
\* SC would succeed, nobody else wrote the reserved address since the LR,
\* whatever stores, AMOs, page walks and traps came in between.
ScIsAtomic ==
  \A h \in Harts, a \in Addrs : Succeeds(h, a) => ~ overwritten[h]

\* A hart that gives up control without having been stopped by the debugger
\* holds no lock: the others never meet a lock whose owner sleeps, waits for
\* time or waits for the lock itself.
SleepersHoldNoLock ==
  \A h \in Harts : owner = h => /\ state[h] \in {"running", "ready", "stopped"}
                                /\ state[h] # "running" => debug
                                /\ counter[h] # 0

\* So without a debugger nobody waits for the lock at all.
NobodyWaits == ~ debug => \A h \in Harts : state[h] # "waiting"

\* The assertion of atomic_store_word: an AMO still has the lock it took when
\* it stores.
AmoHoldsLock == ~ failed

\* The window covers "the RISC-V forward progress property": a lock an LR took
\* is released again, by its SC or by the end of the window, unless the
\* debugger keeps stopping its owner.
LockIsTemporary ==
  \A h \in Harts : owner = h ~> owner # h \/ state[h] = "stopped"

\* A hart that loops over LR and SC, or over LR alone, still synchronises with
\* the rest of the platform: the sync that performance_and_sync_update puts off
\* while the window is open comes in the end.
HartsYield == \A h \in Harts : state[h] = "running" ~> state[h] # "running"
=============================================================================
