------------------------------ MODULE GdbServer ------------------------------
(***************************************************************************)
(* The GDB stub of the platform (core/common/gdb-mc): the thread that      *)
(* reads packets from the debugger's connection (serve, dispatch), the     *)
(* SystemC thread that executes the commands (run, vCont, run_threads) and *)
(* one runner per hart (GDBServerRunner) that runs it until it stops.      *)
(*                                                                         *)
(* The reader is a thread of the operating system: it interleaves with     *)
(* everything.  The others are SystemC threads, which yield only where     *)
(* they wait: a hart in the middle of its instructions for the bus lock or *)
(* for time (quantum_keeper.sync), at the end of run for time, a runner    *)
(* for its run event, the server for packets and for stop events.  An      *)
(* event wakes only who is waiting for it when it is notified.             *)
(*                                                                         *)
(* A hart executes instructions until it waits or stops; BusLock has them  *)
(* one by one.  What matters here of an instruction is whether it hits a   *)
(* breakpoint, exits, finds the bus locked or, between LR and SC, keeps it *)
(* locked.                                                                 *)
(***************************************************************************)
EXTENDS Integers, Sequences, FiniteSetsExt

CONSTANTS
  N,           \* number of harts; thread ids start at 1
  Commands,    \* the commands the debugger sends
  LRSC,        \* harts execute LR and SC
  EXITS,       \* harts may end (exit system call)
  EBREAKS,     \* the program has EBREAK instructions
  PROMPT       \* a packet may arrive before time has passed since the last

GDB_THREAD_ALL == -1
GDB_THREAD_ANY == 0

Harts == 1 .. N
Tids == {GDB_THREAD_ALL, GDB_THREAD_ANY} \union Harts \union {N + 1}

\* A vCont action: step or continue, and the thread it is for.
Actions == [step : BOOLEAN, tid : Tids]
NoActions == <<>>

\* A packet: an acknowledgement, the end of the connection, or a command.
ACK == [kind |-> "ack", actions |-> NoActions]
EOF == [kind |-> "eof", actions |-> NoActions]
Kinds == {"query", "memory", "unknown", "malformed", "H", "vCont"}

ASSUME GdbAssumption ==
  /\ N \in Nat \ {0}
  /\ Commands \subseteq [kind : Kinds, actions : Seq(Actions)]
  /\ \A c \in Commands : (c.kind \in {"H", "vCont"}) = (c.actions # NoActions)
  /\ {LRSC, EXITS, EBREAKS, PROMPT} \subseteq BOOLEAN

Free == 0

VARIABLES
  sock,      \* packets sent by the debugger and not read yet
  awaiting,  \* the debugger waits for a response
  reader,    \* the reading thread: "accept", "lock" or "parse"
  mtx,       \* the mutex is locked
  pktq,      \* packets handed to the server
  server,    \* what the server thread does
  todo,      \* vCont: the actions left
  matched,   \* vCont: harts some action named
  stopped,   \* vCont: stopped_thread, or 0
  harts,     \* run_threads: hartsrun, which has the harts in ascending order
  pos,       \* run_threads: the hart being stopped, or 0
  orig,      \* run_threads: orig_status of the harts up to pos
  singleRun, \* single_run
  gThread,   \* thread_ops['g']: the thread that queries are about
  status,    \* CoreExecStatus of each hart
  runner,    \* what each runner does
  mode,      \* it is in run or run_step of its hart
  lock       \* owner of the bus lock

clientVars == <<sock, awaiting>>
readerVars == <<reader, mtx, pktq>>
vContVars == <<todo, matched, stopped, harts, pos, orig, singleRun>>
hartVars == <<status, runner, mode, lock>>
vars == <<clientVars, readerVars, server, vContVars, gThread, hartVars>>

Statuses == {"Runnable", "HitBreakpoint", "Terminated"}
Runners == {"idle", "start", "yield", "blocked", "finish", "gone"}
Phases == {"idle", "walk", "dispatch", "any", "anyWoken", "collect", "collectWoken"}

Init ==
  /\ sock = <<>> /\ awaiting = FALSE
  /\ reader = "accept" /\ mtx = FALSE /\ pktq = <<>>
  /\ server = "idle"
  /\ todo = NoActions /\ matched = {} /\ stopped = 0
  /\ harts = {} /\ pos = 0 /\ orig = <<>> /\ singleRun = FALSE
  /\ gThread = GDB_THREAD_ANY
  /\ status = [h \in Harts |-> "Runnable"]
  /\ runner = [h \in Harts |-> "idle"]
  /\ mode = [h \in Harts |-> "run"]
  /\ lock = Free

-----------------------------------------------------------------------------
\* The debugger: one command at a time, an acknowledgement for each response,
\* and it may leave at any time.
SendCommand(c) ==
  /\ ~ awaiting /\ Len(sock) < 2
  /\ \A i \in 1 .. Len(sock) : sock[i] # EOF
  /\ sock' = Append(sock, c) /\ awaiting' = TRUE
  /\ UNCHANGED <<readerVars, server, vContVars, gThread, hartVars>>

Disconnect ==
  /\ reader # "accept" /\ Len(sock) < 3
  /\ \A i \in 1 .. Len(sock) : sock[i] # EOF
  /\ sock' = Append(sock, EOF) /\ awaiting' = FALSE
  /\ UNCHANGED <<readerVars, server, vContVars, gThread, hartVars>>

\* A response reaches the debugger, which acknowledges it, unless it left.
Respond ==
  /\ awaiting' = FALSE
  /\ sock' = IF awaiting THEN Append(sock, ACK) ELSE sock

-----------------------------------------------------------------------------
\* serve
Accept ==
  /\ reader = "accept" /\ sock # <<>>
  /\ reader' = "lock"
  /\ UNCHANGED <<clientVars, mtx, pktq, server, vContVars, gThread, hartVars>>

\* dispatch: mtx.lock
Lock ==
  /\ reader = "lock" /\ ~ mtx
  /\ mtx' = TRUE /\ reader' = "parse"
  /\ UNCHANGED <<clientVars, pktq, server, vContVars, gThread, hartVars>>

\* gdb_parse_pkt: a packet is handed over with the mutex locked ...
ParsePkt ==
  /\ reader = "parse" /\ sock # <<>> /\ Head(sock) # EOF
  /\ pktq' = Append(pktq, Head(sock))
  /\ sock' = Tail(sock)
  /\ reader' = "lock"
  /\ UNCHANGED <<awaiting, mtx, server, vContVars, gThread, hartVars>>

\* ... and at the end of the connection it is unlocked.
ParseEof ==
  /\ reader = "parse" /\ sock # <<>> /\ Head(sock) = EOF
  /\ sock' = Tail(sock)
  /\ reader' = "accept" /\ mtx' = FALSE
  /\ UNCHANGED <<awaiting, pktq, server, vContVars, gThread, hartVars>>

-----------------------------------------------------------------------------
\* The end of run's loop: the packet is dropped and the mutex unlocked.
Done ==
  /\ server' = "idle"
  /\ pktq' = Tail(pktq)
  /\ mtx' = FALSE
  /\ UNCHANGED reader

\* run waits for asyncEvent: the event is taken when the SystemC kernel gets
\* to its update phase.
Woken == /\ server = "idle" /\ pktq # <<>>
         /\ PROMPT \/ \A h \in Harts : runner[h] # "finish"

TakeAck ==
  /\ Woken /\ Head(pktq).kind = "ack"
  /\ Done
  /\ UNCHANGED <<clientVars, vContVars, gThread, hartVars>>

\* A command the stub answers at once: registers, threads, breakpoints, memory
\* whose address needs no page walk; an unknown one gets an empty response, a
\* malformed one a NACK.
Answer ==
  /\ Woken /\ Head(pktq).kind \in {"query", "memory", "unknown", "malformed"}
  /\ Respond
  /\ Done
  /\ UNCHANGED <<vContVars, gThread, hartVars>>

\* get_threads
GetThreads(tid) ==
  IF tid = GDB_THREAD_ANY THEN {1}
  ELSE IF tid = GDB_THREAD_ALL THEN Harts ELSE {tid}

Valid(tid) == tid <= N

\* readMemory, writeMemory: the address is translated as a hart would, with
\* its page tables, where its TLB does not have it ...
WalkTables ==
  /\ Woken /\ Head(pktq).kind = "memory" /\ Valid(gThread)
  /\ server' = "walk"
  /\ UNCHANGED <<clientVars, readerVars, vContVars, gThread, hartVars>>

\* ... for which the server's thread waits while another hart has the bus
\* locked (wait_for_access_rights); a walk that stores A or D unlocks it.
AnswerMemory ==
  /\ server = "walk" /\ \A h \in GetThreads(gThread) : lock \in {Free, h}
  /\ lock' \in {lock, Free}
  /\ Respond
  /\ Done
  /\ UNCHANGED <<vContVars, gThread, status, runner, mode>>

\* setThread
SetThread ==
  /\ Woken /\ Head(pktq).kind = "H"
  /\ gThread' = Head(pktq).actions[1].tid
  /\ Respond
  /\ Done
  /\ UNCHANGED <<vContVars, hartVars>>

\* vCont returns: its local variables are gone.
Return ==
  /\ todo' = NoActions /\ matched' = {} /\ stopped' = 0
  /\ UNCHANGED <<harts, pos, orig, singleRun>>

\* Mutant: the mutex is unlocked before the handler runs.
VContUnlocks ==
  /\ Woken /\ Head(pktq).kind = "vCont"
  /\ todo' = Head(pktq).actions
  /\ server' = "dispatch" /\ mtx' = FALSE
  /\ UNCHANGED <<clientVars, reader, pktq, matched, stopped, harts, pos, orig,
                 singleRun, gThread, hartVars>>

VCont ==
  /\ Woken /\ Head(pktq).kind = "vCont"
  /\ todo' = Head(pktq).actions
  /\ server' = "dispatch"
  /\ UNCHANGED <<clientVars, readerVars, matched, stopped, harts, pos, orig,
                 singleRun, gThread, hartVars>>

Selected == GetThreads(Head(todo).tid) \ matched

\* run_threads: the selected harts are started; a runner that does not wait
\* for its run event misses it.
RunThreads ==
  /\ server = "dispatch" /\ todo # NoActions
  /\ Valid(Head(todo).tid) /\ Selected # {}
  /\ singleRun' = Head(todo).step
  /\ harts' = Selected /\ pos' = 0 /\ orig' = <<>>
  /\ runner' = [h \in Harts |->
       IF runner[h] = "idle" /\ h \in Selected THEN "start" ELSE runner[h]]
  /\ server' = "any"
  /\ UNCHANGED <<clientVars, readerVars, todo, matched, stopped, status, mode,
                 lock, gThread>>

\* Mutant: the thread of every action is marked, the wildcards included.
MatchedWildcards == matched \union {Head(todo).tid}

\* Only the leftmost action that names a hart applies to it.
Matched ==
  IF Head(todo).tid > 0 THEN matched \union {Head(todo).tid} ELSE matched

NothingToRun ==
  /\ server = "dispatch" /\ todo # NoActions
  /\ Valid(Head(todo).tid) /\ Selected = {}
  /\ todo' = Tail(todo) /\ matched' = Matched
  /\ UNCHANGED <<clientVars, readerVars, server, stopped, harts, pos, orig,
                 singleRun, gThread, hartVars>>

\* An unknown thread: E01.
NoSuchThread ==
  /\ server = "dispatch" /\ todo # NoActions /\ ~ Valid(Head(todo).tid)
  /\ Return /\ Respond /\ Done
  /\ UNCHANGED <<gThread, hartVars>>

\* Mutant: the last hart of hartsrun is not looked at.
RunnableLeftShort ==
  {h \in harts \ {Max(harts)} : h > pos /\ status[h] = "Runnable"}

\* "ensure that all running harts are stopped": the harts that the loop has
\* not come to and that are still runnable.
RunnableLeft == {h \in harts : h > pos /\ status[h] = "Runnable"}

\* orig_status when the loop has looked at the harts up to number j.
Looked(j) ==
  [h \in {g \in harts : g <= j} |-> IF h <= pos THEN orig[h] ELSE status[h]]

StopNext ==
  /\ server \in {"anyWoken", "collectWoken"} /\ RunnableLeft # {}
  /\ pos' = Min(RunnableLeft)
  /\ orig' = Looked(pos')
  /\ status' = [status EXCEPT ![pos'] = "HitBreakpoint"]
  /\ server' = "collect"
  /\ UNCHANGED <<clientVars, readerVars, todo, matched, stopped, harts,
                 singleRun, runner, mode, lock, gThread>>

\* Mutant: a hart that has terminated is not reported.
HaltedAtBreakpoint(all) == {h \in harts : all[h] = "HitBreakpoint"}

\* The harts that vCont may report.
Halted(all) == {h \in harts : all[h] # "Runnable"}

\* All are stopped: the statuses are restored, the last hart that hit a
\* breakpoint or terminated is the one reported, and those that hit a
\* breakpoint are marked runnable again.
AllStopped ==
  LET all == Looked(N)
  IN  /\ server \in {"anyWoken", "collectWoken"} /\ RunnableLeft = {}
      /\ status' = [h \in Harts |->
           IF h \notin harts THEN status[h]
           ELSE IF all[h] = "HitBreakpoint" THEN "Runnable" ELSE all[h]]
      /\ stopped' = IF Halted(all) = {} THEN stopped ELSE Max(Halted(all))
      /\ harts' = {} /\ pos' = 0 /\ orig' = <<>>
      /\ todo' = Tail(todo) /\ matched' = Matched
      /\ server' = "dispatch"
      /\ UNCHANGED <<clientVars, readerVars, singleRun, runner, mode, lock,
                     gThread>>

\* The stop reply, and the thread for the commands that follow.
StopReply ==
  /\ server = "dispatch" /\ todo = NoActions
  /\ gThread' = stopped
  /\ Return /\ Respond /\ Done
  /\ UNCHANGED hartVars

-----------------------------------------------------------------------------
\* The runners.  A SystemC thread runs while the server waits.
Scheduled == server # "dispatch"

\* Mutant: the event is lost once the server has seen the first one.
NotifyFirst(h) ==
  server' = IF server = "any" /\ h \in harts THEN "anyWoken" ELSE server

\* stop_event->notify: wakes the server if it waits for this hart.
Notify(h) ==
  server' = IF server = "any" /\ h \in harts THEN "anyWoken"
            ELSE IF server = "collect" /\ pos = h THEN "collectWoken"
            ELSE server

\* A hart that goes on executing instructions.
Executes(h) ==
  /\ Scheduled
  /\ \/ runner[h] = "start"
     \/ runner[h] = "yield" /\ mode[h] = "run" /\ status[h] = "Runnable"

ModeOf(h) == IF runner[h] # "start" THEN mode[h]
             ELSE IF singleRun THEN "step" ELSE "run"

Released(h) == IF lock = h THEN Free ELSE lock

\* Who owns the lock when hart h stops: it may stop between LR and SC.
LockAtStop(h) ==
  {Released(h)} \union (IF LRSC /\ lock \in {Free, h} THEN {h} ELSE {})

RunnerDone(h) == IF status'[h] = "Terminated" THEN "gone" ELSE "idle"

\* The hart yields at the end of an instruction (performance_and_sync_update).
Yields(h) ==
  /\ Executes(h)
  /\ mode' = [mode EXCEPT ![h] = ModeOf(h)]
  /\ runner' = [runner EXCEPT ![h] = "yield"]
  /\ lock' = Released(h)
  /\ UNCHANGED <<clientVars, readerVars, server, vContVars, status, gThread>>

\* It finds the bus locked by another.
Blocks(h) ==
  /\ Executes(h) /\ lock \notin {Free, h}
  /\ mode' = [mode EXCEPT ![h] = ModeOf(h)]
  /\ runner' = [runner EXCEPT ![h] = "blocked"]
  /\ UNCHANGED <<clientVars, readerVars, server, vContVars, gThread, status,
                 lock>>

Unblocks(h) ==
  /\ Scheduled /\ runner[h] = "blocked" /\ lock \in {Free, h}
  /\ runner' = [runner EXCEPT ![h] = "yield"]
  /\ UNCHANGED <<clientVars, readerVars, server, vContVars, gThread, status,
                 mode, lock>>

\* It comes to a breakpoint, or has done its single step.  EBREAK, unlike a
\* breakpoint, is an instruction at whose end the hart may yield.
Hits(h) ==
  /\ Executes(h)
  /\ mode' = [mode EXCEPT ![h] = ModeOf(h)]
  /\ status' = [status EXCEPT ![h] = "HitBreakpoint"]
  /\ lock' \in LockAtStop(h)
  /\ IF ModeOf(h) = "step"
     THEN Notify(h) /\ runner' = [runner EXCEPT ![h] = RunnerDone(h)]
     ELSE /\ \E r \in {"finish"} \union (IF EBREAKS THEN {"yield"} ELSE {}) :
               runner' = [runner EXCEPT ![h] = r]
          /\ UNCHANGED server
  /\ UNCHANGED <<clientVars, readerVars, vContVars, gThread>>

\* The exit system call.
Exits(h) ==
  /\ EXITS /\ Executes(h)
  /\ mode' = [mode EXCEPT ![h] = ModeOf(h)]
  /\ status' = [status EXCEPT ![h] = "Terminated"]
  /\ runner' = [runner EXCEPT ![h] = "yield"]
  /\ lock' \in LockAtStop(h)
  /\ UNCHANGED <<clientVars, readerVars, server, vContVars, gThread>>

\* The loop of run ends: there is one more synchronisation ...
LeavesRun(h) ==
  /\ Scheduled /\ runner[h] = "yield"
  /\ mode[h] = "run" /\ status[h] # "Runnable"
  /\ runner' = [runner EXCEPT ![h] = "finish"]
  /\ UNCHANGED <<clientVars, readerVars, server, vContVars, gThread, status,
                 mode, lock>>

\* ... before the stop event.
Finishes(h) ==
  /\ Scheduled /\ runner[h] = "finish"
  /\ Notify(h)
  /\ UNCHANGED status
  /\ runner' = [runner EXCEPT ![h] = RunnerDone(h)]
  /\ UNCHANGED <<clientVars, readerVars, vContVars, mode, lock, gThread>>

\* The end of run_step: a hart still runnable has been stepped.
LeavesStep(h) ==
  /\ Scheduled /\ runner[h] = "yield" /\ mode[h] = "step"
  /\ status' = [status EXCEPT
                  ![h] = IF @ = "Runnable" THEN "HitBreakpoint" ELSE @]
  /\ Notify(h)
  /\ runner' = [runner EXCEPT ![h] = RunnerDone(h)]
  /\ UNCHANGED <<clientVars, readerVars, vContVars, mode, lock, gThread>>

-----------------------------------------------------------------------------
Server ==
  \/ TakeAck \/ Answer \/ WalkTables \/ AnswerMemory \/ SetThread \/ VCont
  \/ RunThreads \/ NothingToRun \/ NoSuchThread
  \/ StopNext \/ AllStopped \/ StopReply

Hart(h) ==
  \/ Yields(h) \/ Blocks(h) \/ Unblocks(h) \/ Hits(h) \/ Exits(h)
  \/ LeavesRun(h) \/ Finishes(h) \/ LeavesStep(h)

Next ==
  \/ \E c \in Commands : SendCommand(c)
  \/ Disconnect
  \/ Accept \/ Lock \/ ParsePkt \/ ParseEof
  \/ Server
  \/ \E h \in Harts : Hart(h)

Spec == Init /\ [][Next]_vars

\* Threads run when they can.
LiveSpec ==
  /\ Spec
  /\ WF_vars(Accept) /\ WF_vars(Lock) /\ WF_vars(ParsePkt) /\ WF_vars(ParseEof)
  /\ WF_vars(Server)
  /\ \A h \in Harts : WF_vars(Hart(h))

-----------------------------------------------------------------------------
TypeOK ==
  /\ sock \in Seq(Commands \union {ACK, EOF}) /\ Len(sock) <= 3
  /\ awaiting \in BOOLEAN
  /\ reader \in {"accept", "lock", "parse"} /\ mtx \in BOOLEAN
  /\ pktq \in Seq(Commands \union {ACK})
  /\ server \in Phases
  /\ todo \in Seq(Actions) /\ matched \subseteq Harts
  /\ stopped \in {0} \union Harts
  /\ harts \subseteq Harts /\ pos \in {0} \union harts
  /\ orig \in [{h \in harts : h <= pos} -> Statuses]
  /\ singleRun \in BOOLEAN /\ gThread \in Tids
  /\ status \in [Harts -> Statuses]
  /\ runner \in [Harts -> Runners]
  /\ mode \in [Harts -> {"run", "step"}]
  /\ lock \in {Free} \union Harts

\* The comment in dispatch: the mutex is unlocked "after finishing all
\* operations".  While the reading thread is inside its section, the queue is
\* empty and the server waits for a packet, so neither the queue nor the last
\* packet kept for retransmission is ever used by two threads at once.
ReaderAlone ==
  /\ reader = "parse" => pktq = <<>> /\ server = "idle"
  /\ server # "idle" => Len(pktq) = 1
  /\ Len(pktq) <= 1

\* "This handler attempts to implement the all-stop mode": when the debugger
\* has its answer, whenever the server looks at a packet and while it reads
\* memory, no hart executes instructions; and when vCont has dealt with its
\* actions it has a hart to report, which its assertion (handler.cpp:286) says.
AllStop ==
  /\ server \in {"idle", "walk"} =>
       \A h \in Harts : \/ runner[h] \in {"idle", "finish", "gone"}
                        \/ runner[h] = "yield" /\ status[h] = "Terminated"
  /\ server = "dispatch" /\ todo = NoActions => stopped \in Harts

\* Once one hart has stopped, run_threads stops each of the others, unless it
\* waits for a lock whose owner is stopped.  (A hart whose runner has ended,
\* or missed its run event, is waited for in vain from the start.)
Stopping == server = "collect" /\ runner[pos] \notin {"idle", "gone"}

BlockedForGood(h) ==
  /\ runner[h] = "blocked" /\ lock \notin {Free, h}
  /\ runner[lock] \in {"idle", "finish", "gone"}

StopsUnlessLocked ==
  Stopping ~> server # "collect" \/ BlockedForGood(pos)
=============================================================================
