--------------------------- MODULE GdbServerProofs ---------------------------
(***************************************************************************)
(* The GDB stub for any number of harts and whatever the debugger sends:   *)
(* its types, that the reading thread and the server thread never touch    *)
(* the packet queue at the same time, and that all harts are stopped       *)
(* whenever the debugger has the word.                                     *)
(*                                                                         *)
(* ReaderAlone is not inductive: it says nothing of the mutex, which is    *)
(* locked by one thread and unlocked by the other.  The mutex is locked    *)
(* exactly while the reader is in its section or a packet is in the queue, *)
(* and the server leaves its wait only for a packet it has (Handover).     *)
(*                                                                         *)
(* AllStop speaks of the moment after the work is done.  StopInv says      *)
(* where the loop of run_threads is: harts it does not run are quiet, the  *)
(* ones it has passed are settled, and one it has not come to shows in its *)
(* status whether it still executes.  That vCont has a hart to report      *)
(* needs ReportInv: a woken loop has a hart that halted, or one whose      *)
(* runner ended before the loop came to it, and then it waits for ever.    *)
(***************************************************************************)
EXTENDS GdbServer, WellFoundedInduction, TLAPS

Handover ==
  /\ mtx = (reader = "parse" \/ pktq # <<>>)
  /\ reader = "parse" => pktq = <<>>
  /\ pktq # <<>> => \E p : pktq = <<p>>
  /\ server # "idle" => pktq # <<>>

\* Handing a packet over and dropping it.
LEMMA OnePacket ==
  ASSUME NEW p
  PROVE  /\ Append(<<>>, p) = <<p>>
         /\ Tail(<<p>>) = <<>>
         /\ <<p>> # <<>>
         /\ Len(<<p>>) = 1
OBVIOUS

\* The loop of run ends with the queue empty and the mutex unlocked.
LEMMA DoneHandover ==
  ASSUME Handover, pktq # <<>>, Done
  PROVE  Handover'
<1>1. PICK p : pktq = <<p>>
  BY DEF Handover
<1>2. pktq' = <<>> /\ server' = "idle" /\ mtx' = FALSE /\ reader' = reader
  BY <1>1, OnePacket DEF Done
<1>3. reader # "parse"
  BY DEF Handover
<1> QED
  BY <1>2, <1>3 DEF Handover

\* A step of the server on a packet it keeps.
LEMMA BusyHandover ==
  ASSUME Handover, pktq # <<>>, UNCHANGED readerVars
  PROVE  Handover'
BY DEF Handover, readerVars

LEMMA ServerHandover ==
  ASSUME Handover, Server
  PROVE  Handover'
<1>1. CASE TakeAck
  BY <1>1, DoneHandover DEF TakeAck, Woken
<1>2. CASE Answer
  BY <1>2, DoneHandover DEF Answer, Woken
<1>3. CASE SetThread
  BY <1>3, DoneHandover DEF SetThread, Woken
<1>4. CASE VCont
  BY <1>4, BusyHandover DEF VCont, Woken
<1>5. CASE RunThreads
  BY <1>5, BusyHandover DEF RunThreads, Handover
<1>6. CASE NothingToRun
  BY <1>6, BusyHandover DEF NothingToRun, Handover
<1>7. CASE NoSuchThread
  BY <1>7, DoneHandover DEF NoSuchThread, Handover
<1>8. CASE StopNext
  BY <1>8, BusyHandover DEF StopNext, Handover
<1>9. CASE AllStopped
  BY <1>9, BusyHandover DEF AllStopped, Handover
<1>10. CASE StopReply
  BY <1>10, DoneHandover DEF StopReply, Handover
<1>11. CASE WalkTables
  BY <1>11, BusyHandover DEF WalkTables, Woken
<1>12. CASE AnswerMemory
  BY <1>12, DoneHandover DEF AnswerMemory, Handover
<1> QED
  BY <1>1, <1>2, <1>3, <1>4, <1>5, <1>6, <1>7, <1>8, <1>9, <1>10, <1>11, <1>12
     DEF Server

\* A runner wakes the server only from a wait inside vCont.
LEMMA HartHandover ==
  ASSUME Handover, NEW h \in Harts, Hart(h)
  PROVE  Handover'
<1>1. UNCHANGED readerVars /\ (server' = server \/ Notify(h))
  BY DEF Hart, Yields, Blocks, Unblocks, Hits, Exits, LeavesRun, Finishes,
         LeavesStep
<1>2. server' # "idle" => server # "idle"
  BY <1>1 DEF Notify
<1> QED
  BY <1>1, <1>2 DEF Handover, readerVars

\* The steps of the debugger and of the reading thread.
LEMMA ReaderHandover ==
  ASSUME Handover,
         \/ \E c \in Commands : SendCommand(c)
         \/ Disconnect \/ Accept \/ Lock \/ ParsePkt \/ ParseEof
  PROVE  Handover'
<1>1. CASE \E c \in Commands : SendCommand(c)
  BY <1>1 DEF SendCommand, Handover, readerVars
<1>2. CASE Disconnect
  BY <1>2 DEF Disconnect, Handover, readerVars
<1>3. CASE Accept
  BY <1>3 DEF Accept, Handover
<1>4. CASE Lock
  BY <1>4 DEF Lock, Handover
<1>5. CASE ParsePkt
  <2>1. /\ pktq = <<>> /\ mtx /\ server = "idle"
        /\ pktq' = Append(<<>>, Head(sock))
        /\ reader' = "lock" /\ UNCHANGED <<mtx, server>>
    BY <1>5 DEF ParsePkt, Handover
  <2>2. pktq' = <<Head(sock)>> /\ pktq' # <<>>
    BY <2>1, OnePacket
  <2> QED
    BY <2>1, <2>2 DEF Handover
<1>6. CASE ParseEof
  BY <1>6 DEF ParseEof, Handover
<1> QED
  BY <1>1, <1>2, <1>3, <1>4, <1>5, <1>6

LEMMA HandoverInvariant == Spec => []Handover
<1>1. Init => Handover
  BY DEF Init, Handover
<1>2. Handover /\ [Next]_vars => Handover'
  <2> SUFFICES ASSUME Handover, [Next]_vars PROVE Handover'
    OBVIOUS
  <2>1. CASE UNCHANGED vars
    BY <2>1 DEF vars, readerVars, Handover
  <2> QED
    BY <2>1, ReaderHandover, ServerHandover, HartHandover DEF Next
<1> QED
  BY <1>1, <1>2, PTL DEF Spec

\* The queue and the packet kept for retransmission are used by one thread at
\* a time, though the mutex is locked by one thread and unlocked by another.
THEOREM ReaderIsAlone == Spec => []ReaderAlone
<1>1. Handover => ReaderAlone
  <2> SUFFICES ASSUME Handover PROVE ReaderAlone
    OBVIOUS
  <2>1. CASE pktq = <<>>
    BY <2>1 DEF Handover, ReaderAlone
  <2>2. CASE pktq # <<>>
    <3>1. PICK p : pktq = <<p>>
      BY <2>2 DEF Handover
    <3> QED
      BY <2>2, <3>1, OnePacket DEF Handover, ReaderAlone
  <2> QED
    BY <2>1, <2>2
<1> QED
  BY <1>1, HandoverInvariant, PTL

-----------------------------------------------------------------------------
\* The next hart that the loop stops is one of those left.
LEMMA MinIsLeast ==
  ASSUME NEW S, S \subseteq Nat, S # {}
  PROVE  Min(S) \in S /\ \A y \in S : Min(S) <= y
<1>1. PICK x \in S : \A y \in S : ~ (<<y, x>> \in OpToRel(<, Nat))
  BY NatLessThanWellFounded, WFMin
<1>2. \A y \in S : x <= y
  <2> SUFFICES ASSUME NEW y \in S PROVE x <= y
    OBVIOUS
  <2>1. y \in Nat /\ x \in Nat
    OBVIOUS
  <2>2. ~ (y < x)
    BY <1>1, <2>1 DEF OpToRel
  <2> QED
    BY <2>1, <2>2
<1> QED
  BY <1>2 DEF Min

\* The hart that is reported is one of those that halted.
LEMMA MaxIsMember ==
  ASSUME NEW S, S \subseteq Harts, S # {}
  PROVE  Max(S) \in S
<1> DEFINE T == {N - h : h \in S}
<1>1. N \in Nat /\ S \subseteq 1 .. N
  BY GdbAssumption DEF Harts
<1>2. T \subseteq Nat /\ T # {}
  BY <1>1
<1>3. Min(T) \in T /\ \A y \in T : Min(T) <= y
  BY <1>2, MinIsLeast
<1>4. PICK x \in S : Min(T) = N - x
  BY <1>3
<1>5. \A y \in S : x >= y
  <2> SUFFICES ASSUME NEW y \in S PROVE x >= y
    OBVIOUS
  <2>1. N - x <= N - y
    BY <1>3, <1>4
  <2> QED
    BY <2>1, <1>1
<1> QED
  BY <1>5 DEF Max

-----------------------------------------------------------------------------
\* Types, in four parts.  A debugger that waits has sent at most two packets
\* that are not read, and the server runs harts for an action of a known
\* thread.
ClientInv ==
  /\ sock \in Seq(Commands \union {ACK, EOF}) /\ Len(sock) <= 3
  /\ awaiting \in BOOLEAN
  /\ awaiting => Len(sock) <= 2

QueueInv ==
  /\ reader \in {"accept", "lock", "parse"} /\ mtx \in BOOLEAN
  /\ pktq \in Seq(Commands \union {ACK})

VContInv ==
  /\ server \in Phases
  /\ todo \in Seq(Actions) /\ matched \subseteq Harts
  /\ stopped \in {0} \union Harts
  /\ harts \subseteq Harts /\ pos \in {0} \union harts
  /\ orig \in [{h \in harts : h <= pos} -> Statuses]
  /\ singleRun \in BOOLEAN /\ gThread \in Tids
  /\ server \notin {"idle", "walk", "dispatch"} =>
       todo # NoActions /\ Valid(Head(todo).tid)

HartsInv ==
  /\ status \in [Harts -> Statuses]
  /\ runner \in [Harts -> Runners]
  /\ mode \in [Harts -> {"run", "step"}]
  /\ lock \in {Free} \union Harts

StubInv == ClientInv /\ QueueInv /\ VContInv /\ HartsInv

\* What a packet of the queue may be.
LEMMA PacketType ==
  ASSUME NEW p \in Commands \union {ACK}
  PROVE  /\ p.actions \in Seq(Actions)
         /\ p.kind \in {"H", "vCont"} => p.actions # NoActions
<1>1. CASE p \in Commands
  BY <1>1, GdbAssumption DEF Kinds, NoActions
<1>2. CASE p = ACK
  BY <1>2 DEF ACK, NoActions
<1> QED
  BY <1>1, <1>2

\* Sending, reading and dropping packets.
LEMMA SeqTypes ==
  ASSUME NEW T, NEW s \in Seq(T)
  PROVE  /\ \A e \in T : /\ Append(s, e) \in Seq(T)
                         /\ Len(Append(s, e)) = Len(s) + 1
         /\ s # <<>> => /\ Head(s) \in T /\ Tail(s) \in Seq(T)
                        /\ Len(Tail(s)) = Len(s) - 1
         /\ Len(s) \in Nat
OBVIOUS

\* A response fits into the connection.
LEMMA RespondType ==
  ASSUME ClientInv, Respond
  PROVE  ClientInv'
<1>1. CASE awaiting
  <2>1. ACK \in Commands \union {ACK, EOF}
    OBVIOUS
  <2>2. sock' = Append(sock, ACK) /\ awaiting' = FALSE
    BY <1>1 DEF Respond
  <2>3. sock' \in Seq(Commands \union {ACK, EOF}) /\ Len(sock') = Len(sock) + 1
    BY <2>1, <2>2, SeqTypes DEF ClientInv
  <2>4. Len(sock') <= 3
    BY <1>1, <2>3, SeqTypes DEF ClientInv
  <2> QED
    BY <2>2, <2>3, <2>4 DEF ClientInv
<1>2. CASE ~ awaiting
  BY <1>2 DEF ClientInv, Respond
<1> QED
  BY <1>1, <1>2

LEMMA DoneType ==
  ASSUME QueueInv, pktq # <<>>, Done
  PROVE  QueueInv'
<1>1. pktq' \in Seq(Commands \union {ACK})
  BY SeqTypes DEF QueueInv, Done
<1> QED
  BY <1>1 DEF QueueInv, Done

\* The steps of the debugger and of the reading thread.
LEMMA ReaderType ==
  ASSUME StubInv,
         \/ \E c \in Commands : SendCommand(c)
         \/ Disconnect \/ Accept \/ Lock \/ ParsePkt \/ ParseEof
  PROVE  StubInv'
<1>1. UNCHANGED <<server, vContVars, gThread, hartVars>>
  BY DEF SendCommand, Disconnect, Accept, Lock, ParsePkt, ParseEof
<1>2. VContInv' /\ HartsInv'
  BY <1>1 DEF StubInv, VContInv, HartsInv, vContVars, hartVars, Valid
<1>3. ClientInv'
  <2> USE DEF StubInv, ClientInv
  <2>1. ASSUME NEW c \in Commands, SendCommand(c) PROVE ClientInv'
    BY <2>1 DEF SendCommand
  <2>2. CASE Disconnect
    <3>1. EOF \in Commands \union {ACK, EOF}
      OBVIOUS
    <3>2. sock' = Append(sock, EOF) /\ awaiting' = FALSE /\ Len(sock) < 3
      BY <2>2 DEF Disconnect
    <3>3. sock' \in Seq(Commands \union {ACK, EOF}) /\ Len(sock') <= 3
      BY <3>1, <3>2, SeqTypes
    <3> QED
      BY <3>2, <3>3
  <2>3. CASE Accept
    BY <2>3 DEF Accept, clientVars
  <2>4. CASE Lock
    BY <2>4 DEF Lock, clientVars
  <2>5. CASE ParsePkt
    BY <2>5 DEF ParsePkt
  <2>6. CASE ParseEof
    BY <2>6 DEF ParseEof
  <2> QED
    BY <2>1, <2>2, <2>3, <2>4, <2>5, <2>6
<1>4. QueueInv'
  <2> USE DEF StubInv, QueueInv
  <2>1. ASSUME NEW c \in Commands, SendCommand(c) PROVE QueueInv'
    BY <2>1 DEF SendCommand, readerVars
  <2>2. CASE Disconnect
    BY <2>2 DEF Disconnect, readerVars
  <2>3. CASE Accept
    BY <2>3 DEF Accept
  <2>4. CASE Lock
    BY <2>4 DEF Lock
  <2>5. CASE ParsePkt
    <3>1. Head(sock) \in Commands \union {ACK}
      BY <2>5 DEF ParsePkt, ClientInv
    <3> QED
      BY <2>5, <3>1 DEF ParsePkt
  <2>6. CASE ParseEof
    BY <2>6 DEF ParseEof
  <2> QED
    BY <2>1, <2>2, <2>3, <2>4, <2>5, <2>6
<1> QED
  BY <1>2, <1>3, <1>4 DEF StubInv

LEMMA HartNumbers ==
  /\ N \in Harts /\ 1 \in Harts /\ 0 \notin Harts /\ Harts \subseteq Nat
  /\ \A h \in Harts : h > 0 /\ h <= N
BY GdbAssumption DEF Harts

\* The threads of an action are harts, and so are the ones it marks.
LEMMA SelectedType ==
  ASSUME VContInv, todo # NoActions, Valid(Head(todo).tid)
  PROVE  /\ Selected \subseteq Harts /\ Matched \subseteq Harts
         /\ Head(todo).step \in BOOLEAN /\ Tail(todo) \in Seq(Actions)
<1>1. Head(todo) \in Actions /\ Tail(todo) \in Seq(Actions)
  BY SeqTypes DEF VContInv, NoActions
<1>2. Head(todo).tid \in Tids /\ Head(todo).tid <= N
  BY <1>1 DEF Actions, Valid
<1>3. Head(todo).tid > 0 => Head(todo).tid \in Harts
  BY <1>2, GdbAssumption DEF Tids, Harts, GDB_THREAD_ALL, GDB_THREAD_ANY
<1>4. Head(todo).tid \in {GDB_THREAD_ALL, GDB_THREAD_ANY} \union Harts
  BY <1>2, GdbAssumption DEF Tids, Harts, GDB_THREAD_ALL, GDB_THREAD_ANY
<1>5. Selected \subseteq Harts
  BY <1>4, HartNumbers DEF Selected, GetThreads
<1>6. Matched \subseteq Harts
  BY <1>3 DEF Matched, VContInv
<1> QED
  BY <1>1, <1>5, <1>6 DEF Actions

\* The next hart that is stopped.
LEMMA NextStop ==
  ASSUME VContInv, RunnableLeft # {}
  PROVE  /\ Min(RunnableLeft) \in RunnableLeft
         /\ \A h \in RunnableLeft : Min(RunnableLeft) <= h
<1>1. RunnableLeft \subseteq Nat
  BY HartNumbers DEF RunnableLeft, VContInv
<1> QED
  BY <1>1, MinIsLeast

\* orig_status has the status of every hart looked at.
LEMMA LookedType ==
  ASSUME VContInv, HartsInv, NEW j \in Harts
  PROVE  Looked(j) \in [{h \in harts : h <= j} -> Statuses]
<1> SUFFICES ASSUME NEW h \in harts, h <= j
             PROVE  (IF h <= pos THEN orig[h] ELSE status[h]) \in Statuses
  BY DEF Looked
<1>1. h \in Harts
  BY DEF VContInv
<1> QED
  BY <1>1 DEF VContInv, HartsInv

\* The steps that answer a packet at once.
LEMMA AnswerType ==
  ASSUME StubInv, TakeAck \/ Answer \/ SetThread \/ VCont
  PROVE  StubInv'
<1>1. pktq # <<>> /\ server = "idle" /\ Head(pktq) \in Commands \union {ACK}
  BY SeqTypes DEF TakeAck, Answer, SetThread, VCont, Woken, StubInv, QueueInv
<1>2. HartsInv'
  BY DEF StubInv, HartsInv, hartVars, TakeAck, Answer, SetThread, VCont
<1>3. ClientInv'
  <2>1. CASE UNCHANGED clientVars
    BY <2>1 DEF StubInv, ClientInv, clientVars
  <2>2. CASE Respond
    BY <2>2, RespondType DEF StubInv
  <2> QED
    BY <2>1, <2>2 DEF TakeAck, Answer, SetThread, VCont
<1>4. QueueInv'
  <2>1. CASE UNCHANGED readerVars
    BY <2>1 DEF StubInv, QueueInv, readerVars
  <2>2. CASE Done
    BY <1>1, <2>2, DoneType DEF StubInv
  <2> QED
    BY <2>1, <2>2 DEF TakeAck, Answer, SetThread, VCont
<1>5. VContInv'
  <2> USE DEF StubInv, VContInv, Phases
  <2>1. CASE TakeAck \/ Answer
    BY <2>1 DEF TakeAck, Answer, Done, vContVars
  <2>2. CASE SetThread
    <3>1. /\ Head(pktq).actions \in Seq(Actions)
          /\ Head(pktq).actions # <<>>
      BY <1>1, <2>2, PacketType DEF SetThread, NoActions
    <3>2. Head(pktq).actions[1] \in Actions
      BY <3>1
    <3>3. gThread' \in Tids
      BY <2>2, <3>2 DEF SetThread, Actions
    <3> QED
      BY <2>2, <3>3 DEF SetThread, Done, vContVars
  <2>3. CASE VCont
    <3>1. todo' \in Seq(Actions)
      BY <1>1, <2>3, PacketType DEF VCont
    <3> QED
      BY <2>3, <3>1 DEF VCont
  <2> QED
    BY <2>1, <2>2, <2>3
<1> QED
  BY <1>2, <1>3, <1>4, <1>5 DEF StubInv

\* Memory whose address needs a page walk.
LEMMA MemoryType ==
  ASSUME StubInv, WalkTables \/ AnswerMemory, Handover
  PROVE  StubInv'
<1>1. CASE WalkTables
  <2>1. UNCHANGED <<clientVars, readerVars, vContVars, gThread, hartVars>> /\ server' = "walk"
    BY <1>1 DEF WalkTables
  <2>2. ClientInv' /\ QueueInv' /\ HartsInv'
    BY <2>1 DEF StubInv, ClientInv, QueueInv, HartsInv, clientVars, readerVars, hartVars
  <2>3. VContInv'
    BY <2>1 DEF StubInv, VContInv, Phases, vContVars
  <2> QED
    BY <2>2, <2>3 DEF StubInv
<1>2. CASE AnswerMemory
  <2>1. pktq # <<>> /\ UNCHANGED <<vContVars, gThread, status, runner, mode>>
        /\ server' = "idle" /\ lock' \in {lock, Free}
    BY <1>2 DEF AnswerMemory, Handover, Done
  <2>2. ClientInv' /\ QueueInv'
    BY <1>2, <2>1, RespondType, DoneType DEF AnswerMemory, StubInv
  <2>3. VContInv'
    BY <2>1 DEF StubInv, VContInv, Phases, vContVars
  <2>4. HartsInv'
    BY <2>1 DEF StubInv, HartsInv
  <2> QED
    BY <2>2, <2>3, <2>4 DEF StubInv
<1> QED
  BY <1>1, <1>2

\* The steps of vCont that touch neither the harts nor the queue.
LEMMA VContType ==
  ASSUME StubInv, NothingToRun \/ NoSuchThread \/ StopReply, Handover
  PROVE  StubInv'
<1>1. pktq # <<>> /\ server = "dispatch"
  BY DEF NothingToRun, NoSuchThread, StopReply, Handover
<1>2. HartsInv'
  BY DEF StubInv, HartsInv, hartVars, NothingToRun, NoSuchThread, StopReply
<1>3. ClientInv'
  <2>1. CASE UNCHANGED clientVars
    BY <2>1 DEF StubInv, ClientInv, clientVars
  <2>2. CASE Respond
    BY <2>2, RespondType DEF StubInv
  <2> QED
    BY <2>1, <2>2 DEF NothingToRun, NoSuchThread, StopReply
<1>4. QueueInv'
  <2>1. CASE UNCHANGED readerVars
    BY <2>1 DEF StubInv, QueueInv, readerVars
  <2>2. CASE Done
    BY <1>1, <2>2, DoneType DEF StubInv
  <2> QED
    BY <2>1, <2>2 DEF NothingToRun, NoSuchThread, StopReply
<1>5. VContInv'
  <2> USE DEF StubInv, VContInv, Phases
  <2>1. CASE NothingToRun
    BY <1>1, <2>1, SelectedType DEF NothingToRun
  <2>2. <<>> \in Seq(Actions) /\ stopped \in Tids
    BY DEF Tids, GDB_THREAD_ANY
  <2>3. CASE NoSuchThread
    BY <2>2, <2>3 DEF NoSuchThread, Return, Done, NoActions
  <2>4. CASE StopReply
    BY <2>2, <2>4 DEF StopReply, Return, Done, NoActions
  <2> QED
    BY <2>1, <2>3, <2>4
<1> QED
  BY <1>2, <1>3, <1>4, <1>5 DEF StubInv

\* The steps of run_threads.
LEMMA RunType ==
  ASSUME StubInv, RunThreads \/ StopNext \/ AllStopped
  PROVE  StubInv'
<1>1. UNCHANGED <<clientVars, readerVars>>
  BY DEF RunThreads, StopNext, AllStopped
<1>2. ClientInv' /\ QueueInv'
  BY <1>1 DEF StubInv, ClientInv, QueueInv, clientVars, readerVars
<1>3. CASE RunThreads
  <2>1. Selected \subseteq Harts /\ Head(todo).step \in BOOLEAN
    BY <1>3, SelectedType DEF RunThreads, StubInv
  <2>2. {h \in Selected : h <= 0} = {}
    <3> SUFFICES ASSUME NEW h \in Selected PROVE ~ (h <= 0)
      OBVIOUS
    <3>1. h \in Nat /\ h > 0
      BY <2>1, HartNumbers
    <3> QED
      BY <3>1
  <2>3. orig' \in [{h \in harts' : h <= pos'} -> Statuses]
    BY <1>3, <2>2 DEF RunThreads
  <2>4. VContInv'
    BY <1>3, <2>1, <2>3 DEF RunThreads, StubInv, VContInv, Phases, Valid
  <2>5. HartsInv'
    BY <1>3 DEF RunThreads, StubInv, HartsInv, Runners
  <2> QED
    BY <1>2, <2>4, <2>5 DEF StubInv
<1>4. CASE StopNext
  <2>1. pos' = Min(RunnableLeft) /\ pos' \in RunnableLeft
    BY <1>4, NextStop DEF StopNext, StubInv
  <2>2. pos' \in harts /\ pos' \in Harts
    BY <2>1 DEF RunnableLeft, StubInv, VContInv
  <2>3. orig' \in [{h \in harts : h <= pos'} -> Statuses]
    BY <1>4, <2>2, LookedType DEF StopNext, StubInv
  <2>4. VContInv'
    BY <1>4, <2>2, <2>3 DEF StopNext, StubInv, VContInv, Phases, Valid
  <2>5. HartsInv'
    BY <1>4 DEF StopNext, StubInv, HartsInv, Statuses
  <2> QED
    BY <1>2, <2>4, <2>5 DEF StubInv
<1>5. CASE AllStopped
  <2>1. Looked(N) \in [{h \in harts : h <= N} -> Statuses]
    BY LookedType, HartNumbers DEF StubInv
  <2>2. \A h \in harts : h <= N
    BY HartNumbers DEF StubInv, VContInv
  <2>3. \A h \in harts : Looked(N)[h] \in Statuses
    BY <2>1, <2>2
  <2>4. HartsInv'
    <3>1. \A h \in Harts : status'[h] \in Statuses
      BY <1>5, <2>3 DEF AllStopped, StubInv, HartsInv, Statuses
    <3> QED
      BY <1>5, <3>1 DEF AllStopped, StubInv, HartsInv
  <2>5. stopped' \in {0} \union Harts
    <3>1. Halted(Looked(N)) \subseteq Harts
      BY DEF Halted, StubInv, VContInv
    <3> QED
      BY <1>5, <3>1, MaxIsMember DEF AllStopped, StubInv, VContInv
  <2>6. todo' \in Seq(Actions) /\ matched' \subseteq Harts
    BY <1>5, SelectedType DEF AllStopped, StubInv, VContInv
  <2>7. orig' \in [{h \in harts' : h <= pos'} -> Statuses]
    BY <1>5 DEF AllStopped
  <2>8. VContInv'
    BY <1>5, <2>5, <2>6, <2>7 DEF AllStopped, StubInv, VContInv, Phases
  <2> QED
    BY <1>2, <2>4, <2>8 DEF StubInv
<1> QED
  BY <1>3, <1>4, <1>5

\* The steps of a runner and its hart.
LEMMA HartType ==
  ASSUME StubInv, NEW h \in Harts, Hart(h)
  PROVE  StubInv'
<1> USE DEF StubInv
<1>1. UNCHANGED <<clientVars, readerVars, vContVars, gThread>>
  BY DEF Hart, Yields, Blocks, Unblocks, Hits, Exits, LeavesRun, Finishes,
         LeavesStep
<1>2. server' = server \/ Notify(h)
  BY DEF Hart, Yields, Blocks, Unblocks, Hits, Exits, LeavesRun, Finishes,
         LeavesStep
<1>3. ClientInv' /\ QueueInv'
  BY <1>1 DEF ClientInv, QueueInv, clientVars, readerVars
<1>4. VContInv'
  <2>1. /\ server' \in Phases
        /\ server' \notin {"idle", "walk", "dispatch"} =>
             server \notin {"idle", "walk", "dispatch"}
    BY <1>2 DEF Notify, VContInv, Phases
  <2> QED
    BY <1>1, <2>1 DEF VContInv, vContVars, Valid
<1>5. HartsInv'
  <2> USE DEF HartsInv, Statuses, Runners
  <2>1. ModeOf(h) \in {"run", "step"} /\ RunnerDone(h) \in Runners
    BY DEF ModeOf, RunnerDone
  <2>2. Released(h) \in {Free} \union Harts
    BY DEF Released
  <2>3. LockAtStop(h) \subseteq {Free} \union Harts
    BY <2>2 DEF LockAtStop
  <2>4. CASE Yields(h)
    BY <2>1, <2>2, <2>4 DEF Yields
  <2>5. CASE Blocks(h)
    BY <2>1, <2>5 DEF Blocks
  <2>6. CASE Unblocks(h)
    BY <2>6 DEF Unblocks
  <2>7. CASE Hits(h)
    <3>1. PICK r \in Runners : runner' = [runner EXCEPT ![h] = r]
      BY <2>1, <2>7 DEF Hits
    <3>2. /\ mode' = [mode EXCEPT ![h] = ModeOf(h)]
          /\ status' = [status EXCEPT ![h] = "HitBreakpoint"]
          /\ lock' \in LockAtStop(h)
      BY <2>7 DEF Hits
    <3> QED
      BY <2>1, <2>3, <3>1, <3>2
  <2>8. CASE Exits(h)
    BY <2>1, <2>3, <2>8 DEF Exits
  <2>9. CASE LeavesRun(h)
    BY <2>9 DEF LeavesRun
  <2>10. CASE Finishes(h)
    BY <2>1, <2>10 DEF Finishes
  <2>11. CASE LeavesStep(h)
    <3>1. PICK s \in Statuses : status' = [status EXCEPT ![h] = s]
      BY <2>11 DEF LeavesStep
    <3> QED
      BY <2>1, <2>11, <3>1 DEF LeavesStep
  <2> QED
    BY <2>4, <2>5, <2>6, <2>7, <2>8, <2>9, <2>10, <2>11 DEF Hart
<1> QED
  BY <1>3, <1>4, <1>5

LEMMA StubInvariant == Spec => []StubInv
<1>1. Init => StubInv
  <2> SUFFICES ASSUME Init PROVE StubInv
    OBVIOUS
  <2>1. \A T : <<>> \in Seq(T)
    OBVIOUS
  <2>2. ClientInv
    <3>1. sock = <<>> /\ awaiting = FALSE
      BY DEF Init
    <3>2. Len(sock) <= 3
      BY <3>1
    <3> QED
      BY <2>1, <3>1, <3>2 DEF ClientInv
  <2>3. QueueInv
    BY <2>1 DEF Init, QueueInv
  <2>4. VContInv
    <3>1. orig \in [{h \in harts : h <= pos} -> Statuses]
      BY DEF Init
    <3> QED
      BY <2>1, <3>1 DEF Init, VContInv, Phases, NoActions, Tids
  <2>5. HartsInv
    BY DEF Init, HartsInv, Statuses, Runners
  <2> QED
    BY <2>2, <2>3, <2>4, <2>5 DEF StubInv
<1>2. StubInv /\ Handover /\ [Next]_vars => StubInv'
  <2> SUFFICES ASSUME StubInv, Handover, [Next]_vars PROVE StubInv'
    OBVIOUS
  <2>1. CASE UNCHANGED vars
    <3>1. ClientInv' /\ QueueInv'
      BY <2>1 DEF vars, clientVars, readerVars, StubInv, ClientInv, QueueInv
    <3>2. VContInv' /\ HartsInv'
      BY <2>1 DEF vars, vContVars, hartVars, StubInv, VContInv, HartsInv, Valid
    <3> QED
      BY <3>1, <3>2 DEF StubInv
  <2>2. CASE Server
    BY <2>2, AnswerType, MemoryType, VContType, RunType DEF Server
  <2> QED
    BY <2>1, <2>2, ReaderType, HartType DEF Next
<1> QED
  BY <1>1, <1>2, HandoverInvariant, PTL DEF Spec

\* Every variable keeps its type: the connection holds at most three packets,
\* the loop of run_threads stops a hart it runs, and orig_status has exactly
\* the harts it has looked at.
THEOREM GdbTypeCorrect == Spec => []TypeOK
<1>1. StubInv => TypeOK
  BY DEF StubInv, ClientInv, QueueInv, VContInv, HartsInv, TypeOK
<1> QED
  BY <1>1, StubInvariant, PTL

-----------------------------------------------------------------------------
\* A hart that executes nothing until it is started.
Quiet(h) ==
  \/ runner[h] \in {"idle", "finish", "gone"}
  \/ runner[h] = "yield" /\ status[h] = "Terminated"

\* The harts that run_threads does not run.
OthersQuiet ==
  \A h \in Harts \ harts : Quiet(h) /\ status[h] # "HitBreakpoint"

\* The status of a hart ahead of the loop tells whether it executes.
Honest(h) ==
  /\ runner[h] \in {"start", "blocked"} => status[h] = "Runnable"
  /\ runner[h] = "yield" => status[h] # "HitBreakpoint"

AheadHonest == \A h \in harts : h > pos => Honest(h)

\* A hart that the loop has passed; it keeps the status that is restored if
\* it has terminated.
Settled(h) ==
  IF orig[h] = "Terminated"
  THEN status[h] = "Terminated" /\ runner[h] \in {"yield", "finish", "gone"}
  ELSE runner[h] \in {"idle", "finish", "gone"}

Passed(h) == h < pos \/ (h = pos /\ server = "collectWoken")

BehindSettled == \A h \in harts : Passed(h) => Settled(h)

\* The runner of a hart that has terminated ends.
IdleLives == \A h \in Harts : runner[h] = "idle" => status[h] # "Terminated"

LoopPlace ==
  /\ server \in {"idle", "walk", "dispatch"} => harts = {}
  /\ server \in {"any", "anyWoken"} => pos = 0
  /\ server = "collect" => pos # 0 /\ orig[pos] # "Terminated"

StopInv == OthersQuiet /\ AheadHonest /\ BehindSettled /\ IdleLives /\ LoopPlace

\* What a step of a runner does to its hart, in each of the three places that
\* the hart may be in.
LEMMA QuietStep ==
  ASSUME StubInv, NEW h \in Harts, Hart(h), Quiet(h)
  PROVE  /\ Quiet(h)'
         /\ status'[h] = status[h]
         /\ runner'[h] = "idle" => status[h] # "Terminated"
<1> USE DEF StubInv, HartsInv, Quiet
<1>1. ~ Executes(h) /\ runner[h] # "blocked"
  BY DEF Executes
<1>2. CASE LeavesRun(h)
  BY <1>2 DEF LeavesRun
<1>3. CASE Finishes(h)
  BY <1>3 DEF Finishes, RunnerDone
<1>4. CASE LeavesStep(h)
  BY <1>4 DEF LeavesStep, RunnerDone
<1> QED
  BY <1>1, <1>2, <1>3, <1>4 DEF Hart, Yields, Blocks, Unblocks, Hits, Exits

LEMMA HonestStep ==
  ASSUME StubInv, ~ EBREAKS, NEW h \in Harts, Hart(h), Honest(h)
  PROVE  Honest(h)'
<1> USE DEF StubInv, HartsInv, Honest
<1>1. CASE Yields(h)
  BY <1>1 DEF Yields, Executes
<1>2. CASE Blocks(h)
  BY <1>2 DEF Blocks, Executes
<1>3. CASE Unblocks(h)
  BY <1>3 DEF Unblocks
<1>4. CASE Hits(h)
  <2>1. runner'[h] \in {"finish", "idle", "gone"}
    BY <1>4 DEF Hits, RunnerDone
  <2> QED
    BY <2>1
<1>5. CASE Exits(h)
  BY <1>5 DEF Exits
<1>6. CASE LeavesRun(h)
  BY <1>6 DEF LeavesRun
<1>7. CASE Finishes(h)
  BY <1>7 DEF Finishes, RunnerDone
<1>8. CASE LeavesStep(h)
  BY <1>8 DEF LeavesStep, RunnerDone
<1> QED
  BY <1>1, <1>2, <1>3, <1>4, <1>5, <1>6, <1>7, <1>8 DEF Hart

\* A runner becomes idle only with a hart that has not terminated.
LEMMA IdleStep ==
  ASSUME StubInv, NEW h \in Harts, Hart(h)
  PROVE  runner'[h] = "idle" => status'[h] # "Terminated"
<1> USE DEF StubInv, HartsInv
<1>1. CASE Yields(h) \/ Blocks(h) \/ Unblocks(h) \/ Exits(h) \/ LeavesRun(h)
  BY <1>1 DEF Yields, Blocks, Unblocks, Exits, LeavesRun
<1>2. CASE Hits(h)
  BY <1>2 DEF Hits
<1>3. CASE Finishes(h) \/ LeavesStep(h)
  BY <1>3 DEF Finishes, LeavesStep, RunnerDone
<1> QED
  BY <1>1, <1>2, <1>3 DEF Hart

\* A runner that notifies has ended or waits.
LEMMA NotifyStep ==
  ASSUME StubInv, NEW h \in Harts, Hart(h)
  PROVE  \/ server' = server
         \/ Notify(h) /\ runner'[h] \in {"idle", "gone"}
<1> USE DEF StubInv, HartsInv
<1>1. CASE Hits(h)
  BY <1>1 DEF Hits, RunnerDone
<1>2. CASE Finishes(h) \/ LeavesStep(h)
  BY <1>2 DEF Finishes, LeavesStep, RunnerDone
<1> QED
  BY <1>1, <1>2 DEF Hart, Yields, Blocks, Unblocks, Exits, LeavesRun

\* Nothing else changes.
LEMMA HartFrame ==
  ASSUME StubInv, NEW h \in Harts, Hart(h)
  PROVE  /\ UNCHANGED <<harts, pos, orig>>
         /\ \A g \in Harts \ {h} :
              runner'[g] = runner[g] /\ status'[g] = status[g]
<1>1. UNCHANGED <<harts, pos, orig>>
  BY DEF vContVars, Hart, Yields, Blocks, Unblocks, Hits, Exits, LeavesRun,
         Finishes, LeavesStep
<1>2. \/ UNCHANGED status
      \/ \E s : status' = [status EXCEPT ![h] = s]
  BY DEF Hart, Yields, Blocks, Unblocks, Hits, Exits, LeavesRun, Finishes,
         LeavesStep
<1>3. \E r : runner' = [runner EXCEPT ![h] = r]
  BY DEF Hart, Yields, Blocks, Unblocks, Hits, Exits, LeavesRun, Finishes,
         LeavesStep
<1> QED
  BY <1>1, <1>2, <1>3 DEF StubInv, HartsInv

LEMMA HartStops ==
  ASSUME StubInv, StopInv, ~ EBREAKS, NEW h \in Harts, Hart(h)
  PROVE  StopInv'
<1>1. /\ harts' = harts /\ pos' = pos /\ orig' = orig
      /\ \A g \in Harts \ {h} :
           runner'[g] = runner[g] /\ status'[g] = status[g]
  BY HartFrame
<1>2. harts \subseteq Harts /\ pos \in Nat /\ harts \subseteq Nat
  BY HartNumbers DEF StubInv, VContInv
<1>3. OthersQuiet'
  <2> SUFFICES ASSUME NEW g \in Harts \ harts
               PROVE  Quiet(g)' /\ status'[g] # "HitBreakpoint"
    BY <1>1 DEF OthersQuiet
  <2>1. Quiet(g) /\ status[g] # "HitBreakpoint"
    BY DEF StopInv, OthersQuiet
  <2>2. CASE g = h
    BY <2>1, <2>2, QuietStep
  <2>3. CASE g # h
    BY <1>1, <2>1, <2>3 DEF Quiet
  <2> QED
    BY <2>2, <2>3
<1>4. AheadHonest'
  <2> SUFFICES ASSUME NEW g \in harts, g > pos PROVE Honest(g)'
    BY <1>1 DEF AheadHonest
  <2>1. Honest(g)
    BY DEF StopInv, AheadHonest
  <2>2. CASE g = h
    BY <2>1, <2>2, HonestStep
  <2>3. CASE g # h
    BY <1>1, <1>2, <2>1, <2>3 DEF Honest
  <2> QED
    BY <2>2, <2>3
<1>5. BehindSettled'
  <2> SUFFICES ASSUME NEW g \in harts, Passed(g)' PROVE Settled(g)'
    BY <1>1 DEF BehindSettled
  <2>1. CASE Passed(g)
    <3>1. Settled(g)
      BY <2>1 DEF StopInv, BehindSettled
    <3>2. CASE g = h
      <4>1. Quiet(g)
        BY <3>1 DEF Settled, Quiet
      <4>2. /\ Quiet(g)' /\ status'[g] = status[g]
            /\ runner'[g] = "idle" => status[g] # "Terminated"
        BY <3>2, <4>1, QuietStep
      <4>3. CASE orig[g] = "Terminated"
        BY <1>1, <3>1, <4>2, <4>3 DEF Settled, Quiet
      <4>4. CASE orig[g] # "Terminated"
        <5>1. runner[g] \in {"idle", "finish", "gone"}
          BY <3>1, <4>4 DEF Settled
        <5>2. runner'[g] \in {"idle", "finish", "gone"}
          BY <3>2, <5>1
             DEF Hart, Yields, Blocks, Unblocks, Hits, Exits, LeavesRun,
                 Finishes, LeavesStep, Executes, RunnerDone, StubInv, HartsInv
        <5> QED
          BY <1>1, <4>4, <5>2 DEF Settled
      <4> QED
        BY <4>3, <4>4
    <3>3. CASE g # h
      BY <1>1, <1>2, <3>1, <3>3 DEF Settled
    <3> QED
      BY <3>2, <3>3
  <2>2. CASE ~ Passed(g)
    <3>1. g = pos /\ server # "collectWoken" /\ server' = "collectWoken"
      BY <1>1, <1>2, <2>2 DEF Passed
    <3>2. server = "collect" /\ pos = h /\ runner'[h] \in {"idle", "gone"}
      BY <3>1, NotifyStep DEF Notify
    <3>3. orig[pos] # "Terminated"
      BY <3>2 DEF StopInv, LoopPlace
    <3> QED
      BY <1>1, <3>1, <3>2, <3>3 DEF Settled
  <2> QED
    BY <2>1, <2>2
<1>6. IdleLives'
  <2> SUFFICES ASSUME NEW g \in Harts, runner'[g] = "idle"
               PROVE  status'[g] # "Terminated"
    BY DEF IdleLives
  <2>1. CASE g = h
    BY <2>1, IdleStep
  <2>2. CASE g # h
    BY <1>1, <2>2 DEF StopInv, IdleLives
  <2> QED
    BY <2>1, <2>2
<1>7. LoopPlace'
  BY <1>1, NotifyStep DEF Notify, StopInv, LoopPlace
<1> QED
  BY <1>3, <1>4, <1>5, <1>6, <1>7 DEF StopInv

\* The harts that run_threads starts are idle and runnable.
LEMMA RunThreadsStops ==
  ASSUME StubInv, StopInv, RunThreads
  PROVE  StopInv'
<1>1. /\ harts' = Selected /\ pos' = 0 /\ server' = "any"
      /\ UNCHANGED status /\ server = "dispatch"
      /\ runner' = [h \in Harts |->
           IF runner[h] = "idle" /\ h \in Selected THEN "start" ELSE runner[h]]
  BY DEF RunThreads
<1>2. \A h \in Harts : Quiet(h) /\ status[h] # "HitBreakpoint"
  BY <1>1 DEF StopInv, OthersQuiet, LoopPlace
<1>3. \A h \in Harts : runner[h] = "idle" => status[h] = "Runnable"
  BY <1>2 DEF StopInv, IdleLives, StubInv, HartsInv, Statuses
<1>4. Selected \subseteq Harts
  BY SelectedType DEF RunThreads, StubInv
<1>5. OthersQuiet'
  BY <1>1, <1>2, <1>4 DEF OthersQuiet, Quiet
<1>6. AheadHonest'
  <2> SUFFICES ASSUME NEW h \in Selected PROVE Honest(h)'
    BY <1>1 DEF AheadHonest
  <2>1. h \in Harts
    BY <1>4
  <2>2. CASE runner[h] = "idle"
    BY <1>1, <1>3, <2>1, <2>2 DEF Honest
  <2>3. CASE runner[h] # "idle"
    BY <1>1, <1>2, <2>1, <2>3 DEF Honest, Quiet
  <2> QED
    BY <2>2, <2>3
<1>7. BehindSettled'
  <2> SUFFICES ASSUME NEW h \in Selected PROVE ~ Passed(h)'
    BY <1>1 DEF BehindSettled
  <2>1. h \in Nat /\ h > 0
    BY <1>4, HartNumbers
  <2> QED
    BY <1>1, <2>1 DEF Passed
<1>8. IdleLives'
  BY <1>1 DEF IdleLives, StopInv
<1>9. LoopPlace'
  BY <1>1 DEF LoopPlace
<1> QED
  BY <1>5, <1>6, <1>7, <1>8, <1>9 DEF StopInv

\* A hart ahead of the loop that is not runnable is settled when it is passed.
LEMMA HonestSettles ==
  ASSUME StubInv, StopInv, NEW h \in harts, h > pos, status[h] # "Runnable"
  PROVE  IF status[h] = "Terminated"
         THEN runner[h] \in {"yield", "finish", "gone"}
         ELSE runner[h] \in {"idle", "finish", "gone"}
<1>1. h \in Harts /\ Honest(h)
  BY DEF StopInv, AheadHonest, StubInv, VContInv
<1>2. runner[h] = "idle" => status[h] # "Terminated"
  BY <1>1 DEF StopInv, IdleLives
<1>3. runner[h] \in Runners /\ status[h] \in Statuses
  BY <1>1 DEF StubInv, HartsInv
<1> QED
  BY <1>1, <1>2, <1>3 DEF Honest, Runners, Statuses

\* The loop has passed every hart up to pos when it goes on.
LEMMA WokenPassed ==
  ASSUME StubInv, StopInv, server \in {"anyWoken", "collectWoken"},
         NEW h \in harts, h <= pos
  PROVE  Settled(h)
<1>1. h \in Nat /\ h > 0 /\ pos \in Nat
  BY HartNumbers DEF StubInv, VContInv
<1>2. server = "collectWoken"
  BY <1>1 DEF StopInv, LoopPlace
<1>3. Passed(h)
  BY <1>1, <1>2 DEF Passed
<1> QED
  BY <1>3 DEF StopInv, BehindSettled

LEMMA StopNextStops ==
  ASSUME StubInv, StopInv, StopNext
  PROVE  StopInv'
<1> DEFINE j == Min(RunnableLeft)
<1>1. /\ server \in {"anyWoken", "collectWoken"} /\ RunnableLeft # {}
      /\ pos' = j /\ orig' = Looked(j) /\ server' = "collect"
      /\ status' = [status EXCEPT ![j] = "HitBreakpoint"]
      /\ UNCHANGED <<harts, runner>>
  BY DEF StopNext
<1>2. j \in RunnableLeft /\ \A h \in RunnableLeft : j <= h
  BY <1>1, NextStop DEF StubInv
<1> HIDE DEF j
<1>3. j \in harts /\ j > pos /\ status[j] = "Runnable"
  BY <1>2 DEF RunnableLeft
<1>4. /\ harts \subseteq Harts /\ harts \subseteq Nat /\ pos \in Nat
      /\ j \in Nat /\ j # 0 /\ j \in Harts
  BY <1>3, HartNumbers DEF StubInv, VContInv
<1>5. \A h \in Harts : h # j => status'[h] = status[h]
  BY <1>1 DEF StubInv, HartsInv
<1>6. OthersQuiet'
  BY <1>1, <1>3, <1>5 DEF OthersQuiet, Quiet, StopInv
<1>7. AheadHonest'
  <2> SUFFICES ASSUME NEW h \in harts, h > j PROVE Honest(h)'
    BY <1>1 DEF AheadHonest
  <2>1. h # j /\ h > pos
    BY <1>3, <1>4
  <2>2. Honest(h)
    BY <2>1 DEF StopInv, AheadHonest
  <2> QED
    BY <1>1, <1>4, <1>5, <2>1, <2>2 DEF Honest
<1>8. BehindSettled'
  <2> SUFFICES ASSUME NEW h \in harts, h < j PROVE Settled(h)'
    BY <1>1 DEF BehindSettled, Passed
  <2>1. h # j /\ h <= j /\ h \in Nat /\ h \in Harts
    BY <1>4
  <2>2. orig'[h] = IF h <= pos THEN orig[h] ELSE status[h]
    BY <1>1, <2>1 DEF Looked
  <2>3. status'[h] = status[h] /\ runner'[h] = runner[h]
    BY <1>1, <1>5, <2>1
  <2>4. CASE h <= pos
    BY <1>1, <2>2, <2>3, <2>4, WokenPassed DEF Settled
  <2>5. CASE ~ (h <= pos)
    <3>1. h > pos
      BY <1>4, <2>5
    <3>2. status[h] # "Runnable"
      BY <1>2, <1>4, <3>1 DEF RunnableLeft
    <3> QED
      BY <2>2, <2>3, <2>5, <3>1, <3>2, HonestSettles DEF Settled
  <2> QED
    BY <2>4, <2>5
<1>9. IdleLives'
  BY <1>1, <1>5 DEF StopInv, IdleLives, StubInv, HartsInv
<1>10. LoopPlace'
  <2>1. orig'[j] = "Runnable"
    BY <1>1, <1>3, <1>4 DEF Looked
  <2> QED
    BY <1>1, <1>4, <2>1 DEF LoopPlace
<1> QED
  BY <1>6, <1>7, <1>8, <1>9, <1>10 DEF StopInv

\* The statuses restored leave no hart executing.
LEMMA AllStoppedStops ==
  ASSUME StubInv, StopInv, AllStopped
  PROVE  StopInv'
<1>1. /\ server \in {"anyWoken", "collectWoken"} /\ RunnableLeft = {}
      /\ harts' = {} /\ server' = "dispatch" /\ runner' = runner
      /\ status' = [h \in Harts |->
           IF h \notin harts THEN status[h]
           ELSE IF Looked(N)[h] = "HitBreakpoint" THEN "Runnable"
           ELSE Looked(N)[h]]
  BY DEF AllStopped
<1>2. harts \subseteq Harts /\ pos \in Nat
  BY HartNumbers DEF StubInv, VContInv
<1>3. ASSUME NEW h \in Harts
      PROVE  /\ Quiet(h)' /\ status'[h] # "HitBreakpoint"
             /\ runner'[h] = "idle" => status'[h] # "Terminated"
  <2>1. CASE h \notin harts
    <3>1. Quiet(h) /\ status[h] # "HitBreakpoint"
      BY <2>1 DEF StopInv, OthersQuiet
    <3>2. status'[h] = status[h] /\ runner'[h] = runner[h]
      BY <1>1, <2>1
    <3> QED
      BY <3>1, <3>2 DEF Quiet, StopInv, IdleLives
  <2>2. CASE h \in harts
    <3> DEFINE was == Looked(N)[h]
    <3>1. was = IF h <= pos THEN orig[h] ELSE status[h]
      BY <2>2, HartNumbers DEF Looked
    <3>2. IF was = "Terminated"
          THEN runner[h] \in {"yield", "finish", "gone"}
          ELSE runner[h] \in {"idle", "finish", "gone"}
      <4>1. CASE h <= pos
        BY <1>1, <2>2, <3>1, <4>1, WokenPassed DEF Settled
      <4>2. CASE ~ (h <= pos)
        <5>1. h > pos
          BY <1>2, <4>2, HartNumbers
        <5>2. status[h] # "Runnable"
          BY <1>1, <2>2, <5>1 DEF RunnableLeft
        <5> QED
          BY <2>2, <3>1, <4>2, <5>1, <5>2, HonestSettles
      <4> QED
        BY <4>1, <4>2
    <3>3. status'[h] = IF was = "HitBreakpoint" THEN "Runnable" ELSE was
      BY <1>1, <2>2
    <3> HIDE DEF was
    <3> QED
      BY <1>1, <3>2, <3>3 DEF Quiet
  <2> QED
    BY <2>1, <2>2
<1> QED
  BY <1>1, <1>3
     DEF StopInv, OthersQuiet, AheadHonest, BehindSettled, IdleLives, LoopPlace

LEMMA StopInvariant ==
  ASSUME ~ EBREAKS
  PROVE  Spec => []StopInv
<1>1. Init => StopInv
  BY DEF Init, StopInv, OthersQuiet, Quiet, AheadHonest, BehindSettled,
         IdleLives, LoopPlace
<1>2. StopInv /\ StubInv /\ [Next]_vars => StopInv'
  <2> SUFFICES ASSUME StopInv, StubInv, [Next]_vars PROVE StopInv'
    OBVIOUS
  <2> DEFINE Kept == /\ UNCHANGED <<harts, pos, orig, status, runner>>
                     /\ \/ server' = server
                        \/ {server, server'} \subseteq {"idle", "walk", "dispatch"}
  <2>1. Kept => StopInv'
    <3> SUFFICES ASSUME Kept PROVE StopInv'
      OBVIOUS
    <3>1. OthersQuiet' /\ AheadHonest' /\ IdleLives'
      BY DEF StopInv, OthersQuiet, Quiet, AheadHonest, Honest, IdleLives
    <3>2. BehindSettled' /\ LoopPlace'
      BY DEF StopInv, BehindSettled, Passed, Settled, LoopPlace
    <3> QED
      BY <3>1, <3>2 DEF StopInv
  <2>2. UNCHANGED vars => Kept
    BY DEF vars, vContVars, hartVars
  <2>3. (\E c \in Commands : SendCommand(c)) \/ Disconnect => Kept
    BY DEF SendCommand, Disconnect, vContVars, hartVars
  <2>4. Accept \/ Lock \/ ParsePkt \/ ParseEof => Kept
    BY DEF Accept, Lock, ParsePkt, ParseEof, vContVars, hartVars
  <2>5. TakeAck \/ Answer \/ WalkTables \/ AnswerMemory \/ SetThread \/ VCont => Kept
    BY DEF TakeAck, Answer, WalkTables, AnswerMemory, SetThread, VCont, Woken, Done,
           vContVars, hartVars
  <2>6. NothingToRun \/ NoSuchThread \/ StopReply => Kept
    BY DEF NothingToRun, NoSuchThread, StopReply, Return, Done, hartVars
  <2> HIDE DEF Kept
  <2>7. CASE Server
    BY <2>1, <2>5, <2>6, <2>7, RunThreadsStops, StopNextStops, AllStoppedStops
       DEF Server
  <2> QED
    BY <2>1, <2>2, <2>3, <2>4, <2>7, HartStops DEF Next
<1> QED
  BY <1>1, <1>2, StubInvariant, PTL DEF Spec

-----------------------------------------------------------------------------
\* A hart that counts as halted in the loop, and one whose runner ended though
\* it is runnable: the loop never gets behind it.
WasHalted(h) == IF h <= pos THEN orig[h] # "Runnable" ELSE status[h] # "Runnable"

Ended(h) == runner[h] \in {"idle", "gone"}

Missed(h) ==
  \/ h > pos /\ status[h] = "Runnable" /\ Ended(h)
  \/ h = pos /\ server = "collect" /\ Ended(h)

ReportInv ==
  /\ stopped = 0 => matched = {} /\ (server = "dispatch" => todo # NoActions)
  /\ server \in {"anyWoken", "collect", "collectWoken"} =>
       \E h \in harts : WasHalted(h) \/ Missed(h)

\* A runner steps only while it has not ended, and a hart that stopped or
\* terminated does not become runnable by itself.
LEMMA RunnerStep ==
  ASSUME StubInv, NEW h \in Harts, Hart(h)
  PROVE  ~ Ended(h) /\ (status[h] # "Runnable" => status'[h] # "Runnable")
<1> USE DEF StubInv, HartsInv, Ended
<1>1. CASE Yields(h) \/ Blocks(h) \/ Unblocks(h) \/ LeavesRun(h) \/ Finishes(h)
  BY <1>1 DEF Yields, Blocks, Unblocks, LeavesRun, Finishes, Executes
<1>2. CASE Hits(h) \/ Exits(h) \/ LeavesStep(h)
  BY <1>2 DEF Hits, Exits, LeavesStep, Executes
<1> QED
  BY <1>1, <1>2 DEF Hart

LEMMA HartReports ==
  ASSUME StubInv, LoopPlace, ReportInv, NEW h \in Harts, Hart(h)
  PROVE  ReportInv'
<1>1. /\ UNCHANGED <<harts, pos, orig, stopped, matched, todo>>
      /\ \A g \in Harts \ {h} : runner'[g] = runner[g] /\ status'[g] = status[g]
  <2>1. UNCHANGED <<stopped, matched, todo>>
    BY DEF Hart, Yields, Blocks, Unblocks, Hits, Exits, LeavesRun, Finishes, LeavesStep, vContVars
  <2> QED
    BY <2>1, HartFrame
<1>2. ~ Ended(h) /\ (status[h] # "Runnable" => status'[h] # "Runnable")
  BY RunnerStep
<1>3. harts \subseteq Harts /\ pos \in Nat /\ \A g \in harts : g \in Nat /\ g > 0
  BY HartNumbers DEF StubInv, VContInv
<1>4. (stopped = 0 => matched = {} /\ (server = "dispatch" => todo # NoActions))'
  BY <1>1, NotifyStep DEF ReportInv, Notify
<1>5. ASSUME server' \in {"anyWoken", "collect", "collectWoken"}
      PROVE  \E g \in harts : WasHalted(g)' \/ Missed(g)'
  <2>1. CASE server = "any"
    <3>1. Notify(h) /\ runner'[h] \in {"idle", "gone"} /\ h \in harts
      BY <1>5, <2>1, NotifyStep DEF Notify
    <3>2. h > pos /\ ~ (h <= pos)
      BY <1>3, <2>1, <3>1 DEF LoopPlace
    <3>3. WasHalted(h)' \/ Missed(h)'
      BY <1>1, <3>1, <3>2 DEF WasHalted, Missed, Ended
    <3> QED
      BY <3>1, <3>3
  <2>2. CASE server # "any"
    <3>1. server \in {"anyWoken", "collect", "collectWoken"}
      BY <1>5, <2>2, NotifyStep DEF Notify
    <3>2. PICK g \in harts : WasHalted(g) \/ Missed(g)
      BY <3>1 DEF ReportInv
    <3>3. CASE WasHalted(g)
      <4>1. WasHalted(g)'
        BY <1>1, <1>2, <1>3, <3>3 DEF WasHalted
      <4> QED
        BY <4>1
    <3>4. CASE Missed(g)
      <4>1. g # h /\ g \in Harts
        BY <1>2, <1>3, <3>4 DEF Missed
      <4>2. runner'[g] = runner[g] /\ status'[g] = status[g]
        BY <1>1, <4>1
      <4>3. g = pos /\ server = "collect" => server' = "collect"
        BY <4>1, NotifyStep DEF Notify
      <4> QED
        BY <1>1, <3>4, <4>2, <4>3 DEF Missed, Ended
    <3> QED
      BY <3>2, <3>3, <3>4
  <2> QED
    BY <2>1, <2>2
<1> QED
  BY <1>1, <1>4, <1>5 DEF ReportInv

LEMMA StopNextReports ==
  ASSUME StubInv, LoopPlace, ReportInv, StopNext
  PROVE  ReportInv'
<1> DEFINE j == Min(RunnableLeft)
<1>1. /\ server \in {"anyWoken", "collectWoken"} /\ RunnableLeft # {}
      /\ pos' = j /\ orig' = Looked(j) /\ server' = "collect"
      /\ status' = [status EXCEPT ![j] = "HitBreakpoint"]
      /\ UNCHANGED <<harts, runner, stopped, matched, todo>>
  BY DEF StopNext
<1>2. j \in RunnableLeft /\ \A h \in RunnableLeft : j <= h
  BY <1>1, NextStop DEF StubInv
<1> HIDE DEF j
<1>3. /\ j \in harts /\ j > pos /\ harts \subseteq Harts /\ harts \subseteq Nat
      /\ pos \in Nat /\ j \in Nat
  BY <1>2, HartNumbers DEF RunnableLeft, StubInv, VContInv
<1>4. PICK h \in harts : WasHalted(h) \/ Missed(h)
  BY <1>1 DEF ReportInv
<1>5. h \in Nat /\ h \in Harts
  BY <1>3
<1>6. CASE WasHalted(h)
  <2>1. CASE h <= j
    <3>1. orig'[h] = IF h <= pos THEN orig[h] ELSE status[h]
      BY <1>1, <2>1 DEF Looked
    <3>2. WasHalted(h)'
      BY <1>1, <1>6, <2>1, <3>1 DEF WasHalted
    <3> QED
      BY <1>1, <3>2 DEF ReportInv
  <2>2. CASE ~ (h <= j)
    <3>1. h # j /\ ~ (h <= pos)
      BY <1>3, <1>5, <2>2
    <3>2. status'[h] = status[h]
      BY <1>1, <1>5, <3>1 DEF StubInv, HartsInv
    <3>3. WasHalted(h)'
      BY <1>1, <1>6, <2>2, <3>1, <3>2 DEF WasHalted
    <3> QED
      BY <1>1, <3>3 DEF ReportInv
  <2> QED
    BY <2>1, <2>2
<1>7. CASE Missed(h)
  <2>1. h > pos /\ status[h] = "Runnable" /\ Ended(h)
    BY <1>1, <1>7 DEF Missed
  <2>2. j <= h
    BY <1>2, <2>1 DEF RunnableLeft
  <2>3. Missed(h)'
    <3>1. CASE h = j
      BY <1>1, <2>1, <3>1 DEF Missed, Ended
    <3>2. CASE h # j
      <4>1. h > j /\ status'[h] = status[h]
        BY <1>1, <1>3, <1>5, <2>2, <3>2 DEF StubInv, HartsInv
      <4> QED
        BY <1>1, <2>1, <4>1 DEF Missed, Ended
    <3> QED
      BY <3>1, <3>2
  <2> QED
    BY <1>1, <2>3 DEF ReportInv
<1> QED
  BY <1>4, <1>6, <1>7

LEMMA AllStoppedReports ==
  ASSUME StubInv, ReportInv, AllStopped
  PROVE  ReportInv'
<1>1. /\ server \in {"anyWoken", "collectWoken"} /\ RunnableLeft = {}
      /\ stopped' = IF Halted(Looked(N)) = {} THEN stopped ELSE Max(Halted(Looked(N)))
      /\ server' = "dispatch"
  BY DEF AllStopped
<1>2. PICK h \in harts : WasHalted(h) \/ Missed(h)
  BY <1>1 DEF ReportInv
<1>3. h \in Harts /\ h <= N
  BY HartNumbers DEF StubInv, VContInv
<1>4. WasHalted(h)
  BY <1>1, <1>2 DEF Missed, RunnableLeft
<1>5. Looked(N)[h] = IF h <= pos THEN orig[h] ELSE status[h]
  BY <1>3 DEF Looked
<1>6. h \in Halted(Looked(N))
  BY <1>4, <1>5 DEF Halted, WasHalted
<1>7. Halted(Looked(N)) \subseteq Harts
  BY DEF Halted, StubInv, VContInv
<1>8. stopped' \in Harts
  BY <1>1, <1>6, <1>7, MaxIsMember
<1> QED
  BY <1>1, <1>8, HartNumbers DEF ReportInv

\* The server's other steps.
LEMMA ServerReports ==
  ASSUME StubInv, ReportInv, Server, ~ StopNext, ~ AllStopped
  PROVE  ReportInv'
<1>1. CASE TakeAck \/ Answer \/ WalkTables \/ AnswerMemory \/ SetThread
  <2>1. UNCHANGED vContVars /\ server' \in {"idle", "walk"}
    BY <1>1 DEF TakeAck, Answer, WalkTables, AnswerMemory, SetThread, Done
  <2> QED
    BY <2>1 DEF ReportInv, vContVars
<1>2. CASE VCont
  <2>1. Head(pktq) \in Commands \union {ACK} /\ Head(pktq).kind = "vCont"
    BY <1>2, SeqTypes DEF VCont, Woken, StubInv, QueueInv
  <2>2. todo' # NoActions
    BY <1>2, <2>1, PacketType DEF VCont
  <2> QED
    BY <1>2, <2>2 DEF VCont, ReportInv
<1>3. CASE RunThreads
  BY <1>3 DEF RunThreads, ReportInv
<1>4. CASE NothingToRun
  <2>1. matched # {}
    <3>1. GetThreads(Head(todo).tid) # {}
      BY HartNumbers DEF GetThreads
    <3> QED
      BY <1>4, <3>1 DEF NothingToRun, Selected
  <2>2. stopped' # 0 /\ server' = "dispatch"
    BY <1>4, <2>1 DEF NothingToRun, ReportInv
  <2> QED
    BY <2>2 DEF ReportInv
<1>5. CASE NoSuchThread \/ StopReply
  BY <1>5 DEF NoSuchThread, StopReply, Return, Done, ReportInv
<1> QED
  BY <1>1, <1>2, <1>3, <1>4, <1>5 DEF Server

LEMMA ReportInvariant ==
  ASSUME ~ EBREAKS
  PROVE  Spec => []ReportInv
<1>1. Init => ReportInv
  BY DEF Init, ReportInv
<1>2. ReportInv /\ StubInv /\ StopInv /\ [Next]_vars => ReportInv'
  <2> SUFFICES ASSUME ReportInv, StubInv, StopInv, [Next]_vars PROVE ReportInv'
    OBVIOUS
  <2>1. LoopPlace
    BY DEF StopInv
  <2>2. UNCHANGED <<vContVars, server, hartVars>> => ReportInv'
    BY DEF ReportInv, WasHalted, Missed, Ended, vContVars, hartVars
  <2>3. (\E c \in Commands : SendCommand(c)) \/ Disconnect \/ Accept \/ Lock \/ ParsePkt
        \/ ParseEof => UNCHANGED <<vContVars, server, hartVars>>
    BY DEF SendCommand, Disconnect, Accept, Lock, ParsePkt, ParseEof
  <2>4. UNCHANGED vars => UNCHANGED <<vContVars, server, hartVars>>
    BY DEF vars
  <2>5. CASE Server
    BY <2>1, <2>5, StopNextReports, AllStoppedReports, ServerReports
  <2> QED
    BY <2>1, <2>2, <2>3, <2>4, <2>5, HartReports DEF Next
<1> QED
  BY <1>1, <1>2, StubInvariant, StopInvariant, PTL DEF Spec

\* "This handler attempts to implement the all-stop mode": for any number of
\* harts and any commands, when the server looks at a packet or reads memory no
\* hart executes, and vCont's assertion holds: it has a hart to report;
\* provided that the program has no EBREAK.  (An EBREAK marks its hart as
\* stopped before the instruction ends; with it the property is false.)
THEOREM AllStopWithoutEbreak ==
  ASSUME ~ EBREAKS
  PROVE  Spec => []AllStop
<1>1. StopInv /\ StubInv /\ ReportInv => AllStop
  BY DEF StopInv, OthersQuiet, LoopPlace, Quiet, StubInv, VContInv, ReportInv, AllStop
<1> QED
  BY <1>1, StopInvariant, StubInvariant, ReportInvariant, PTL

=============================================================================
