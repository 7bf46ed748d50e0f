----------------------------- MODULE MCGdbServer -----------------------------
(***************************************************************************)
(* Commands for the model of the GDB stub: continue all harts,             *)
(* step one while the others continue, an action for an unknown thread, a  *)
(* query and an access to memory.                                          *)
(***************************************************************************)
EXTENDS GdbServer

Action(step, tid) == [step |-> step, tid |-> tid]
VContOf(actions) == [kind |-> "vCont", actions |-> actions]

ContinueAll == VContOf(<<Action(FALSE, GDB_THREAD_ALL)>>)
StepOne == VContOf(<<Action(TRUE, 1), Action(FALSE, GDB_THREAD_ALL),
                     Action(FALSE, 1)>>)
Unknown == VContOf(<<Action(FALSE, N + 1)>>)

SelectOne == [kind |-> "H", actions |-> <<Action(FALSE, 1)>>]
Query == [kind |-> "query", actions |-> NoActions]
Memory == [kind |-> "memory", actions |-> NoActions]

MCCommands == {ContinueAll, StepOne, Unknown, SelectOne, Query, Memory}
=============================================================================
