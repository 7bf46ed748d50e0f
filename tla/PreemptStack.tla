----------------------------- MODULE PreemptStack -----------------------------
(***************************************************************************)
(* What the nested vectored mode of an interrupt file promises: interrupts *)
(* nest like calls.  `stack' holds the levels of the handlers entered and  *)
(* not yet completed, innermost last; a handler is entered only above the  *)
(* level in force, and completing it puts the previous level, or the tail  *)
(* when no handler is left, back in force.                                 *)
(***************************************************************************)
EXTENDS Integers, Sequences

CONSTANTS Levels,   \* levels a handler runs at; smaller is more urgent
          Tails     \* thresholds software may set below all of them

VARIABLES stack, tail

svars == <<stack, tail>>

NoThreshold == 0

InForce == IF stack = <<>> THEN tail ELSE stack[Len(stack)]

Init == stack = <<>> /\ tail = NoThreshold

Preempt(level) ==
  /\ InForce # NoThreshold => level < InForce
  /\ stack' = Append(stack, level)
  /\ UNCHANGED tail

Complete ==
  /\ stack # <<>>
  /\ stack' = SubSeq(stack, 1, Len(stack) - 1)
  /\ UNCHANGED tail

SetTail(value) == tail' = value /\ UNCHANGED stack

Next ==
  \/ \E level \in Levels : Preempt(level)
  \/ Complete
  \/ \E value \in Tails : SetTail(value)

Spec == Init /\ [][Next]_svars
=============================================================================
