----------------------------- MODULE RealClint -----------------------------
(***************************************************************************)
(* The CLINT of host time (core/common/real_clint.cpp) and its timers      *)
(* (timer.cpp): one host thread per hart sleeps until the compare value    *)
(* and notifies an asynchronous event; the simulation then compares every  *)
(* hart's value with the time.  A timer is one shot: nothing restarts it.  *)
(***************************************************************************)
EXTENDS Integers

CONSTANTS
  RcHarts,
  RcDividend,          \* DIVIDEND, microseconds per tick
  RcCompares,          \* values written to mtimecmp
  RcMaxUsec            \* bound on host time

ASSUME RcAssumption ==
  /\ RcDividend \in Nat \ {0} /\ RcMaxUsec \in Nat
  /\ RcCompares \subseteq Nat

VARIABLES
  hostNow,         \* microseconds since first_mtime
  rcCmp,           \* mtimecmp
  rcLine,          \* timer interrupt of each hart
  rcSoft,          \* software interrupts of each hart and level
  rcTimer,         \* the timer thread: "none", "sleep", "done"
  rcExpiry,        \* earliest time its sleep may end
  rcEvent,         \* the asynchronous event is requested
  rcSet            \* history: harts that wrote their mtimecmp

rcVars == <<hostNow, rcCmp, rcLine, rcSoft, rcTimer, rcExpiry, rcEvent, rcSet>>

RcInit ==
  /\ hostNow = 0
  /\ rcCmp = [h \in RcHarts |-> 0]
  /\ rcLine = [h \in RcHarts |-> FALSE]
  /\ rcSoft = [t \in RcHarts \X {"M", "S"} |-> FALSE]
  /\ rcTimer = [h \in RcHarts |-> "none"]
  /\ rcExpiry = [h \in RcHarts |-> 0]
  /\ rcEvent = FALSE
  /\ rcSet = {}

-----------------------------------------------------------------------------

UsecToTicks(us) == us \div RcDividend
TicksToUsec(ticks) == ticks * RcDividend

RcTick ==
  /\ hostNow < RcMaxUsec
  /\ hostNow' = hostNow + 1
  /\ UNCHANGED <<rcCmp, rcLine, rcSoft, rcTimer, rcExpiry, rcEvent, rcSet>>

\* Timer::callback: a sleep lasts at least its duration; then the event.
RcTimerDone(h) ==
  /\ rcTimer[h] = "sleep" /\ hostNow >= rcExpiry[h]
  /\ rcTimer' = [rcTimer EXCEPT ![h] = "done"]
  /\ rcEvent' = TRUE
  /\ UNCHANGED <<hostNow, rcCmp, rcLine, rcSoft, rcExpiry, rcSet>>

\* Timer::pause: cancelled while it sleeps; a thread past its sleep still
\* notifies before it is joined.
RcPause(h) ==
  IF rcTimer[h] = "sleep" /\ hostNow >= rcExpiry[h]
  THEN rcEvent' \in {rcEvent, TRUE}
  ELSE UNCHANGED rcEvent

\* post_write_mtimecmp
RcWriteMtimecmp(h, c) ==
  /\ rcCmp' = [rcCmp EXCEPT ![h] = c]
  /\ rcSet' = rcSet \union {h}
  /\ RcPause(h)
  /\ rcLine' = [rcLine EXCEPT ![h] = UsecToTicks(hostNow) >= c]
  /\ IF rcLine'[h]
     THEN /\ rcTimer' = [rcTimer EXCEPT ![h] = "none"]
          /\ UNCHANGED rcExpiry
     ELSE /\ rcTimer' = [rcTimer EXCEPT ![h] = "sleep"]
          /\ rcExpiry' = [rcExpiry EXCEPT ![h] =
               hostNow + TicksToUsec(c - UsecToTicks(hostNow))]
  /\ UNCHANGED <<hostNow, rcSoft>>

\* post_write_msip and post_write_ssip
RcWriteSip(t, v) ==
  /\ rcSoft' = [rcSoft EXCEPT ![t] = v % 2 # 0]
  /\ UNCHANGED <<hostNow, rcCmp, rcLine, rcTimer, rcExpiry, rcEvent, rcSet>>

\* An interrupt that trusts the timer that fired.
RcInterruptTrusts ==
  /\ rcEvent
  /\ rcEvent' = FALSE
  /\ rcLine' = [h \in RcHarts |-> TRUE]
  /\ UNCHANGED <<hostNow, rcCmp, rcSoft, rcTimer, rcExpiry, rcSet>>

\* interrupt: raises, never lowers, and looks at every hart.
RcInterrupt ==
  /\ rcEvent
  /\ rcEvent' = FALSE
  /\ rcLine' = [h \in RcHarts |-> rcLine[h] \/ UsecToTicks(hostNow) >= rcCmp[h]]
  /\ UNCHANGED <<hostNow, rcCmp, rcSoft, rcTimer, rcExpiry, rcSet>>

RcStep ==
  \/ RcTick
  \/ \E h \in RcHarts : RcTimerDone(h)
  \/ \E h \in RcHarts, c \in RcCompares : RcWriteMtimecmp(h, c)
  \/ \E t \in RcHarts \X {"M", "S"}, v \in 0 .. 3 : RcWriteSip(t, v)
  \/ RcInterrupt

RcSpec == RcInit /\ [][RcStep]_rcVars

-----------------------------------------------------------------------------

\* Compare values rewritten while a timer fires, events that come late, and
\* the rounding between microseconds and ticks neither raise an interrupt
\* before its time nor lose one: a line is high only past the current compare
\* value, and while it is low its timer sleeps to a time that is not before
\* that value, or the event is on its way and will find the value reached.
RcOneShotSuffices ==
  \A h \in RcHarts :
    /\ rcLine[h] => UsecToTicks(hostNow) >= rcCmp[h]
    /\ h \in rcSet /\ ~rcLine[h] =>
         \/ rcTimer[h] = "sleep" /\ UsecToTicks(rcExpiry[h]) >= rcCmp[h]
         \/ rcEvent /\ UsecToTicks(hostNow) >= rcCmp[h]
=============================================================================
