------------------------------- MODULE Clint -------------------------------
(***************************************************************************)
(* The CLINT of simulated time (core/common/clint.h): mtime, a compare     *)
(* value for the timer of every hart and level, and software interrupts.   *)
(* One sc_event serves all timers: it keeps only the earliest              *)
(* notification, and the thread it wakes computes everything anew.         *)
(*                                                                         *)
(* Simulation time counts in parts of a tick of mtime (the scaler).        *)
(* Harts run ahead of simulation time by up to a quantum, so a bus access  *)
(* carries a delay: a read of mtime may store a later time, or set back    *)
(* what another hart's read stored.  A CSR write has no delay.             *)
(***************************************************************************)
EXTENDS Integers, FiniteSets

CONSTANTS
  ClintHarts,
  ClintScaler,         \* parts of a tick
  ClintQuantum,        \* greatest delay of an access
  ClintCompares,       \* values written to compare registers; 0 is "off"
  ClintMaxTime         \* bound on simulation time

ASSUME ClintAssumption ==
  /\ ClintScaler \in Nat \ {0} /\ ClintQuantum \in Nat /\ ClintMaxTime \in Nat
  /\ ClintCompares \subseteq Nat

\* The supervisor levels compare with CSRs of the hart, where they exist.
ClintLevels == {"M", "S"}
ClintTimers == ClintHarts \X ClintLevels

\* UINT64_MAX as a compare value, and a notification that is not there.
ClintNever == -1

VARIABLES
  simNow,          \* sc_time_stamp()
  mtime,           \* the register
  timecmp,         \* mtimecmp and the xtimecmp CSRs
  cmpExists,       \* is_timer_compare_level_exists
  timerLine,       \* timer interrupt, as trigger_timer_interrupt left it
  softLine,        \* software interrupt, likewise
  irqEvent,        \* time irq_event is notified for, or ClintNever
  cmpArmed         \* history: written since its level came to exist

clintVars == <<simNow, mtime, timecmp, cmpExists, timerLine, softLine,
               irqEvent, cmpArmed>>

ClintInit ==
  /\ simNow = 0 /\ mtime = 0
  /\ timecmp = [t \in ClintTimers |-> 0]
  /\ cmpExists = [t \in ClintTimers |-> t[2] = "M"]
  /\ timerLine = [t \in ClintTimers |-> FALSE]
  /\ softLine = [t \in ClintTimers |-> FALSE]
  /\ irqEvent = ClintNever
  /\ cmpArmed = [t \in ClintTimers |-> FALSE]

-----------------------------------------------------------------------------

\* sc_event::notify(delay): the earlier of two notifications stays.
ClintEarliest(times) ==
  IF times \ {ClintNever} = {} THEN ClintNever
  ELSE CHOOSE e \in times \ {ClintNever} : \A f \in times \ {ClintNever} : e <= f

ClintNotify(delay) == irqEvent' = ClintEarliest({irqEvent, simNow + delay})

\* update_and_get_mtime: never backwards.
ClintUpdated ==
  IF simNow \div ClintScaler > mtime THEN simNow \div ClintScaler ELSE mtime

\* Simulation time passes only while nothing is due.
ClintTick ==
  /\ simNow < ClintMaxTime
  /\ irqEvent # simNow
  /\ simNow' = simNow + 1
  /\ UNCHANGED <<mtime, timecmp, cmpExists, timerLine, softLine, irqEvent, cmpArmed>>

\* pre_read_mtime: the time of the reading hart.
ClintReadMtime(delay) ==
  /\ mtime' = (simNow + delay) \div ClintScaler
  /\ UNCHANGED <<simNow, timecmp, cmpExists, timerLine, softLine, irqEvent, cmpArmed>>

\* update_and_get_mtime, which the hart calls when it reads its time CSR.
ClintReadTimeCsr ==
  /\ mtime' = ClintUpdated
  /\ UNCHANGED <<simNow, timecmp, cmpExists, timerLine, softLine, irqEvent, cmpArmed>>

ClintStore(t, c) ==
  /\ timecmp' = [timecmp EXCEPT ![t] = c]
  /\ cmpArmed' = [cmpArmed EXCEPT ![t] = cmpExists[t]]
  /\ UNCHANGED <<simNow, mtime, cmpExists, timerLine, softLine>>

\* post_write_mtimecmp
ClintWriteMtimecmp(h, c, delay) ==
  ClintStore(<<h, "M">>, c) /\ ClintNotify(delay)

\* post_write_xtimecmp
ClintWriteXtimecmp(h, c) == ClintStore(<<h, "S">>, c) /\ ClintNotify(0)

\* on_xenvcfgh_write: the hart's environment configuration gives the level its
\* compare CSR or takes it, and a pending interrupt, away; the CLINT is not told.
ClintToggle(h) ==
  /\ cmpExists' = [cmpExists EXCEPT ![<<h, "S">>] = ~@]
  /\ timerLine' = [timerLine EXCEPT ![<<h, "S">>] = @ /\ ~cmpExists[<<h, "S">>]]
  /\ cmpArmed' = [cmpArmed EXCEPT ![<<h, "S">>] = FALSE]
  /\ UNCHANGED <<simNow, mtime, timecmp, softLine, irqEvent>>

\* post_write_msip and post_write_ssip: bit 0 of what was written.
ClintWriteSip(t, v) ==
  /\ softLine' = [softLine EXCEPT ![t] = v % 2 # 0]
  /\ UNCHANGED <<simNow, mtime, timecmp, cmpExists, timerLine, irqEvent, cmpArmed>>

ClintExpired(t, now) == timecmp[t] > 0 /\ now >= timecmp[t]

ClintNextLookFirstHart(t, now) ==
  IF t[2] = "M" /\ timecmp[t] > 0 /\ ~ClintExpired(t, now)
  THEN simNow + (timecmp[t] - now) * ClintScaler
  ELSE ClintNever

\* process_compare_level: when to look again.
ClintNextLook(t, now) ==
  IF cmpExists[t] /\ timecmp[t] > 0 /\ ~ClintExpired(t, now)
  THEN simNow + (timecmp[t] - now) * ClintScaler
  ELSE ClintNever

\* The run thread.
ClintRun ==
  /\ irqEvent = simNow
  /\ mtime' = ClintUpdated
  /\ timerLine' = [t \in ClintTimers |->
                     IF cmpExists[t] THEN ClintExpired(t, mtime') ELSE timerLine[t]]
  /\ irqEvent' = ClintEarliest({ClintNextLook(t, mtime') : t \in ClintTimers})
  /\ UNCHANGED <<simNow, timecmp, cmpExists, softLine, cmpArmed>>

ClintStep ==
  \/ ClintTick
  \/ \E d \in 0 .. ClintQuantum : ClintReadMtime(d)
  \/ ClintReadTimeCsr
  \/ \E h \in ClintHarts, c \in ClintCompares \union {ClintNever} :
       \/ \E d \in 0 .. ClintQuantum : ClintWriteMtimecmp(h, c, d)
       \/ ClintWriteXtimecmp(h, c)
  \/ \E h \in ClintHarts : ClintToggle(h)
  \/ \E t \in ClintTimers, v \in 0 .. 3 : ClintWriteSip(t, v)
  \/ ClintRun

ClintSpec == ClintInit /\ [][ClintStep]_clintVars

-----------------------------------------------------------------------------

\* No timer interrupt is late: while a timer that was set has its line low,
\* the one event all timers share is notified for a time within the last tick
\* before it expires (or within the quantum of the write that set it), although
\* reads move mtime ahead of simulation time and back.
ClintNeverLate ==
  \A t \in ClintTimers :
    cmpArmed[t] /\ timecmp[t] > 0 /\ ~timerLine[t] =>
      /\ irqEvent # ClintNever
      /\ \/ irqEvent < (timecmp[t] + 1) * ClintScaler
         \/ irqEvent <= simNow + ClintQuantum
=============================================================================
