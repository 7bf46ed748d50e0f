----------------------------- MODULE Fe310Plic -----------------------------
(***************************************************************************)
(* The FE310 PLIC (platform/common/fe310_plic.h), as the platforms build   *)
(* it: one hart, which claims by reading and completes by writing one      *)
(* register, while devices trigger their gateways at any time.             *)
(*                                                                         *)
(* Software claims whenever it likes, with its external interrupt raised   *)
(* or polling, several times before it completes if it wants, and          *)
(* completes what it claimed.  Priorities, enables and the threshold are   *)
(* written at any time.  A failed assertion ends the program.              *)
(***************************************************************************)
EXTENDS Integers, FiniteSets

CONSTANTS
  FeIrqs,              \* interrupt numbers devices use
  FeMaxPriority,       \* MaxPriority
  FePriorityWrites     \* values software writes to priority registers

ASSUME FeAssumption ==
  /\ FeIrqs \subseteq Nat \ {0}
  /\ FeMaxPriority \in Nat
  /\ FePriorityWrites \subseteq Nat

VARIABLES
  fePriority,      \* interrupt_priorities
  feEnabled,       \* hart_enabled_interrupts
  feThreshold,     \* hart_config.priority_threshold, stored as written
  fePending,       \* pending_interrupts
  feEip,           \* hart_eip
  feHart,          \* the hart's external interrupt, as PLIC calls left it
  feWake,          \* e_run is notified
  feClaimed,       \* the interrupts software claimed and has to complete
  feAssert,        \* the assertion in post_write_hart_config holds so far
  feLate,          \* history: made ready by a configuration write that nobody
                   \* looked at since
  fePolite         \* history: every claim was made with the interrupt raised
                   \* and no other claim open

feVars == <<fePriority, feEnabled, feThreshold, fePending, feEip, feHart,
            feWake, feClaimed, feAssert, feLate, fePolite>>

FeInit ==
  /\ fePriority = [i \in FeIrqs |-> 0]
  /\ feEnabled = {}
  /\ feThreshold = 0
  /\ fePending = {}
  /\ feEip = FALSE /\ feHart = FALSE /\ feWake = FALSE
  /\ feClaimed = {}
  /\ feAssert = TRUE /\ feLate = {} /\ fePolite = TRUE

-----------------------------------------------------------------------------

\* Enabled, pending and of a priority that counts.
FeReady(withThreshold) ==
  {i \in feEnabled \intersect fePending :
     /\ fePriority[i] > 0
     /\ withThreshold => fePriority[i] > feThreshold}

\* hart_get_next_pending_interrupt: the highest priority wins, then the
\* lowest number; 0 for none.
FeNext(withThreshold) ==
  LET ready == FeReady(withThreshold)
  IN IF ready = {} THEN 0
     ELSE CHOOSE i \in ready : \A j \in ready :
            \/ fePriority[i] > fePriority[j]
            \/ fePriority[i] = fePriority[j] /\ i <= j

FeHasPending == FeReady(TRUE) # {}

FeGateway(i) ==
  /\ fePending' = fePending \union {i}
  /\ feWake' = TRUE
  /\ UNCHANGED <<fePriority, feEnabled, feThreshold, feEip, feHart, feClaimed,
                 feAssert, feLate, fePolite>>

\* A configuration write notifies nobody: what it makes ready waits, unless
\* the thread is on its way or the interrupt is raised already.
FeConfigured ==
  /\ UNCHANGED <<fePending, feEip, feHart, feWake, feClaimed, feAssert, fePolite>>
  /\ feLate' = IF feWake \/ feEip THEN feLate
               ELSE feLate \union (FeReady(TRUE)' \ FeReady(TRUE))

\* post_write_interrupt_priorities clips.
FeWritePriority(i, p) ==
  /\ fePriority' = [fePriority EXCEPT
                      ![i] = IF p < FeMaxPriority THEN p ELSE FeMaxPriority]
  /\ UNCHANGED <<feEnabled, feThreshold>>
  /\ FeConfigured

FeWriteEnables(E) ==
  /\ feEnabled' = E
  /\ UNCHANGED <<fePriority, feThreshold>>
  /\ FeConfigured

FeWriteThreshold(t) ==
  /\ feThreshold' = t
  /\ UNCHANGED <<fePriority, feEnabled>>
  /\ FeConfigured

\* A read of the claim register: the threshold is not considered, nor whether
\* the interrupt is raised.
FeClaim ==
  /\ feClaimed' = feClaimed \union ({FeNext(FALSE)} \ {0})
  /\ fePending' = fePending \ {FeNext(FALSE)}
  /\ fePolite' = (fePolite /\ feHart /\ feClaimed = {})
  /\ UNCHANGED <<fePriority, feEnabled, feThreshold, feEip, feHart, feWake,
                 feAssert, feLate>>

\* A completion that always lowers the interrupt, as the FU540 model does.
FeCompleteLowers(i) ==
  /\ feClaimed' = feClaimed \ {i}
  /\ feEip' = FALSE /\ feHart' = FALSE
  /\ UNCHANGED <<fePriority, feEnabled, feThreshold, fePending, feWake,
                 feAssert, feLate, fePolite>>

\* A write of the claim register.  Its value is not looked at.
FeComplete(i) ==
  /\ feClaimed' = feClaimed \ {i}
  /\ IF FeHasPending
     THEN /\ feAssert' = feEip
          /\ feHart' = feEip
          /\ UNCHANGED feEip
     ELSE /\ feEip' = FALSE /\ feHart' = FALSE
          /\ UNCHANGED feAssert
  /\ UNCHANGED <<fePriority, feEnabled, feThreshold, fePending, feWake, feLate,
                 fePolite>>

\* The run thread.
FeRun ==
  /\ feWake
  /\ feWake' = FALSE
  /\ feLate' = {}
  /\ IF ~feEip /\ FeHasPending
     THEN feEip' = TRUE /\ feHart' = TRUE
     ELSE UNCHANGED <<feEip, feHart>>
  /\ UNCHANGED <<fePriority, feEnabled, feThreshold, fePending, feClaimed, feAssert,
                 fePolite>>

FeOperation ==
  \/ \E i \in FeIrqs : FeGateway(i)
  \/ \E i \in FeIrqs, p \in FePriorityWrites : FeWritePriority(i, p)
  \/ \E E \in SUBSET FeIrqs : FeWriteEnables(E)
  \/ \E t \in 0 .. FeMaxPriority : FeWriteThreshold(t)
  \/ FeClaim
  \/ \E i \in feClaimed : FeComplete(i)
  \/ FeRun

FeStep == feAssert /\ FeOperation

FeSpec == FeInit /\ [][FeStep]_feVars

-----------------------------------------------------------------------------

\* Between a gateway, the run thread a clock cycle later, claims, completions
\* and configuration writes in any order, no interrupt is forgotten: one the
\* hart would take has its interrupt raised or the thread on its way, with the
\* one exception of those that only a configuration write made ready (nothing
\* looks at them before the next gateway).  The assertion at fe310_plic.h:201
\* fails for software that polls or holds several claims (another interrupt
\* may pend when it completes with hart_eip false); it never does when every
\* claim was made with the interrupt raised and no other claim open.
FeNotForgotten ==
  /\ feAssert => (FeReady(TRUE) \subseteq feLate) \/ feHart \/ feWake
  /\ feEip = feHart
  /\ fePolite => feAssert
=============================================================================
