----------------------------- MODULE Fu540Plic -----------------------------
(***************************************************************************)
(* The FU540 PLIC (platform/common/fu540_plic.cpp): a machine context for  *)
(* every hart and a supervisor context for every hart but hart 0.  Harts   *)
(* claim and complete concurrently; an interrupt may be enabled in several *)
(* contexts at once.                                                       *)
(***************************************************************************)
EXTENDS Integers, FiniteSets

CONSTANTS
  FuHarts,             \* hart numbers from 0
  FuIrqs,              \* interrupt numbers devices use
  FuMaxPrio,           \* MAX_PRIO
  FuMaxThr             \* MAX_THR

ASSUME FuAssumption ==
  /\ FuHarts \subseteq Nat
  /\ FuIrqs \subseteq Nat \ {0}
  /\ FuMaxPrio \in Nat /\ FuMaxThr \in Nat

\* create_hart_regs: hart 0 has no supervisor context.
FuContexts == {c \in FuHarts \X {"M", "S"} : c[1] = 0 => c[2] = "M"}

VARIABLES
  fuPrio,          \* interrupt_priorities
  fuEnabled,       \* enabled_irqs of each context
  fuThreshold,     \* hart_context[..][0]
  fuPending,       \* pending_interrupts
  fuLine,          \* external interrupt of each context, as calls left it
  fuWake,          \* e_run is notified
  fuLate,          \* history: what each context would take and nobody will
                   \* signal before the next trigger
  fuCredit         \* history: triggers not yet claimed, at most one pends

fuVars == <<fuPrio, fuEnabled, fuThreshold, fuPending, fuLine,
            fuWake, fuLate, fuCredit>>

FuInit ==
  /\ fuPrio = [i \in FuIrqs |-> 0]
  /\ fuEnabled = [c \in FuContexts |-> {}]
  /\ fuThreshold = [c \in FuContexts |-> 0]
  /\ fuPending = {}
  /\ fuLine = [c \in FuContexts |-> FALSE]
  /\ fuWake = FALSE
  /\ fuLate = [c \in FuContexts |-> {}]
  /\ fuCredit = {}

-----------------------------------------------------------------------------

\* What context c could take; the threshold counts unless ignth.
FuReady(c, ignth) ==
  {i \in fuEnabled[c] \intersect fuPending :
     /\ fuPrio[i] > 0
     /\ ~ignth => fuPrio[i] > fuThreshold[c]}

\* next_pending_irq: a priority of 0 never wins, ties go to the lower number.
FuNextIrq(c, ignth) ==
  LET ready == FuReady(c, ignth)
  IN IF ready = {} THEN 0
     ELSE CHOOSE i \in ready : \A j \in ready :
            \/ fuPrio[i] > fuPrio[j]
            \/ fuPrio[i] = fuPrio[j] /\ i <= j

\* has_pending_irq: the context of a hart that run signals, if any; the
\* supervisor's hides the machine's.
FuSignalled(h) ==
  LET wants == {c \in FuContexts : c[1] = h /\ FuReady(c, FALSE) # {}}
  IN IF <<h, "S">> \in wants THEN {<<h, "S">>} ELSE wants

FuGateway(i) ==
  /\ fuPending' = fuPending \union {i}
  /\ fuCredit' = fuCredit \union {i}
  /\ fuWake' = TRUE
  /\ UNCHANGED <<fuPrio, fuEnabled, fuThreshold, fuLine, fuLate>>

\* A configuration write notifies nobody: what it makes ready waits, unless
\* the thread is on its way or the context's line is raised already.
FuConfigured ==
  /\ UNCHANGED <<fuPending, fuLine, fuWake, fuCredit>>
  /\ fuLate' = [c \in FuContexts |->
                  IF fuWake \/ fuLine[c] THEN fuLate[c]
                  ELSE fuLate[c] \union (FuReady(c, FALSE)' \ FuReady(c, FALSE))]

FuWritePrio(i, p) ==
  /\ fuPrio' = [fuPrio EXCEPT ![i] = IF p < FuMaxPrio THEN p ELSE FuMaxPrio]
  /\ UNCHANGED <<fuEnabled, fuThreshold>>
  /\ FuConfigured

FuWriteEnables(c, E) ==
  /\ fuEnabled' = [fuEnabled EXCEPT ![c] = E]
  /\ UNCHANGED <<fuPrio, fuThreshold>>
  /\ FuConfigured

\* write_hartctx, threshold register: clipped.
FuWriteThreshold(c, t) ==
  /\ fuThreshold' = [fuThreshold EXCEPT
                       ![c] = IF t < FuMaxThr THEN t ELSE FuMaxThr]
  /\ UNCHANGED <<fuPrio, fuEnabled>>
  /\ FuConfigured

FuReadClaimKeeps(c) ==
  LET irq == FuNextIrq(c, TRUE) IN
  /\ fuCredit' = fuCredit \ {irq}
  /\ UNCHANGED <<fuPrio, fuEnabled, fuThreshold, fuPending, fuLine, fuWake,
                 fuLate>>

\* read_hartctx, claim register: irq is also what software reads.
FuReadClaim(c) ==
  LET irq == FuNextIrq(c, TRUE) IN
  /\ fuPending' = fuPending \ {irq}
  /\ fuCredit' = fuCredit \ {irq}
  /\ UNCHANGED <<fuPrio, fuEnabled, fuThreshold, fuLine, fuWake, fuLate>>

\* write_hartctx, claim register: the interrupt is lowered whatever pends.
FuComplete(c) ==
  /\ fuLine' = [fuLine EXCEPT ![c] = FALSE]
  /\ fuLate' = [fuLate EXCEPT ![c] = IF fuWake THEN @ ELSE FuReady(c, FALSE)]
  /\ UNCHANGED <<fuPrio, fuEnabled, fuThreshold, fuPending, fuWake, fuCredit>>

FuRunLeavesOut ==
  /\ fuWake
  /\ fuWake' = FALSE
  /\ fuLine' = [c \in FuContexts |-> fuLine[c] \/ (c[2] = "M" /\ c \in FuSignalled(c[1]))]
  /\ fuLate' = [c \in FuContexts |->
                  IF c \in FuSignalled(c[1]) THEN {} ELSE FuReady(c, FALSE)]
  /\ UNCHANGED <<fuPrio, fuEnabled, fuThreshold, fuPending, fuCredit>>

\* The thread: what the machine context would take waits while the supervisor
\* context of the hart hides it.
FuRun ==
  /\ fuWake
  /\ fuWake' = FALSE
  /\ fuLine' = [c \in FuContexts |-> fuLine[c] \/ c \in FuSignalled(c[1])]
  /\ fuLate' = [c \in FuContexts |->
                  IF c \in FuSignalled(c[1]) THEN {} ELSE FuReady(c, FALSE)]
  /\ UNCHANGED <<fuPrio, fuEnabled, fuThreshold, fuPending, fuCredit>>

FuStep ==
  \/ \E i \in FuIrqs : FuGateway(i)
  \/ \E i \in FuIrqs, p \in 0 .. FuMaxPrio + 1 : FuWritePrio(i, p)
  \/ \E c \in FuContexts, E \in SUBSET FuIrqs : FuWriteEnables(c, E)
  \/ \E c \in FuContexts, t \in 0 .. FuMaxThr + 1 : FuWriteThreshold(c, t)
  \/ \E c \in FuContexts : FuReadClaim(c) \/ FuComplete(c)
  \/ FuRun

FuSpec == FuInit /\ [][FuStep]_fuVars

-----------------------------------------------------------------------------

\* However claims and completions of several contexts interleave with
\* triggers and configuration writes, what pends was triggered and not yet
\* claimed (no interrupt is handled twice), and an interrupt a context would
\* take has the line of that context raised or the thread on its way, with three
\* exceptions, which wait for the next trigger of any interrupt: those that
\* only a configuration write made ready, those that pended when the context
\* completed another one (write_hartctx lowers the line and nobody raises it
\* again), and those of a machine context that the supervisor context of its
\* hart hid when the thread ran.
FuNotForgotten ==
  /\ fuPending = fuCredit
  /\ \A c \in FuContexts :
       FuReady(c, FALSE) \subseteq fuLate[c] \/ fuLine[c] \/ fuWake
=============================================================================
