----------------------------- MODULE ImsicNested -----------------------------
(***************************************************************************)
(* An interrupt file used the way nested vectored mode is designed for:    *)
(* the mode is chosen once, software completes interrupts through xtopei   *)
(* and writes only tail values to eithreshold.  `nest' is a history        *)
(* variable, the levels of the handlers entered and not yet completed;     *)
(* the code keeps no such stack, only the bitmap of EiThreshold.           *)
(***************************************************************************)
EXTENDS Imsic, Sequences

VARIABLE nest

nvars == <<eip, eie, eidelivery, eithreshold, mode, extPending, topei,
           irqEnabled, nest>>

Tails == {val \in Iid : IsTailed(val)}
Levels == 1 .. NV_MODE_MAX_VECTOR

NestedInit ==
  /\ eip = {} /\ eie = {}
  /\ eidelivery = FALSE
  /\ eithreshold = [ThresholdReset EXCEPT !.nv = TRUE]
  /\ mode = SnpsNestedVectored
  /\ extPending = FALSE
  /\ topei = 0
  /\ irqEnabled = FALSE
  /\ nest = <<>>

\* A write of 0 to xtopei ends the innermost handler, if there is one.
HandlerEnds == nest' = IF nest = <<>> THEN nest
                                      ELSE SubSeq(nest, 1, Len(nest) - 1)

Access ==
  /\ \/ \E value \in Iid : RouteImsicWrite(value)
     \/ \E i \in Registers : \E bits \in SUBSET RegisterBits(i) :
           WriteEip(i, bits) \/ WriteEie(i, bits)
     \/ \E on \in BOOLEAN : WriteEidelivery(on) \/ WriteEnable(on)
     \/ \E val \in Tails : WriteEithreshold(val)
  /\ UNCHANGED nest

Claim(zero, readAccessed) ==
  /\ ClaimTopei(zero, readAccessed)
  /\ IF MarksHandled(zero, readAccessed) THEN HandlerEnds ELSE UNCHANGED nest

EnterHandler ==
  /\ TakeInterrupt
  /\ nest' = Append(nest, StackLevel(topei))

NestedNext ==
  \/ Access
  \/ \E zero, readAccessed \in BOOLEAN : Claim(zero, readAccessed)
  \/ EnterHandler

NestedSpec == NestedInit /\ [][NestedNext]_nvars

-----------------------------------------------------------------------------
\* The bitmap and the register are exactly the stack of entered handlers:
\* urgencies grow along it, its innermost level is the one in force, the
\* others are the suspended ones, and no level is lost or left behind by the
\* find-first-set the code pops with.
BitmapIsStack ==
  /\ \A i, j \in 1 .. Len(nest) : i < j => nest[i] > nest[j]
  /\ IF nest = <<>>
     THEN eithreshold.thresholds = {} /\ eithreshold.reg = eithreshold.tail
     ELSE /\ eithreshold.reg = nest[Len(nest)]
          /\ eithreshold.thresholds = {nest[i] : i \in 1 .. Len(nest) - 1}

\* The file implements the nesting of handlers.
Abstract == INSTANCE PreemptStack WITH stack <- nest, tail <- eithreshold.tail

NestsLikeCalls == Abstract!Spec

-----------------------------------------------------------------------------
\* Handlers re-enable interrupts and end, and an enabled hart takes what the
\* file signals before its next instruction.
RunSpec ==
  /\ NestedSpec
  /\ WF_nvars(WriteEnable(TRUE) /\ UNCHANGED nest)
  /\ WF_nvars(Claim(TRUE, FALSE))
  /\ WF_nvars(EnterHandler)

\* Software has finished with the registers: MSIs come in, handlers re-enable
\* interrupts, are entered and end.
Running ==
  \/ (\E value \in Iid : RouteImsicWrite(value)) /\ UNCHANGED nest
  \/ WriteEnable(TRUE) /\ UNCHANGED nest
  \/ Claim(TRUE, FALSE)
  \/ EnterHandler

\* The most urgent identity is never starved: in whatever state software left
\* the stack of thresholds, as long as the identity is enabled, neither the
\* flood of others nor its own handler being in service when it arrives again
\* keeps it from being served.
TopIsServed ==
  <>[][Running]_nvars => []<>(1 \notin eip \intersect eie \/ ~ eidelivery)
=============================================================================
