----------------------------- MODULE EiThreshold -----------------------------
(***************************************************************************)
(* The eithreshold register of an IMSIC interrupt file (icsr_eithreshold,  *)
(* core/rv32/csr.h), as operators on its state.                            *)
(*                                                                         *)
(* In the direct and vectored modes of xtvec it is one number.  In the     *)
(* "Synopsys nested vectored" mode it is the top of a preemption stack:    *)
(* reg is the threshold in force, `thresholds' the suspended ones (a       *)
(* bitmap over 1..NV_MODE_MAX_VECTOR in the code, a set here) and          *)
(* `tail' the value in force when nothing is suspended.                    *)
(***************************************************************************)
EXTENDS Naturals, FiniteSetsExt

CONSTANTS
  IMSIC_MAX_IRQS,      \* number of minor interrupt identities, 0 included
  NV_MODE_MAX_VECTOR   \* last vector (and last stackable identity)

\* config.h and the static_assert of nv_mode_get_ivt_line_num.
ASSUME ConfigAssumption ==
  /\ IMSIC_MAX_IRQS \in Nat \ {0}
  /\ NV_MODE_MAX_VECTOR \in Nat \ {0}
  /\ NV_MODE_MAX_VECTOR <= IMSIC_MAX_IRQS

Iid == 0 .. IMSIC_MAX_IRQS - 1          \* is_upper_bound_valid_minor_iid
ValidIid == 1 .. IMSIC_MAX_IRQS - 1     \* is_valid_minor_iid

IsTailed(iid) == iid > NV_MODE_MAX_VECTOR

Stackable == {iid \in ValidIid : ~ IsTailed(iid)}

Threshold == [reg : Iid,
              thresholds : SUBSET Stackable,
              tail : Iid,
              nv : BOOLEAN]

ThresholdReset == [reg |-> 0, thresholds |-> {}, tail |-> 0, nv |-> FALSE]

\* Zero and tail values have no slot among the thresholds.
IsRegUnstackable(et) == et.reg = 0 \/ IsTailed(et.reg)

TstackInsert(et, iid) ==
  IF IsRegUnstackable(et)
  THEN [et EXCEPT !.reg = iid]
  ELSE [et EXCEPT !.thresholds = @ \union {et.reg},
                  !.reg = IF et.reg > iid THEN iid ELSE et.reg]

TstackPutTail(et, iid) ==
  [et EXCEPT !.tail = iid,
             !.reg = IF IsRegUnstackable(et) THEN iid ELSE @]

\* Mutant: pops the outermost suspended threshold.
TstackPopOutermost(et) ==
  IF et.thresholds = {}
  THEN [et EXCEPT !.reg = et.tail]
  ELSE [et EXCEPT !.reg = Max(et.thresholds),
                  !.thresholds = @ \ {Max(et.thresholds)}]

TstackPop(et) ==
  IF et.thresholds = {}
  THEN [et EXCEPT !.reg = et.tail]
  ELSE [et EXCEPT !.reg = Min(et.thresholds),
                  !.thresholds = @ \ {Min(et.thresholds)}]

WriteSnpsVectored(et, val) ==
  IF val = 0 THEN TstackPop(et)
  ELSE IF IsTailed(val) THEN TstackPutTail(et, val)
  ELSE TstackInsert(et, val)

\* checked_write: values past the last identity are ignored.
EithresholdWrite(et, val) ==
  IF val \notin Iid THEN et
  ELSE IF et.nv THEN WriteSnpsVectored(et, val)
  ELSE [et EXCEPT !.reg = val]

\* The level an interrupt runs at: the tail shares the last vector.
StackLevel(iid) == IF IsTailed(iid) THEN NV_MODE_MAX_VECTOR ELSE iid

UpdateWithNewIrq(et, iid) ==
  IF et.nv THEN TstackInsert(et, StackLevel(iid)) ELSE et

\* Mutant: the end of a handler leaves its threshold in force.
MarkIrqAsHandledForgets(et) == et

MarkIrqAsHandled(et) == TstackPop(et)

SetModeSnpsVectored(et, isNv) == [et EXCEPT !.nv = isNv]
=============================================================================
