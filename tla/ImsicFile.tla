------------------------------ MODULE ImsicFile ------------------------------
(***************************************************************************)
(* What an IMSIC interrupt file computes from its registers: the signal it *)
(* raises and the identity it shows in xtopei (ISS::compute_imsic_pending, *)
(* core/rv32/iss.cpp).  The machine, supervisor and guest files share it.  *)
(***************************************************************************)
EXTENDS EiThreshold

CONSTANTS
  BITS_PER_CSR,   \* identities per eip/eie register
  TOPEI_IID_MOD   \* 2^(width of the iid field of xtopei)

\* 2 * IMSIC_MAX_IRQS, the "nothing pending" value, truncates to 0 in the
\* 12-bit iid field while every identity fits: 2048 identities, 2^12 = 4096.
ASSUME TopeiAssumption ==
  /\ BITS_PER_CSR \in Nat \ {0}
  /\ TOPEI_IID_MOD \in Nat
  /\ TOPEI_IID_MOD >= IMSIC_MAX_IRQS
  /\ (2 * IMSIC_MAX_IRQS) % TOPEI_IID_MOD = 0

Direct == 0
Vectored == 1
SnpsNestedVectored == 3
Modes == {Direct, Vectored, SnpsNestedVectored}

\* csr_mtvec::checked_write: bit 1 forces bit 0.
TvecMode(m) == IF m \in Modes THEN m ELSE SnpsNestedVectored

IsNv(m) == m = SnpsNestedVectored

NO_IRQ_PENDING == 2 * IMSIC_MAX_IRQS

\* Mutant: the scan ignores the enable bits.
ActiveIidUnmasked(p, e) == IF p = {} THEN NO_IRQ_PENDING ELSE Min(p)

\* Mutant: the scan goes on and keeps the last identity it meets.
ActiveIidLast(p, e) == IF p \intersect e = {} THEN NO_IRQ_PENDING
                                              ELSE Max(p \intersect e)

\* The first pending and enabled identity, scanning from 0.
ActiveIid(p, e) == IF p \intersect e = {} THEN NO_IRQ_PENDING
                                          ELSE Min(p \intersect e)

EffectiveThreshold(et) == IF et.reg = 0 THEN IMSIC_MAX_IRQS ELSE et.reg

\* Mutant: an identity equal to the threshold passes it.
SignalsAtThreshold(p, e, deliver, et) ==
  deliver /\ ActiveIid(p, e) <= EffectiveThreshold(et)

\* compute_imsic_pending: the pending signal ...
Signals(p, e, deliver, et) ==
  deliver /\ ActiveIid(p, e) < EffectiveThreshold(et)

\* ... and the value for xtopei, cut to the width of its field by set_topei.
TopeiValue(p, e, deliver, et, nv) ==
  IF deliver /\ (Signals(p, e, deliver, et) \/ nv)
  THEN ActiveIid(p, e) % TOPEI_IID_MOD
  ELSE 0

RegisterBits(i) == {iid \in ValidIid : iid \div BITS_PER_CSR = i}
Registers == {iid \div BITS_PER_CSR : iid \in Iid}
=============================================================================
