-------------------------------- MODULE Imsic --------------------------------
(***************************************************************************)
(* One IMSIC interrupt file of a hart (machine or supervisor level) with   *)
(* the state the hart derives from it: the external-pending bit of mip and *)
(* the xtopei register (core/rv32/iss.cpp, core/rv32/csr.h).               *)
(*                                                                         *)
(* eip and eie are arrays of 32-bit registers in the code; here they are   *)
(* sets of identities, and a write replaces the identities of one register.*)
(* Every step is one CSR access, one MSI or one trap of the hart: the      *)
(* SystemC kernel never interleaves inside one of them.                    *)
(***************************************************************************)
EXTENDS ImsicFile

VARIABLES
  eip, eie,       \* pending and enabled identities
  eidelivery,     \* delivery switch of the file
  eithreshold,    \* see EiThreshold
  mode,           \* xtvec.mode
  extPending,     \* mip.MEIP (mip.SEIP): the file's signal to the hart
  topei,          \* xtopei.iid
  irqEnabled      \* xstatus.xie /\ mie.xeie: the hart may take the interrupt

vars == <<eip, eie, eidelivery, eithreshold, mode, extPending, topei,
          irqEnabled>>

\* compute_imsic_pending_interrupts_m / _s, from the primed file.
ComputeImsicPending ==
  /\ extPending' = Signals(eip', eie', eidelivery', eithreshold')
  /\ topei' = TopeiValue(eip', eie', eidelivery', eithreshold', IsNv(mode'))

-----------------------------------------------------------------------------
Init ==
  /\ eip = {} /\ eie = {}
  /\ eidelivery = FALSE
  /\ eithreshold = ThresholdReset
  /\ mode = Direct
  /\ extPending = FALSE
  /\ topei = 0
  /\ irqEnabled = FALSE

\* An MSI reaches the file; identity 0 is ignored.
RouteImsicWrite(value) ==
  /\ value # 0
  /\ eip' = eip \union {value}
  /\ UNCHANGED <<eie, eidelivery, eithreshold, mode, irqEnabled>>
  /\ ComputeImsicPending

\* Accesses through xireg: every one of them recomputes the signal.
WriteEip(i, bits) ==
  /\ bits \subseteq RegisterBits(i)
  /\ eip' = (eip \ RegisterBits(i)) \union bits
  /\ UNCHANGED <<eie, eidelivery, eithreshold, mode, irqEnabled>>
  /\ ComputeImsicPending

WriteEie(i, bits) ==
  /\ bits \subseteq RegisterBits(i)
  /\ eie' = (eie \ RegisterBits(i)) \union bits
  /\ UNCHANGED <<eip, eidelivery, eithreshold, mode, irqEnabled>>
  /\ ComputeImsicPending

WriteEidelivery(on) ==
  /\ eidelivery' = on
  /\ UNCHANGED <<eip, eie, eithreshold, mode, irqEnabled>>
  /\ ComputeImsicPending

\* Mutant: the signal is not recomputed under the new threshold.
WriteEithresholdStale(val) ==
  /\ eithreshold' = EithresholdWrite(eithreshold, val)
  /\ UNCHANGED <<eip, eie, eidelivery, mode, irqEnabled, extPending, topei>>

WriteEithreshold(val) ==
  /\ eithreshold' = EithresholdWrite(eithreshold, val)
  /\ UNCHANGED <<eip, eie, eidelivery, mode, irqEnabled>>
  /\ ComputeImsicPending

\* claim_topei_interrupt_on_xtopei: a write-only access with value 0 marks
\* the interrupt as handled in nested vectored mode, any other claims it.
MarksHandled(zero, readAccessed) == IsNv(mode) /\ zero /\ ~readAccessed

ClaimTopei(zero, readAccessed) ==
  /\ IF MarksHandled(zero, readAccessed)
     THEN /\ eithreshold' = MarkIrqAsHandled(eithreshold)
          /\ UNCHANGED eip
     ELSE /\ eip' = eip \ {topei}
          /\ UNCHANGED eithreshold
  /\ UNCHANGED <<eie, eidelivery, mode, irqEnabled>>
  /\ ComputeImsicPending

\* on_xtvec_write only tells eithreshold about the mode: the signal and
\* xtopei keep the values computed under the previous one.
WriteTvec(m) ==
  /\ mode' = TvecMode(m)
  /\ eithreshold' = SetModeSnpsVectored(eithreshold, IsNv(TvecMode(m)))
  /\ UNCHANGED <<eip, eie, eidelivery, extPending, topei, irqEnabled>>

\* Software opens or closes the window in which interrupts are taken
\* (xstatus, xie, xret).
WriteEnable(on) ==
  /\ irqEnabled' = on
  /\ UNCHANGED <<eip, eie, eidelivery, eithreshold, mode, extPending, topei>>

\* The trap for the external interrupt.  Trap entry clears xstatus.xie; in
\* nested vectored mode notify_irq_taken pushes the level and claims.
TakeInterrupt ==
  /\ extPending /\ irqEnabled
  /\ irqEnabled' = FALSE
  /\ UNCHANGED <<eie, eidelivery, mode>>
  /\ IF IsNv(mode)
     THEN /\ eithreshold' = UpdateWithNewIrq(eithreshold, topei)
          /\ eip' = eip \ {topei}
          /\ ComputeImsicPending
     ELSE UNCHANGED <<eip, eithreshold, extPending, topei>>

-----------------------------------------------------------------------------
Software ==
  \/ \E i \in Registers : \E bits \in SUBSET RegisterBits(i) :
        WriteEip(i, bits) \/ WriteEie(i, bits)
  \/ \E on \in BOOLEAN : WriteEidelivery(on) \/ WriteEnable(on)
  \/ \E zero, readAccessed \in BOOLEAN : ClaimTopei(zero, readAccessed)

Next ==
  \/ \E value \in Iid : RouteImsicWrite(value)
  \/ Software
  \/ \E val \in 0 .. IMSIC_MAX_IRQS : WriteEithreshold(val)
  \/ \E m \in 0 .. 3 : WriteTvec(m)
  \/ TakeInterrupt

Spec == Init /\ [][Next]_vars

-----------------------------------------------------------------------------
\* Every register of the file holds a value of its width.
TypeOK ==
  /\ eip \in SUBSET ValidIid /\ eie \in SUBSET ValidIid
  /\ eidelivery \in BOOLEAN
  /\ eithreshold \in Threshold
  /\ eithreshold.nv = IsNv(mode)
  /\ mode \in Modes
  /\ extPending \in BOOLEAN
  /\ topei \in Iid
  /\ irqEnabled \in BOOLEAN

\* The bit the hart sees in mip is the signal of the file as it is now,
\* whichever of the accesses that change the file came last: no operation
\* forgets to recompute it.
SignalFresh == extPending = Signals(eip, eie, eidelivery, eithreshold)

\* While the file signals, xtopei names the pending and enabled identity of
\* highest priority and it beats the threshold: the assert(xtopei) of
\* nv_mode_get_ivt_line_num holds and the vector chosen is the right one,
\* although a change of xtvec.mode leaves xtopei as it was.
TopeiNamesSignalled ==
  extPending => /\ topei \in eip \intersect eie
                /\ \A iid \in eip \intersect eie : topei <= iid
                /\ topei < EffectiveThreshold(eithreshold)

\* xtopei is the value for the mode in force or for the other one: the two
\* differ only while the threshold masks the top identity.
TopeiCached ==
  \E nv \in BOOLEAN :
     topei = TopeiValue(eip, eie, eidelivery, eithreshold, nv)

\* The inductive invariant.
Inv == TypeOK /\ SignalFresh /\ TopeiCached

\* A claim, or a taken nested interrupt, clears at most the top pending and
\* enabled identity; no interrupt that is disabled or of lower priority is
\* lost by it (claim_topei_interrupt_on_xtopei uses the cached xtopei).
Claims == \/ TakeInterrupt
          \/ \E zero, readAccessed \in BOOLEAN : ClaimTopei(zero, readAccessed)

ClaimTakesTop ==
  [][Claims => \A iid \in eip \ eip' :
                  /\ iid \in eie
                  /\ \A other \in eip \intersect eie : iid <= other]_vars
=============================================================================
