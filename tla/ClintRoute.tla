----------------------------- MODULE ClintRoute -----------------------------
(***************************************************************************)
(* How the local interrupt registers of a hart (csrs_clint_pend,           *)
(* core/rv32/csr.h) route major interrupts to the machine, supervisor and  *)
(* virtual supervisor levels: delegation by mideleg and hideleg, injection *)
(* by mvien/mvip and hvien/hvip, and the pending sets of each level        *)
(* (compute_clint_pending_irq_bits_per_level, core/rv32/iss.cpp).          *)
(*                                                                         *)
(* A register is the set of the interrupts whose bit is set; a VS-level    *)
(* interrupt keeps its own number (the shift to the S places of vsip and   *)
(* vsie is only how software sees it).                                     *)
(***************************************************************************)
EXTENDS Naturals

\* trap-codes.h
SSI == 1
VSSI == 2
MSI == 3
STI == 5
VSTI == 6
MTI == 7
SEI == 9
VSEI == 10
MEI == 11
SGEI == 12
COUNTER_OVERFLOW == 13
DEBUG_TRACE == 17
LOW_PRIO_RAS == 35
HIGH_PRIO_RAS == 43
WDT == 48

Unleveled == {COUNTER_OVERFLOW, DEBUG_TRACE, LOW_PRIO_RAS, HIGH_PRIO_RAS, WDT}
SupervisorIrqs == {SSI, STI, SEI}
VirtualIrqs == {VSSI, VSTI, VSEI}
HypervisorIrqs == VirtualIrqs \union {SGEI}
LeveledIrqs == {MSI, MTI, MEI} \union SupervisorIrqs \union HypervisorIrqs

MajorIrqs == LeveledIrqs \union Unleveled

\* The writable bits of each register.
Writable ==
  [mie     |-> MajorIrqs,
   mideleg |-> SupervisorIrqs,
   hideleg |-> VirtualIrqs,
   mvien   |-> Unleveled \union SupervisorIrqs,
   mvip    |-> Unleveled \union SupervisorIrqs,
   hvien   |-> Unleveled,
   hvip    |-> Unleveled \union VirtualIrqs]

\* The registers: mip as the hardware drives it, the enables, the two levels
\* of delegation and injection, and the shadow enables of injected ones.
Clint == [mip : SUBSET LeveledIrqs,
          mie : SUBSET MajorIrqs,
          mideleg : SUBSET MajorIrqs,
          hideleg : SUBSET VirtualIrqs,
          mvien : SUBSET Writable.mvien, mvip : SUBSET Writable.mvip,
          hvien : SUBSET Writable.hvien, hvip : SUBSET Writable.hvip,
          sShadow : SUBSET Writable.mvien, vsShadow : SUBSET Writable.hvien]

\* mideleg resets with the hypervisor's bits, which are read-only one.
ClintReset == [mip |-> {}, mie |-> {}, mideleg |-> HypervisorIrqs,
               hideleg |-> {}, mvien |-> {}, mvip |-> {},
               hvien |-> {}, hvip |-> {}, sShadow |-> {}, vsShadow |-> {}]

-----------------------------------------------------------------------------
\* s_route_masks, vs_route_masks
SDelegated(c) == c.mideleg
SInjected(c) == c.mvien \ c.mideleg

HidelegRead(c) == c.hideleg \intersect (SDelegated(c) \union SInjected(c))

VsDelegated(c) == HidelegRead(c)
VsInjected(c) == c.hvien \ VsDelegated(c)

\* The views of mip: hvip is ORed into the VS bits.
MipRead(c) == c.mip \union (c.hvip \intersect VirtualIrqs)
HipRead(c) == MipRead(c) \intersect HypervisorIrqs
SipRead(c) ==
  ((SDelegated(c) \intersect MipRead(c)) \union (SInjected(c) \intersect c.mvip))
    \intersect (Unleveled \union SupervisorIrqs)
VsipRead(c) ==
  ((VsDelegated(c) \intersect
       ((SipRead(c) \intersect Unleveled) \union HipRead(c)))
   \union (VsInjected(c) \intersect c.hvip))
    \intersect (Unleveled \union VirtualIrqs)

\* The views of mie: an injected interrupt has a shadow enable.
HieRead(c) == c.mie \intersect HypervisorIrqs
SieRead(c) ==
  ((SDelegated(c) \intersect c.mie) \union (SInjected(c) \intersect c.sShadow))
    \intersect (Unleveled \union SupervisorIrqs)
VsieRead(c) ==
  ((VsDelegated(c) \intersect
       ((SieRead(c) \intersect Unleveled) \union HieRead(c)))
   \union (VsInjected(c) \intersect c.vsShadow))
    \intersect (Unleveled \union VirtualIrqs)

\* What pends for each level (hvictl injection aside).
MPending(c) == (c.mie \intersect c.mip) \ c.mideleg
\* Mutant: what hideleg passes on pends for the supervisor too.
SPendingKeepsDelegated(c) ==
  (SipRead(c) \intersect SieRead(c)) \union (HipRead(c) \intersect HieRead(c))

SPending(c) ==
  ((SipRead(c) \intersect SieRead(c)) \union (HipRead(c) \intersect HieRead(c)))
    \ HidelegRead(c)
VsPending(c) == VsipRead(c) \intersect VsieRead(c)

Pendings(c) == [M |-> MPending(c), S |-> SPending(c), VS |-> VsPending(c)]

-----------------------------------------------------------------------------
\* The writes.  Bits of `mask' take their value from `val'.
Masked(reg, mask, val) == (reg \ mask) \union (val \intersect mask)

\* Mutant: every bit of the register is writable.
WriteRegUnmasked(c, name, val) == [c EXCEPT ![name] = val]

WriteReg(c, name, val) ==
  [c EXCEPT ![name] =
     IF name = "hideleg"
     THEN Masked(@, Writable.hideleg \intersect
                      (SDelegated(c) \union SInjected(c)), val)
     ELSE Masked(@, Writable[name], val)]

\* sie_routed_write_64
WriteSieMasked(c, mask, val) ==
  LET w == mask \intersect (Unleveled \union SupervisorIrqs)
  IN  [c EXCEPT !.mie = Masked(@, w \intersect SDelegated(c), val),
                !.sShadow = Masked(@, w \intersect SInjected(c), val)]

WriteSie(c, val) == WriteSieMasked(c, MajorIrqs, val)

WriteHie(c, val) == [c EXCEPT !.mie = Masked(@, HypervisorIrqs, val)]

\* vsie_routed_write_64: through sie and hie where delegated, to the shadow
\* where injected.
WriteVsie(c, val) ==
  LET w == Unleveled \union VirtualIrqs
      delegated == w \intersect VsDelegated(c)
      sie == WriteSieMasked(c, delegated, val)
      hie == [sie EXCEPT
                !.mie = Masked(@, delegated \intersect HypervisorIrqs, val)]
  IN  [hie EXCEPT !.vsShadow = Masked(@, w \intersect VsInjected(c), val)]

\* sip and vsip: only injected interrupts of edge type can be written.
WriteSip(c, val) ==
  [c EXCEPT !.mvip = Masked(@, Unleveled \intersect SInjected(c), val)]

WriteVsip(c, val) ==
  [c EXCEPT !.hvip = Masked(@, Unleveled \intersect VsInjected(c), val)]

\* hw_write_mip
HwWriteMip(c, iid, set) ==
  [c EXCEPT !.mip = IF set THEN @ \union ({iid} \intersect LeveledIrqs)
                           ELSE @ \ {iid}]
=============================================================================
