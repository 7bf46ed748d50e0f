----------------------------- MODULE ImsicProofs -----------------------------
(***************************************************************************)
(* Theorems about one interrupt file, for every number of identities and   *)
(* vectors: its types, the freshness of the signal in mip and the meaning  *)
(* of xtopei, and the claim of the top interrupt only; then the nested     *)
(* vectored mode: the bitmap of eithreshold is the stack of entered        *)
(* handlers, and the file implements PreemptStack.                         *)
(***************************************************************************)
EXTENDS ImsicNested, WellFoundedInduction, TLAPS

-----------------------------------------------------------------------------
(* The operators every interrupt file is built from, for any number of     *)
(* identities and vectors: the scan for the top interrupt, the threshold   *)
(* stack and the value shown in xtopei.                                    *)

\* A nonempty set of naturals has a least element, and Min finds it.
LEMMA MinIsLeast ==
  ASSUME NEW S, S \subseteq Nat, S # {}
  PROVE  Min(S) \in S /\ \A y \in S : Min(S) <= y
<1>1. \E x \in S : \A y \in S : ~ (<<y, x>> \in OpToRel(<, Nat))
  BY NatLessThanWellFounded, WFMin
<1>2. PICK x \in S : \A y \in S : ~ (<<y, x>> \in OpToRel(<, Nat))
  BY <1>1
<1>3. \A y \in S : x <= y
  <2>1. SUFFICES ASSUME NEW y \in S PROVE x <= y
    OBVIOUS
  <2>2. y \in Nat /\ x \in Nat
    OBVIOUS
  <2>3. ~ (y < x)
    BY <1>2, <2>2 DEF OpToRel
  <2> QED BY <2>2, <2>3
<1> QED BY <1>3 DEF Min

\* The scan returns the least pending and enabled identity or, when there is
\* none, a value that beats no threshold.
LEMMA ActiveIidIsTop ==
  ASSUME NEW p \in SUBSET ValidIid, NEW e \in SUBSET ValidIid
  PROVE  /\ p \intersect e # {} =>
              /\ ActiveIid(p, e) \in p \intersect e
              /\ \A iid \in p \intersect e : ActiveIid(p, e) <= iid
         /\ p \intersect e = {} => ActiveIid(p, e) = NO_IRQ_PENDING
<1>1. CASE p \intersect e # {}
  <2>1. p \intersect e \subseteq Nat
    BY ConfigAssumption DEF ValidIid
  <2>2. /\ Min(p \intersect e) \in p \intersect e
        /\ \A y \in p \intersect e : Min(p \intersect e) <= y
    BY <1>1, <2>1, MinIsLeast
  <2> QED BY <1>1, <2>2 DEF ActiveIid
<1>2. CASE p \intersect e = {}
  BY <1>2 DEF ActiveIid
<1> QED BY <1>1, <1>2

\* Pops and pushes of the threshold stack keep its types.
LEMMA PopType ==
  ASSUME NEW et \in Threshold
  PROVE  TstackPop(et) \in Threshold /\ TstackPop(et).nv = et.nv
<1>1. CASE et.thresholds = {}
  BY <1>1 DEF TstackPop, Threshold
<1>2. CASE et.thresholds # {}
  <2>1. et.thresholds \subseteq Nat
    BY ConfigAssumption DEF Threshold, Stackable, ValidIid
  <2>2. Min(et.thresholds) \in et.thresholds
    BY <1>2, <2>1, MinIsLeast
  <2>3. Min(et.thresholds) \in Iid
    BY <2>2, ConfigAssumption DEF Threshold, Stackable, Iid, ValidIid
  <2> QED BY <1>2, <2>3 DEF TstackPop, Threshold
<1> QED BY <1>1, <1>2

LEMMA InsertType ==
  ASSUME NEW et \in Threshold, NEW iid \in ValidIid
  PROVE  TstackInsert(et, iid) \in Threshold /\ TstackInsert(et, iid).nv = et.nv
<1>1. iid \in Iid
  BY ConfigAssumption DEF ValidIid, Iid
<1>2. CASE IsRegUnstackable(et)
  BY <1>1, <1>2 DEF TstackInsert, Threshold
<1>3. CASE ~ IsRegUnstackable(et)
  <2>1. et.reg \in Stackable
    BY <1>3, ConfigAssumption
    DEF IsRegUnstackable, Stackable, Threshold, Iid, ValidIid
  <2> QED BY <1>1, <1>3, <2>1 DEF TstackInsert, Threshold
<1> QED BY <1>2, <1>3

LEMMA StackLevelType ==
  ASSUME NEW iid \in ValidIid
  PROVE  StackLevel(iid) \in Stackable
BY ConfigAssumption DEF StackLevel, Stackable, IsTailed, ValidIid

LEMMA WriteType ==
  ASSUME NEW et \in Threshold, NEW val
  PROVE  EithresholdWrite(et, val) \in Threshold /\
         EithresholdWrite(et, val).nv = et.nv
<1>1. CASE val \notin Iid
  BY <1>1 DEF EithresholdWrite
<1>2. CASE val \in Iid /\ ~ et.nv
  BY <1>2 DEF EithresholdWrite, Threshold
<1>3. CASE val \in Iid /\ et.nv
  <2>1. CASE val = 0
    BY <1>3, <2>1, PopType DEF EithresholdWrite, WriteSnpsVectored
  <2>2. CASE val # 0 /\ IsTailed(val)
    BY <1>3, <2>2
    DEF EithresholdWrite, WriteSnpsVectored, TstackPutTail, Threshold
  <2>3. CASE val # 0 /\ ~ IsTailed(val)
    <3>1. val \in ValidIid
      BY <1>3, <2>3, ConfigAssumption DEF Iid, ValidIid
    <3> QED BY <1>3, <2>3, <3>1, InsertType
            DEF EithresholdWrite, WriteSnpsVectored
  <2> QED BY <2>1, <2>2, <2>3
<1> QED BY <1>1, <1>2, <1>3 DEF Threshold

\* What xtopei shows is an identity: the "nothing pending" value is cut to 0
\* by the width of the field and no identity is cut.
LEMMA TopeiType ==
  ASSUME NEW p \in SUBSET ValidIid, NEW e \in SUBSET ValidIid,
         NEW d \in BOOLEAN, NEW et \in Threshold, NEW nv \in BOOLEAN
  PROVE  /\ Signals(p, e, d, et) \in BOOLEAN
         /\ TopeiValue(p, e, d, et, nv) \in Iid
         /\ Signals(p, e, d, et) =>
              /\ TopeiValue(p, e, d, et, nv) = ActiveIid(p, e)
              /\ ActiveIid(p, e) \in p \intersect e
              /\ ActiveIid(p, e) < EffectiveThreshold(et)
         /\ TopeiValue(p, e, d, et, nv) # 0 =>
              /\ TopeiValue(p, e, d, et, nv) = ActiveIid(p, e)
              /\ ActiveIid(p, e) \in p \intersect e
<1>1. /\ IMSIC_MAX_IRQS \in Nat \ {0}
      /\ TOPEI_IID_MOD \in Nat
      /\ TOPEI_IID_MOD >= IMSIC_MAX_IRQS
      /\ NO_IRQ_PENDING % TOPEI_IID_MOD = 0
  BY ConfigAssumption, TopeiAssumption DEF NO_IRQ_PENDING
<1>2. EffectiveThreshold(et) \in 1 .. IMSIC_MAX_IRQS
  BY <1>1 DEF EffectiveThreshold, Threshold, Iid
<1>3. CASE p \intersect e # {}
  <2>1. ActiveIid(p, e) \in p \intersect e
    BY <1>3, ActiveIidIsTop
  <2>2. ActiveIid(p, e) \in 1 .. IMSIC_MAX_IRQS - 1
    BY <2>1 DEF ValidIid
  <2>3. ActiveIid(p, e) % TOPEI_IID_MOD = ActiveIid(p, e)
    BY <1>1, <2>2
  <2> QED BY <1>1, <1>2, <2>1, <2>2, <2>3 DEF TopeiValue, Signals, Iid
<1>4. CASE p \intersect e = {}
  <2>1. ActiveIid(p, e) = NO_IRQ_PENDING
    BY <1>4, ActiveIidIsTop
  <2>2. ~ (NO_IRQ_PENDING < EffectiveThreshold(et))
    BY <1>1, <1>2 DEF NO_IRQ_PENDING
  <2> QED BY <1>1, <2>1, <2>2 DEF TopeiValue, Signals, Iid
<1> QED BY <1>3, <1>4

-----------------------------------------------------------------------------
FileOK == /\ eip \in SUBSET ValidIid /\ eie \in SUBSET ValidIid
          /\ eidelivery \in BOOLEAN
          /\ eithreshold \in Threshold
          /\ eithreshold.nv = IsNv(mode)
          /\ mode \in Modes
          /\ irqEnabled \in BOOLEAN

\* A step that leaves the registers well typed and recomputes the signal
\* establishes the invariant, whatever the signal was.
LEMMA RecomputeInv ==
  ASSUME FileOK', ComputeImsicPending
  PROVE  Inv'
<1> DEFINE nv == IsNv(mode')
<1>1. nv \in BOOLEAN
  BY DEF IsNv
<1>2. /\ eip' \in SUBSET ValidIid /\ eie' \in SUBSET ValidIid
      /\ eidelivery' \in BOOLEAN /\ eithreshold' \in Threshold
  BY DEF FileOK
<1>3. /\ Signals(eip', eie', eidelivery', eithreshold') \in BOOLEAN
      /\ TopeiValue(eip', eie', eidelivery', eithreshold', nv) \in Iid
  BY <1>1, <1>2, TopeiType
<1>4. TypeOK'
  BY <1>3 DEF TypeOK, FileOK, ComputeImsicPending
<1>5. SignalFresh'
  BY DEF SignalFresh, ComputeImsicPending
<1>6. TopeiCached'
  BY <1>1 DEF TopeiCached, ComputeImsicPending
<1> QED BY <1>4, <1>5, <1>6 DEF Inv

LEMMA InitInv == Init => Inv
<1> SUFFICES ASSUME Init PROVE Inv
  OBVIOUS
<1>1. ThresholdReset \in Threshold /\ ThresholdReset.nv = FALSE
  BY ConfigAssumption DEF ThresholdReset, Threshold, Iid
<1>2. TypeOK
  <2>1. IsNv(Direct) = FALSE /\ Direct \in Modes
    BY DEF IsNv, Direct, SnpsNestedVectored, Modes
  <2>2. 0 \in Iid
    BY ConfigAssumption DEF Iid
  <2> QED BY <1>1, <2>1, <2>2 DEF Init, TypeOK
<1>3. SignalFresh
  BY DEF Init, SignalFresh, Signals
<1>4. TopeiCached
  BY DEF Init, TopeiCached, TopeiValue, Signals
<1> QED BY <1>2, <1>3, <1>4 DEF Inv

\* xtopei is 0 or the top pending and enabled identity.
LEMMA TopeiIsTop ==
  ASSUME Inv
  PROVE  /\ topei # 0 => /\ topei \in eip \intersect eie
                         /\ \A iid \in eip \intersect eie : topei <= iid
         /\ extPending => TopeiNamesSignalled /\ topei \in ValidIid
<1>1. /\ eip \in SUBSET ValidIid /\ eie \in SUBSET ValidIid
      /\ eidelivery \in BOOLEAN /\ eithreshold \in Threshold
  BY DEF Inv, TypeOK
<1>2. PICK nv \in BOOLEAN :
        topei = TopeiValue(eip, eie, eidelivery, eithreshold, nv)
  BY DEF Inv, TopeiCached
<1>3. /\ extPending =>
           /\ topei = ActiveIid(eip, eie)
           /\ ActiveIid(eip, eie) \in eip \intersect eie
           /\ ActiveIid(eip, eie) < EffectiveThreshold(eithreshold)
      /\ topei # 0 => /\ topei = ActiveIid(eip, eie)
                      /\ ActiveIid(eip, eie) \in eip \intersect eie
  BY <1>1, <1>2, TopeiType DEF Inv, SignalFresh
<1>4. eip \intersect eie # {} =>
        \A iid \in eip \intersect eie : ActiveIid(eip, eie) <= iid
  BY <1>1, ActiveIidIsTop
<1> QED BY <1>1, <1>3, <1>4 DEF TopeiNamesSignalled

LEMMA ClaimKeepsInv ==
  ASSUME Inv, NEW zero \in BOOLEAN, NEW readAccessed \in BOOLEAN,
         ClaimTopei(zero, readAccessed)
  PROVE  Inv'
<1>1. CASE MarksHandled(zero, readAccessed)
  <2>1. eithreshold' \in Threshold /\ eithreshold'.nv = eithreshold.nv
    BY <1>1, PopType DEF ClaimTopei, MarkIrqAsHandled, Inv, TypeOK
  <2>2. FileOK'
    BY <1>1, <2>1 DEF ClaimTopei, FileOK, Inv, TypeOK
  <2> QED BY <2>2, RecomputeInv DEF ClaimTopei
<1>2. CASE ~ MarksHandled(zero, readAccessed)
  <2>1. FileOK'
    BY <1>2 DEF ClaimTopei, FileOK, Inv, TypeOK
  <2> QED BY <2>1, RecomputeInv DEF ClaimTopei
<1> QED BY <1>1, <1>2

LEMMA TakeKeepsInv ==
  ASSUME Inv, TakeInterrupt
  PROVE  Inv'
<1>1. topei \in ValidIid
  BY TopeiIsTop DEF TakeInterrupt
<1>2. CASE IsNv(mode)
  <2>1. StackLevel(topei) \in ValidIid
    BY <1>1, StackLevelType DEF Stackable
  <2>2. eithreshold' \in Threshold /\ eithreshold'.nv = eithreshold.nv
    BY <1>2, <2>1, InsertType
    DEF TakeInterrupt, UpdateWithNewIrq, Inv, TypeOK
  <2>3. FileOK'
    BY <1>2, <2>2 DEF TakeInterrupt, FileOK, Inv, TypeOK
  <2> QED BY <1>2, <2>3, RecomputeInv DEF TakeInterrupt
<1>3. CASE ~ IsNv(mode)
  BY <1>3 DEF TakeInterrupt, Inv, TypeOK, SignalFresh, TopeiCached
<1> QED BY <1>2, <1>3

LEMMA NextInv == Inv /\ [Next]_vars => Inv'
<1> SUFFICES ASSUME Inv, [Next]_vars PROVE Inv'
  OBVIOUS
<1>1. ASSUME NEW value \in Iid, RouteImsicWrite(value) PROVE Inv'
  <2>1. value \in ValidIid
    BY <1>1, ConfigAssumption DEF RouteImsicWrite, Iid, ValidIid
  <2>2. FileOK'
    BY <1>1, <2>1 DEF RouteImsicWrite, FileOK, Inv, TypeOK
  <2> QED BY <1>1, <2>2, RecomputeInv DEF RouteImsicWrite
<1>2. ASSUME NEW i \in Registers, NEW bits \in SUBSET RegisterBits(i),
             WriteEip(i, bits) \/ WriteEie(i, bits)
      PROVE  Inv'
  <2>1. bits \in SUBSET ValidIid
    BY DEF RegisterBits
  <2>2. FileOK'
    BY <1>2, <2>1 DEF WriteEip, WriteEie, FileOK, Inv, TypeOK
  <2> QED BY <1>2, <2>2, RecomputeInv DEF WriteEip, WriteEie
<1>3. ASSUME NEW on \in BOOLEAN, WriteEidelivery(on) PROVE Inv'
  <2>1. FileOK'
    BY <1>3 DEF WriteEidelivery, FileOK, Inv, TypeOK
  <2> QED BY <1>3, <2>1, RecomputeInv DEF WriteEidelivery
<1>4. ASSUME NEW on \in BOOLEAN, WriteEnable(on) PROVE Inv'
  BY <1>4 DEF WriteEnable, Inv, TypeOK, SignalFresh, TopeiCached
<1>5. ASSUME NEW zero \in BOOLEAN, NEW readAccessed \in BOOLEAN,
             ClaimTopei(zero, readAccessed)
      PROVE  Inv'
  BY <1>5, ClaimKeepsInv
<1>6. ASSUME NEW val, WriteEithreshold(val) PROVE Inv'
  <2>1. eithreshold' \in Threshold /\ eithreshold'.nv = eithreshold.nv
    BY <1>6, WriteType DEF WriteEithreshold, Inv, TypeOK
  <2>2. FileOK'
    BY <1>6, <2>1 DEF WriteEithreshold, FileOK, Inv, TypeOK
  <2> QED BY <1>6, <2>2, RecomputeInv DEF WriteEithreshold
<1>7. ASSUME NEW m \in 0 .. 3, WriteTvec(m) PROVE Inv'
  <2>1. /\ eithreshold' = [eithreshold EXCEPT !.nv = IsNv(mode')]
        /\ mode' \in Modes
    BY <1>7 DEF WriteTvec, SetModeSnpsVectored, TvecMode, Modes
  <2>2. /\ eithreshold' \in Threshold
        /\ eithreshold'.nv = IsNv(mode')
        /\ eithreshold'.reg = eithreshold.reg
    BY <2>1 DEF Inv, TypeOK, Threshold, IsNv
  <2>3. TypeOK'
    BY <1>7, <2>1, <2>2 DEF WriteTvec, Inv, TypeOK
  <2>4. SignalFresh' /\ TopeiCached'
    BY <1>7, <2>2
    DEF WriteTvec, Inv, SignalFresh, TopeiCached, Signals, TopeiValue,
        EffectiveThreshold
  <2> QED BY <2>3, <2>4 DEF Inv
<1>8. ASSUME TakeInterrupt PROVE Inv'
  BY <1>8, TakeKeepsInv
<1>9. CASE UNCHANGED vars
  BY <1>9 DEF vars, Inv, TypeOK, SignalFresh, TopeiCached
<1> QED BY <1>1, <1>2, <1>3, <1>4, <1>5, <1>6, <1>7, <1>8, <1>9
        DEF Next, Software

-----------------------------------------------------------------------------
LEMMA InvAlways == Spec => []Inv
BY InitInv, NextInv, PTL DEF Spec

\* Every register of an interrupt file keeps a value of its width.
THEOREM TypeCorrect == Spec => []TypeOK
<1>1. Inv => TypeOK
  BY DEF Inv
<1> QED BY <1>1, InvAlways, PTL

\* The external-pending bit of mip is never stale.
THEOREM SignalAlwaysFresh == Spec => []SignalFresh
<1>1. Inv => SignalFresh
  BY DEF Inv
<1> QED BY <1>1, InvAlways, PTL

\* A signalled file shows its top interrupt in xtopei: the assertion of
\* nv_mode_get_ivt_line_num cannot fail for a file's own interrupt.
THEOREM TopeiAlwaysNamesSignalled == Spec => []TopeiNamesSignalled
<1>1. Inv => TopeiNamesSignalled
  BY TopeiIsTop DEF TopeiNamesSignalled
<1> QED BY <1>1, InvAlways, PTL

\* Claims never clear anything but the top pending and enabled identity.
THEOREM ClaimsTakeTop == Spec => ClaimTakesTop
<1>1. ASSUME Inv, Claims, NEW iid \in eip \ eip'
      PROVE  iid \in eie /\ \A other \in eip \intersect eie : iid <= other
  <2>1. iid = topei
    BY <1>1 DEF Claims, TakeInterrupt, ClaimTopei
  <2>2. iid # 0
    BY <1>1 DEF Inv, TypeOK, ValidIid
  <2> QED BY <1>1, <2>1, <2>2, TopeiIsTop
<1>2. Inv /\ [Next]_vars =>
        [Claims => \A iid \in eip \ eip' :
           /\ iid \in eie
           /\ \A other \in eip \intersect eie : iid <= other]_vars
  BY <1>1
<1> QED BY <1>2, InvAlways, PTL DEF Spec, ClaimTakesTop

-----------------------------------------------------------------------------
(* The nested vectored mode *)

\* The inductive invariant: the file's own, the fixed mode, a tail that has
\* no slot in the bitmap, and the bitmap read as a stack.
NInv ==
  /\ Inv
  /\ mode = SnpsNestedVectored
  /\ eithreshold.tail = 0 \/ IsTailed(eithreshold.tail)
  /\ nest \in Seq(Stackable)
  /\ BitmapIsStack

LEMMA NInitInv == NestedInit => NInv
<1> SUFFICES ASSUME NestedInit PROVE NInv
  OBVIOUS
<1> DEFINE et == [ThresholdReset EXCEPT !.nv = TRUE]
<1>1. et \in Threshold /\ et.nv = TRUE /\ et.tail = 0 /\ et.reg = 0
        /\ et.thresholds = {}
  <2>1. 0 \in Iid
    BY ConfigAssumption DEF Iid
  <2>2. /\ ThresholdReset \in Threshold
        /\ ThresholdReset.tail = 0 /\ ThresholdReset.reg = 0
        /\ ThresholdReset.thresholds = {}
    BY <2>1 DEF ThresholdReset, Threshold
  <2> QED BY <2>2 DEF Threshold
<1>2. TypeOK
  <2>1. IsNv(SnpsNestedVectored) = TRUE /\ SnpsNestedVectored \in Modes
    BY DEF IsNv, Modes
  <2>2. 0 \in Iid
    BY ConfigAssumption DEF Iid
  <2> QED BY <1>1, <2>1, <2>2 DEF NestedInit, TypeOK
<1>3. SignalFresh /\ TopeiCached
  BY DEF NestedInit, SignalFresh, TopeiCached, TopeiValue, Signals
<1>4. BitmapIsStack
  BY <1>1 DEF NestedInit, BitmapIsStack
<1> QED BY <1>1, <1>2, <1>3, <1>4 DEF NInv, Inv, NestedInit

\* The same file, same tail and same handlers.
LEMMA SameStack ==
  ASSUME NInv, Inv', UNCHANGED <<mode, eithreshold, nest>>
  PROVE  NInv'
BY DEF NInv, BitmapIsStack

LEMMA AccessKeepsNInv ==
  ASSUME NInv, Access
  PROVE  NInv'
<1>1. Inv /\ mode = SnpsNestedVectored
  BY DEF NInv
<1>2. ASSUME NEW value \in Iid, RouteImsicWrite(value) PROVE NInv'
  <2>1. Inv'
    BY <1>1, <1>2, NextInv DEF Next
  <2> QED BY <1>2, <2>1, SameStack DEF RouteImsicWrite, Access
<1>3. ASSUME NEW i \in Registers, NEW bits \in SUBSET RegisterBits(i),
             WriteEip(i, bits) \/ WriteEie(i, bits)
      PROVE  NInv'
  <2>1. Inv'
    BY <1>1, <1>3, NextInv DEF Next, Software
  <2> QED BY <1>3, <2>1, SameStack DEF WriteEip, WriteEie, Access
<1>4. ASSUME NEW on \in BOOLEAN, WriteEidelivery(on) \/ WriteEnable(on)
      PROVE  NInv'
  <2>1. Inv'
    BY <1>1, <1>4, NextInv DEF Next, Software
  <2> QED BY <1>4, <2>1, SameStack DEF WriteEidelivery, WriteEnable, Access
<1>5. ASSUME NEW val \in Tails, WriteEithreshold(val) PROVE NInv'
  <2>1. val \in 0 .. IMSIC_MAX_IRQS /\ val \in Iid /\ val # 0 /\ IsTailed(val)
    BY ConfigAssumption DEF Tails, IsTailed, Iid
  <2>2. Inv'
    BY <1>1, <1>5, <2>1, NextInv DEF Next
  <2>3. eithreshold \in Threshold /\ eithreshold.nv
    BY <1>1 DEF Inv, TypeOK, IsNv
  <2>4. eithreshold' = TstackPutTail(eithreshold, val)
    BY <1>5, <2>1, <2>3
    DEF WriteEithreshold, EithresholdWrite, WriteSnpsVectored
  <2>5. /\ eithreshold'.tail = val
        /\ eithreshold'.thresholds = eithreshold.thresholds
        /\ eithreshold'.reg = IF IsRegUnstackable(eithreshold)
                              THEN val ELSE eithreshold.reg
    BY <2>3, <2>4 DEF TstackPutTail, Threshold
  <2>6. nest = <<>> => IsRegUnstackable(eithreshold)
    BY DEF NInv, BitmapIsStack, IsRegUnstackable
  <2>7. nest # <<>> => ~ IsRegUnstackable(eithreshold)
    <3> SUFFICES ASSUME nest # <<>> PROVE ~ IsRegUnstackable(eithreshold)
      OBVIOUS
    <3>1. eithreshold.reg = nest[Len(nest)]
      BY DEF NInv, BitmapIsStack
    <3>2. nest[Len(nest)] \in Stackable
      BY DEF NInv
    <3> QED BY <3>1, <3>2 DEF Stackable, ValidIid, IsRegUnstackable
  <2>8. mode' = mode /\ nest' = nest
    BY <1>5 DEF WriteEithreshold, Access
  <2>9. BitmapIsStack'
    BY <2>5, <2>6, <2>7, <2>8 DEF NInv, BitmapIsStack
  <2> QED BY <2>1, <2>2, <2>5, <2>8, <2>9 DEF NInv
<1> QED BY <1>2, <1>3, <1>4, <1>5 DEF Access

\* The pop of the bitmap is the pop of the stack.
LEMMA PopIsPop ==
  ASSUME NInv, eithreshold' = TstackPop(eithreshold), HandlerEnds
  PROVE  /\ BitmapIsStack' /\ nest' \in Seq(Stackable)
         /\ eithreshold'.tail = eithreshold.tail
<1> DEFINE n == Len(nest)
<1>1. /\ eithreshold \in Threshold
      /\ nest \in Seq(Stackable)
      /\ \A i, j \in 1 .. n : i < j => nest[i] > nest[j]
  BY DEF NInv, Inv, TypeOK, BitmapIsStack
<1>2. \A i \in 1 .. n : nest[i] \in Stackable /\ nest[i] \in Nat
  BY <1>1 DEF Stackable, ValidIid
<1>3. eithreshold'.tail = eithreshold.tail
  BY <1>1 DEF TstackPop, Threshold
<1>4. CASE n <= 1
  <2>1. eithreshold.thresholds = {}
    BY <1>1, <1>4 DEF NInv, BitmapIsStack
  <2>2. eithreshold'.reg = eithreshold.tail /\ eithreshold'.thresholds = {}
    BY <1>1, <2>1 DEF TstackPop, Threshold
  <2>3. nest' = <<>>
    BY <1>1, <1>4 DEF HandlerEnds
  <2> QED BY <1>3, <2>2, <2>3 DEF BitmapIsStack
<1>5. CASE n > 1
  <2> DEFINE T == {nest[i] : i \in 1 .. n - 1}
  <2>1. eithreshold.thresholds = T /\ n \in Nat
    BY <1>1, <1>5 DEF NInv, BitmapIsStack
  <2>2. Min(T) = nest[n - 1]
    <3>1. nest[n - 1] \in T /\ T \subseteq Nat
      BY <1>2, <1>5, <2>1
    <3>2. \A y \in T : nest[n - 1] <= y
      BY <1>1, <1>2, <1>5, <2>1
    <3> HIDE DEF T
    <3>3. Min(T) \in T /\ \A y \in T : Min(T) <= y
      BY <3>1, MinIsLeast
    <3>4. Min(T) <= nest[n - 1] /\ nest[n - 1] <= Min(T)
      BY <3>1, <3>2, <3>3
    <3>5. Min(T) \in Nat /\ nest[n - 1] \in Nat
      BY <3>1, <3>3
    <3> QED BY <3>4, <3>5
  <2>3. T \ {Min(T)} = {nest[i] : i \in 1 .. n - 2}
    <3>1. \A i \in 1 .. n - 2 : nest[i] # nest[n - 1]
      BY <1>1, <1>2, <1>5, <2>1
    <3>2. T \ {nest[n - 1]} = {nest[i] : i \in 1 .. n - 2}
      BY <1>5, <2>1, <3>1
    <3> QED BY <2>2, <3>2
  <2>4. T # {}
    <3>1. nest[n - 1] \in T
      BY <1>5, <2>1
    <3> QED BY <3>1
  <2>5. /\ eithreshold'.reg = nest[n - 1]
        /\ eithreshold'.thresholds = {nest[i] : i \in 1 .. n - 2}
    <3> HIDE DEF T
    <3> QED BY <1>1, <2>1, <2>2, <2>3, <2>4 DEF TstackPop, Threshold
  <2>6. /\ nest' \in Seq(Stackable) /\ Len(nest') = n - 1
        /\ \A i \in 1 .. n - 1 : nest'[i] = nest[i]
    BY <1>1, <1>5, <2>1 DEF HandlerEnds
  <2>7. nest' # <<>>
    BY <1>5, <2>1, <2>6
  <2>8. eithreshold'.thresholds = {nest'[i] : i \in 1 .. Len(nest') - 1}
    BY <1>5, <2>1, <2>5, <2>6
  <2>9. eithreshold'.reg = nest'[Len(nest')]
    BY <1>5, <2>1, <2>5, <2>6
  <2>10. \A i, j \in 1 .. Len(nest') : i < j => nest'[i] > nest'[j]
    BY <1>1, <1>5, <2>1, <2>6
  <2> QED BY <1>3, <2>6, <2>7, <2>8, <2>9, <2>10 DEF BitmapIsStack
<1> QED BY <1>1, <1>4, <1>5

LEMMA ClaimKeepsNInv ==
  ASSUME NInv, NEW zero \in BOOLEAN, NEW readAccessed \in BOOLEAN,
         Claim(zero, readAccessed)
  PROVE  NInv'
<1>1. Inv' /\ mode' = mode
  BY NextInv DEF NInv, Claim, ClaimTopei, Next, Software
<1>2. CASE MarksHandled(zero, readAccessed)
  <2>1. eithreshold' = TstackPop(eithreshold) /\ HandlerEnds
    BY <1>2 DEF Claim, ClaimTopei, MarkIrqAsHandled
  <2> QED BY <1>1, <2>1, PopIsPop DEF NInv
<1>3. CASE ~ MarksHandled(zero, readAccessed)
  <2>1. UNCHANGED <<mode, eithreshold, nest>>
    BY <1>1, <1>3 DEF Claim, ClaimTopei
  <2> QED BY <1>1, <2>1, SameStack
<1> QED BY <1>2, <1>3

\* The level entered is more urgent than every handler that is suspended.
LEMMA EnteredIsMoreUrgent ==
  ASSUME NInv, EnterHandler
  PROVE  /\ StackLevel(topei) \in Stackable
         /\ nest # <<>> => StackLevel(topei) < nest[Len(nest)]
         /\ eithreshold.tail # 0 => StackLevel(topei) < eithreshold.tail
<1>1. topei \in ValidIid /\ topei < EffectiveThreshold(eithreshold)
  BY TopeiIsTop DEF NInv, EnterHandler, TakeInterrupt, TopeiNamesSignalled
<1>2. StackLevel(topei) \in Stackable
  BY <1>1, StackLevelType
<1>3. ASSUME nest # <<>> PROVE StackLevel(topei) < nest[Len(nest)]
  <2>1. nest[Len(nest)] \in Stackable /\ eithreshold.reg = nest[Len(nest)]
    BY <1>3 DEF NInv, BitmapIsStack
  <2> QED BY <1>1, <2>1, ConfigAssumption
          DEF EffectiveThreshold, Stackable, ValidIid, IsTailed, StackLevel
<1>4. ASSUME eithreshold.tail # 0
      PROVE  StackLevel(topei) < eithreshold.tail
  <2>1. eithreshold.tail \in Nat /\ IsTailed(eithreshold.tail)
    BY <1>4, ConfigAssumption DEF NInv, Inv, TypeOK, Threshold, Iid
  <2> QED BY <1>2, <2>1, ConfigAssumption DEF Stackable, ValidIid, IsTailed
<1> QED BY <1>2, <1>3, <1>4

LEMMA EnterKeepsNInv ==
  ASSUME NInv, EnterHandler
  PROVE  NInv'
<1> DEFINE n == Len(nest)
           level == StackLevel(topei)
<1>1. Inv' /\ mode' = mode
  BY NextInv DEF NInv, EnterHandler, TakeInterrupt, Next
<1>2. /\ eithreshold \in Threshold /\ eithreshold.nv
      /\ nest \in Seq(Stackable) /\ n \in Nat
      /\ \A i, j \in 1 .. n : i < j => nest[i] > nest[j]
  <2>1. eithreshold \in Threshold /\ eithreshold.nv
    BY DEF NInv, Inv, TypeOK, IsNv
  <2>2. nest \in Seq(Stackable) /\ n \in Nat
    BY DEF NInv
  <2> QED BY <2>1, <2>2 DEF NInv, BitmapIsStack
<1>3. eithreshold' = TstackInsert(eithreshold, level)
  BY <1>2 DEF EnterHandler, TakeInterrupt, UpdateWithNewIrq, NInv, IsNv
<1>4. level \in Stackable /\ (nest # <<>> => level < nest[n])
  BY EnteredIsMoreUrgent
<1> HIDE DEF level
<1>5. nest' = Append(nest, level)
  BY DEF EnterHandler, level
<1>6. /\ nest' \in Seq(Stackable) /\ Len(nest') = n + 1 /\ nest' # <<>>
      /\ nest'[n + 1] = level
      /\ \A i \in 1 .. n : nest'[i] = nest[i]
  BY <1>2, <1>4, <1>5
<1>7. \A i \in 1 .. n : nest[i] \in Nat /\ level < nest[i]
  <2>1. level \in Nat /\ \A i \in 1 .. n : nest[i] \in Nat
    BY <1>2, <1>4 DEF Stackable, ValidIid
  <2> QED BY <1>2, <1>4, <2>1
<1>8. \A i, j \in 1 .. n + 1 : i < j => nest'[i] > nest'[j]
  <2> SUFFICES ASSUME NEW i \in 1 .. n + 1, NEW j \in 1 .. n + 1, i < j
               PROVE  nest'[i] > nest'[j]
    OBVIOUS
  <2>1. i \in 1 .. n /\ nest'[i] = nest[i]
    BY <1>2, <1>6
  <2>2. CASE j = n + 1
    BY <1>4, <1>6, <1>7, <2>1, <2>2 DEF Stackable, ValidIid
  <2>3. CASE j # n + 1
    BY <1>2, <1>6, <2>1, <2>3
  <2> QED BY <2>2, <2>3
<1>9. CASE nest = <<>>
  <2>1. IsRegUnstackable(eithreshold) /\ eithreshold.thresholds = {}
    BY <1>9 DEF NInv, BitmapIsStack, IsRegUnstackable
  <2>2. /\ eithreshold'.reg = level /\ eithreshold'.thresholds = {}
        /\ eithreshold'.tail = eithreshold.tail
    BY <1>2, <1>3, <2>1 DEF TstackInsert, Threshold
  <2>3. n = 0
    BY <1>9
  <2>4. {nest'[i] : i \in 1 .. Len(nest') - 1} = {}
    BY <1>6, <2>3
  <2>5. BitmapIsStack'
    BY <1>6, <1>8, <2>2, <2>3, <2>4 DEF BitmapIsStack
  <2> QED BY <1>1, <1>6, <2>2, <2>5 DEF NInv
<1>10. CASE nest # <<>>
  <2>1. /\ eithreshold.reg = nest[n] /\ n >= 1
        /\ eithreshold.thresholds = {nest[i] : i \in 1 .. n - 1}
    BY <1>2, <1>10 DEF NInv, BitmapIsStack
  <2>2. nest[n] \in Stackable /\ level < nest[n]
    BY <1>2, <1>4, <1>10
  <2>3. ~ IsRegUnstackable(eithreshold) /\ eithreshold.reg > level
    BY <1>4, <2>1, <2>2 DEF IsRegUnstackable, Stackable, ValidIid
  <2>4. /\ eithreshold'.reg = level
        /\ eithreshold'.thresholds = eithreshold.thresholds \union {nest[n]}
        /\ eithreshold'.tail = eithreshold.tail
    BY <1>2, <1>3, <2>1, <2>3 DEF TstackInsert, Threshold
  <2>5. eithreshold'.thresholds = {nest'[i] : i \in 1 .. n}
    BY <1>2, <1>6, <2>1, <2>4
  <2>6. BitmapIsStack'
    <3>1. Len(nest') = n + 1 /\ Len(nest') - 1 = n
      BY <1>2, <1>6
    <3>2. /\ eithreshold'.reg = nest'[Len(nest')]
          /\ eithreshold'.thresholds = {nest'[i] : i \in 1 .. Len(nest') - 1}
      BY <1>6, <2>4, <2>5, <3>1
    <3>3. \A i, j \in 1 .. Len(nest') : i < j => nest'[i] > nest'[j]
      BY <1>8, <3>1
    <3> QED BY <1>6, <3>2, <3>3 DEF BitmapIsStack
  <2> QED BY <1>1, <1>6, <2>4, <2>6 DEF NInv
<1> QED BY <1>9, <1>10

LEMMA NNextInv == NInv /\ [NestedNext]_nvars => NInv'
<1> SUFFICES ASSUME NInv, [NestedNext]_nvars PROVE NInv'
  OBVIOUS
<1>1. CASE UNCHANGED nvars
  <2>1. Inv'
    BY <1>1, NextInv DEF NInv, nvars, vars
  <2> QED BY <1>1, <2>1, SameStack DEF nvars
<1> QED BY <1>1, AccessKeepsNInv, ClaimKeepsNInv, EnterKeepsNInv
        DEF NestedNext

LEMMA NInvAlways == NestedSpec => []NInv
BY NInitInv, NNextInv, PTL DEF NestedSpec

-----------------------------------------------------------------------------
\* The threshold bitmap is exactly the stack of the handlers entered and not
\* yet completed.
THEOREM BitmapAlwaysStack == NestedSpec => []BitmapIsStack
<1>1. NInv => BitmapIsStack
  BY DEF NInv
<1> QED BY <1>1, NInvAlways, PTL

LEMMA AccessRefines ==
  ASSUME NInv, Access
  PROVE  [Abstract!Next]_<<nest, eithreshold.tail>>
<1>1. nest' = nest
  BY DEF Access
<1>2. CASE \E val \in Tails : WriteEithreshold(val)
  <2>1. PICK val \in Tails : WriteEithreshold(val)
    BY <1>2
  <2>2. val \in Iid /\ val # 0 /\ IsTailed(val)
    BY ConfigAssumption DEF Tails, IsTailed, Iid
  <2>3. eithreshold'.tail = val
    BY <2>1, <2>2
    DEF NInv, Inv, TypeOK, IsNv, WriteEithreshold, EithresholdWrite,
        WriteSnpsVectored, TstackPutTail, Threshold
  <2> QED BY <1>1, <2>3 DEF Abstract!Next, Abstract!SetTail
<1>3. CASE ~ \E val \in Tails : WriteEithreshold(val)
  <2>1. eithreshold' = eithreshold
    BY <1>3 DEF Access, RouteImsicWrite, WriteEip, WriteEie, WriteEidelivery,
       WriteEnable
  <2> QED BY <1>1, <2>1
<1> QED BY <1>2, <1>3

LEMMA ClaimRefines ==
  ASSUME NInv, NEW zero \in BOOLEAN, NEW readAccessed \in BOOLEAN,
         Claim(zero, readAccessed)
  PROVE  [Abstract!Next]_<<nest, eithreshold.tail>>
<1>1. CASE MarksHandled(zero, readAccessed)
  <2>1. eithreshold' = TstackPop(eithreshold) /\ HandlerEnds
    BY <1>1 DEF Claim, ClaimTopei, MarkIrqAsHandled
  <2>2. eithreshold'.tail = eithreshold.tail
    BY <2>1, PopIsPop
  <2> QED BY <2>1, <2>2 DEF HandlerEnds, Abstract!Next, Abstract!Complete
<1>2. CASE ~ MarksHandled(zero, readAccessed)
  BY <1>2 DEF Claim, ClaimTopei
<1> QED BY <1>1, <1>2

LEMMA EnterRefines ==
  ASSUME NInv, EnterHandler
  PROVE  [Abstract!Next]_<<nest, eithreshold.tail>>
<1> DEFINE level == StackLevel(topei)
<1>1. /\ level \in Stackable
      /\ nest # <<>> => level < nest[Len(nest)]
      /\ eithreshold.tail # 0 => level < eithreshold.tail
  BY EnteredIsMoreUrgent
<1>2. nest' = Append(nest, level)
  BY DEF EnterHandler
<1>3. eithreshold'.tail = eithreshold.tail
  BY DEF EnterHandler, TakeInterrupt, UpdateWithNewIrq, TstackInsert, NInv,
     Inv, TypeOK, Threshold
<1> HIDE DEF level
<1>4. level \in Levels
  BY <1>1, ConfigAssumption DEF Stackable, ValidIid, IsTailed, Levels
<1>5. Abstract!Preempt(level)
  BY <1>1, <1>2, <1>3
  DEF Abstract!Preempt, Abstract!InForce, Abstract!NoThreshold
<1> QED BY <1>4, <1>5 DEF Abstract!Next

\* In nested vectored mode an interrupt file implements PreemptStack: the
\* bitmap and register of the code behave as a stack of handlers.
THEOREM NestingRefines == NestedSpec => NestsLikeCalls
<1>1. NestedInit => Abstract!Init
  BY DEF NestedInit, ThresholdReset, Abstract!Init, Abstract!NoThreshold
<1>2. NInv /\ [NestedNext]_nvars => [Abstract!Next]_<<nest, eithreshold.tail>>
  <2> SUFFICES ASSUME NInv, [NestedNext]_nvars
               PROVE  [Abstract!Next]_<<nest, eithreshold.tail>>
    OBVIOUS
  <2>1. CASE UNCHANGED nvars
    BY <2>1 DEF nvars
  <2> QED BY <2>1, AccessRefines, ClaimRefines, EnterRefines DEF NestedNext
<1> QED BY <1>1, <1>2, NInvAlways, PTL
        DEF NestedSpec, NestsLikeCalls, Abstract!Spec, Abstract!svars
=============================================================================
