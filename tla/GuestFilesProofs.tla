-------------------------- MODULE GuestFilesProofs --------------------------
(***************************************************************************)
(* Theorems about the guest interrupt files of a hart, for every number of *)
(* guests, identities and vectors.                                         *)
(*                                                                         *)
(* What mip and vstopei show is inductive only with VstopeiCached: a write *)
(* of vstvec changes how the connected file nests and leaves vstopei as it *)
(* was computed under the mode before.                                     *)
(***************************************************************************)
EXTENDS GuestFiles, WellFoundedInduction, TLAPS

-----------------------------------------------------------------------------
(* The operators every interrupt file is built from, for any number of     *)
(* identities and vectors: the scan for the top interrupt, the threshold   *)
(* stack and the value shown in xtopei.                                    *)

\* A nonempty set of naturals has a least element, and Min finds it.
LEMMA MinIsLeast ==
  ASSUME NEW S, S \subseteq Nat, S # {}
  PROVE  Min(S) \in S /\ \A y \in S : Min(S) <= y
<1>1. \E x \in S : \A y \in S : ~ (<<y, x>> \in OpToRel(<, Nat))
  BY NatLessThanWellFounded, WFMin
<1>2. PICK x \in S : \A y \in S : ~ (<<y, x>> \in OpToRel(<, Nat))
  BY <1>1
<1>3. \A y \in S : x <= y
  <2>1. SUFFICES ASSUME NEW y \in S PROVE x <= y
    OBVIOUS
  <2>2. y \in Nat /\ x \in Nat
    OBVIOUS
  <2>3. ~ (y < x)
    BY <1>2, <2>2 DEF OpToRel
  <2> QED BY <2>2, <2>3
<1> QED BY <1>3 DEF Min

\* The scan returns the least pending and enabled identity or, when there is
\* none, a value that beats no threshold.
LEMMA ActiveIidIsTop ==
  ASSUME NEW p \in SUBSET ValidIid, NEW e \in SUBSET ValidIid
  PROVE  /\ p \intersect e # {} =>
              /\ ActiveIid(p, e) \in p \intersect e
              /\ \A iid \in p \intersect e : ActiveIid(p, e) <= iid
         /\ p \intersect e = {} => ActiveIid(p, e) = NO_IRQ_PENDING
<1>1. CASE p \intersect e # {}
  <2>1. p \intersect e \subseteq Nat
    BY ConfigAssumption DEF ValidIid
  <2>2. /\ Min(p \intersect e) \in p \intersect e
        /\ \A y \in p \intersect e : Min(p \intersect e) <= y
    BY <1>1, <2>1, MinIsLeast
  <2> QED BY <1>1, <2>2 DEF ActiveIid
<1>2. CASE p \intersect e = {}
  BY <1>2 DEF ActiveIid
<1> QED BY <1>1, <1>2

\* Pops and pushes of the threshold stack keep its types.
LEMMA PopType ==
  ASSUME NEW et \in Threshold
  PROVE  TstackPop(et) \in Threshold /\ TstackPop(et).nv = et.nv
<1>1. CASE et.thresholds = {}
  BY <1>1 DEF TstackPop, Threshold
<1>2. CASE et.thresholds # {}
  <2>1. et.thresholds \subseteq Nat
    BY ConfigAssumption DEF Threshold, Stackable, ValidIid
  <2>2. Min(et.thresholds) \in et.thresholds
    BY <1>2, <2>1, MinIsLeast
  <2>3. Min(et.thresholds) \in Iid
    BY <2>2, ConfigAssumption DEF Threshold, Stackable, Iid, ValidIid
  <2> QED BY <1>2, <2>3 DEF TstackPop, Threshold
<1> QED BY <1>1, <1>2

LEMMA InsertType ==
  ASSUME NEW et \in Threshold, NEW iid \in ValidIid
  PROVE  TstackInsert(et, iid) \in Threshold /\ TstackInsert(et, iid).nv = et.nv
<1>1. iid \in Iid
  BY ConfigAssumption DEF ValidIid, Iid
<1>2. CASE IsRegUnstackable(et)
  BY <1>1, <1>2 DEF TstackInsert, Threshold
<1>3. CASE ~ IsRegUnstackable(et)
  <2>1. et.reg \in Stackable
    BY <1>3, ConfigAssumption
    DEF IsRegUnstackable, Stackable, Threshold, Iid, ValidIid
  <2> QED BY <1>1, <1>3, <2>1 DEF TstackInsert, Threshold
<1> QED BY <1>2, <1>3

LEMMA StackLevelType ==
  ASSUME NEW iid \in ValidIid
  PROVE  StackLevel(iid) \in Stackable
BY ConfigAssumption DEF StackLevel, Stackable, IsTailed, ValidIid

LEMMA WriteType ==
  ASSUME NEW et \in Threshold, NEW val
  PROVE  EithresholdWrite(et, val) \in Threshold /\
         EithresholdWrite(et, val).nv = et.nv
<1>1. CASE val \notin Iid
  BY <1>1 DEF EithresholdWrite
<1>2. CASE val \in Iid /\ ~ et.nv
  BY <1>2 DEF EithresholdWrite, Threshold
<1>3. CASE val \in Iid /\ et.nv
  <2>1. CASE val = 0
    BY <1>3, <2>1, PopType DEF EithresholdWrite, WriteSnpsVectored
  <2>2. CASE val # 0 /\ IsTailed(val)
    BY <1>3, <2>2
    DEF EithresholdWrite, WriteSnpsVectored, TstackPutTail, Threshold
  <2>3. CASE val # 0 /\ ~ IsTailed(val)
    <3>1. val \in ValidIid
      BY <1>3, <2>3, ConfigAssumption DEF Iid, ValidIid
    <3> QED BY <1>3, <2>3, <3>1, InsertType
            DEF EithresholdWrite, WriteSnpsVectored
  <2> QED BY <2>1, <2>2, <2>3
<1> QED BY <1>1, <1>2, <1>3 DEF Threshold

\* What xtopei shows is an identity: the "nothing pending" value is cut to 0
\* by the width of the field and no identity is cut.
LEMMA TopeiType ==
  ASSUME NEW p \in SUBSET ValidIid, NEW e \in SUBSET ValidIid,
         NEW d \in BOOLEAN, NEW et \in Threshold, NEW nv \in BOOLEAN
  PROVE  /\ Signals(p, e, d, et) \in BOOLEAN
         /\ TopeiValue(p, e, d, et, nv) \in Iid
         /\ Signals(p, e, d, et) =>
              /\ TopeiValue(p, e, d, et, nv) = ActiveIid(p, e)
              /\ ActiveIid(p, e) \in p \intersect e
              /\ ActiveIid(p, e) < EffectiveThreshold(et)
         /\ TopeiValue(p, e, d, et, nv) # 0 =>
              /\ TopeiValue(p, e, d, et, nv) = ActiveIid(p, e)
              /\ ActiveIid(p, e) \in p \intersect e
<1>1. /\ IMSIC_MAX_IRQS \in Nat \ {0}
      /\ TOPEI_IID_MOD \in Nat
      /\ TOPEI_IID_MOD >= IMSIC_MAX_IRQS
      /\ NO_IRQ_PENDING % TOPEI_IID_MOD = 0
  BY ConfigAssumption, TopeiAssumption DEF NO_IRQ_PENDING
<1>2. EffectiveThreshold(et) \in 1 .. IMSIC_MAX_IRQS
  BY <1>1 DEF EffectiveThreshold, Threshold, Iid
<1>3. CASE p \intersect e # {}
  <2>1. ActiveIid(p, e) \in p \intersect e
    BY <1>3, ActiveIidIsTop
  <2>2. ActiveIid(p, e) \in 1 .. IMSIC_MAX_IRQS - 1
    BY <2>1 DEF ValidIid
  <2>3. ActiveIid(p, e) % TOPEI_IID_MOD = ActiveIid(p, e)
    BY <1>1, <2>2
  <2> QED BY <1>1, <1>2, <2>1, <2>2, <2>3 DEF TopeiValue, Signals, Iid
<1>4. CASE p \intersect e = {}
  <2>1. ActiveIid(p, e) = NO_IRQ_PENDING
    BY <1>4, ActiveIidIsTop
  <2>2. ~ (NO_IRQ_PENDING < EffectiveThreshold(et))
    BY <1>1, <1>2 DEF NO_IRQ_PENDING
  <2> QED BY <1>1, <2>1, <2>2 DEF TopeiValue, Signals, Iid
<1> QED BY <1>3, <1>4

-----------------------------------------------------------------------------
(* The files of the guests.                                                *)

\* The registers alone, before mip and vstopei are recomputed from them.
RegistersOK ==
  /\ bank \in [Guests -> Bank]
  /\ vgein \in 0 .. MAX_GUEST
  /\ vsMode \in Modes
  /\ hgeie \in SUBSET Guests
  /\ Connected(vgein) => bank[vgein].eithreshold.nv = IsNv(vsMode)

LEMMA ConnectedIsGuest ==
  ASSUME NEW v \in 0 .. MAX_GUEST, Connected(v)
  PROVE  v \in Guests
BY GuestAssumption DEF Connected, Guests

\* The signal and the top interrupt of a file: TopeiType for a record.
LEMMA BankTopeiType ==
  ASSUME NEW b \in Bank, NEW nv \in BOOLEAN
  PROVE  LET top == TopeiValue(b.eip, b.eie, b.eidelivery, b.eithreshold, nv)
         IN  /\ BankSignals(b) \in BOOLEAN
             /\ top \in Iid
             /\ BankSignals(b) \/ top # 0 =>
                  /\ top \in b.eip \intersect b.eie
                  /\ \A iid \in b.eip \intersect b.eie : top <= iid
<1>1. /\ b.eip \in SUBSET ValidIid /\ b.eie \in SUBSET ValidIid
      /\ b.eidelivery \in BOOLEAN /\ b.eithreshold \in Threshold
  BY DEF Bank
<1>2. b.eip \intersect b.eie # {} =>
        \A iid \in b.eip \intersect b.eie : ActiveIid(b.eip, b.eie) <= iid
  BY <1>1, ActiveIidIsTop
<1> QED BY <1>1, <1>2, TopeiType DEF BankSignals

\* compute_imsic_pending_interrupts_vs establishes the invariant from the
\* registers, whatever mip and vstopei were.
LEMMA RecomputeInv ==
  ASSUME RegistersOK', ComputeVs
  PROVE  Inv'
<1>1. /\ bank' \in [Guests -> Bank] /\ vgein' \in 0 .. MAX_GUEST
      /\ vsMode' \in Modes /\ hgeie' \in SUBSET Guests
      /\ Connected(vgein') => bank'[vgein'].eithreshold.nv = IsNv(vsMode')
  BY DEF RegistersOK
<1>2. GuestSignalsFresh'
  BY DEF GuestSignalsFresh, ComputeVs, RecalcSgeip
<1>3. hgeip' \in SUBSET Guests /\ sgeip' \in BOOLEAN
  BY DEF ComputeVs, RecalcSgeip
<1>4. CASE Connected(vgein')
  <2>1. bank'[vgein'] \in Bank
    BY <1>1, <1>4, ConnectedIsGuest
  <2> DEFINE b == bank'[vgein']
             nv == IsNv(vsMode')
             top == TopeiValue(b.eip, b.eie, b.eidelivery, b.eithreshold, nv)
  <2>2. nv \in BOOLEAN
    BY DEF IsNv
  <2>3. /\ BankSignals(b) \in BOOLEAN /\ top \in Iid
        /\ BankSignals(b) => /\ top \in b.eip \intersect b.eie
                             /\ \A iid \in b.eip \intersect b.eie : top <= iid
    BY <2>1, <2>2, BankTopeiType
  <2>4. vseip' = BankSignals(b) /\ vstopei' = top
    BY <1>4, <2>3 DEF ComputeVs, BankTopei
  <2>5. TypeOK'
    BY <1>1, <1>3, <2>4, <2>3 DEF TypeOK
  <2>6. RunningGuestSeesItsFile'
    BY <1>1, <1>4, <2>4, <2>3 DEF RunningGuestSeesItsFile
  <2>7. VstopeiCached'
    BY <1>4, <2>2, <2>4 DEF VstopeiCached
  <2> QED BY <1>2, <2>5, <2>6, <2>7 DEF Inv
<1>5. CASE ~ Connected(vgein')
  <2>1. vseip' = FALSE
    BY <1>5, Zenon DEF ComputeVs
  <2>2. vstopei' = 0 /\ 0 \in Iid
    BY <1>5, ConfigAssumption DEF ComputeVs, Iid
  <2>3. TypeOK'
    BY <1>1, <1>3, <2>1, <2>2 DEF TypeOK
  <2>4. RunningGuestSeesItsFile' /\ VstopeiCached'
    BY <1>5, <2>1, <2>2 DEF RunningGuestSeesItsFile, VstopeiCached
  <2> QED BY <1>2, <2>3, <2>4 DEF Inv
<1> QED BY <1>4, <1>5

\* vstopei is 0 or the connected file's top pending and enabled identity.
LEMMA VstopeiIsTop ==
  ASSUME Inv, Connected(vgein), vseip \/ vstopei # 0
  PROVE  /\ vgein \in Guests /\ bank[vgein] \in Bank
         /\ vstopei \in bank[vgein].eip \intersect bank[vgein].eie
         /\ \A iid \in bank[vgein].eip \intersect bank[vgein].eie : vstopei <= iid
         /\ vstopei \in ValidIid
<1>1. vgein \in Guests /\ bank[vgein] \in Bank
  BY ConnectedIsGuest DEF Inv, TypeOK
<1>2. PICK nv \in BOOLEAN :
        vstopei = TopeiValue(bank[vgein].eip, bank[vgein].eie,
                     bank[vgein].eidelivery, bank[vgein].eithreshold, nv)
  BY DEF Inv, VstopeiCached
<1>3. vseip => BankSignals(bank[vgein])
  BY DEF Inv, RunningGuestSeesItsFile
<1>4. /\ vstopei \in bank[vgein].eip \intersect bank[vgein].eie
      /\ \A iid \in bank[vgein].eip \intersect bank[vgein].eie : vstopei <= iid
  BY <1>1, <1>2, <1>3, BankTopeiType
<1> QED BY <1>1, <1>4 DEF Bank

-----------------------------------------------------------------------------
\* A change of the connected file that keeps its mode.
LEMMA ConnectedChanges ==
  ASSUME Inv, Connected(vgein), NEW b \in Bank,
         b.eithreshold.nv = bank[vgein].eithreshold.nv,
         bank' = [bank EXCEPT ![vgein] = b],
         UNCHANGED <<vgein, vsMode, hgeie>>
  PROVE  RegistersOK'
<1>1. vgein \in Guests
  BY ConnectedIsGuest DEF Inv, TypeOK
<1> QED BY <1>1 DEF Inv, TypeOK, RunningGuestSeesItsFile, RegistersOK

\* The registers of a file after a pop, a push or a write of its threshold.
LEMMA WithThreshold ==
  ASSUME NEW b \in Bank, NEW et \in Threshold
  PROVE  [b EXCEPT !.eithreshold = et] \in Bank
BY DEF Bank

\* update_interrupt_mode tells the connected file the mode.
LEMMA ModeReachesConnected ==
  ASSUME NEW bs \in [Guests -> Bank], NEW v \in 0 .. MAX_GUEST, NEW m \in Modes
  PROVE  /\ WithMode(bs, v, m) \in [Guests -> Bank]
         /\ Connected(v) => WithMode(bs, v, m)[v].eithreshold.nv = IsNv(m)
<1>1. CASE Connected(v)
  <2>1. v \in Guests /\ bs[v] \in Bank /\ bs[v].eithreshold \in Threshold
    BY <1>1, ConnectedIsGuest DEF Bank
  <2> DEFINE et == SetModeSnpsVectored(bs[v].eithreshold, IsNv(m))
             b == [bs[v] EXCEPT !.eithreshold = et]
  <2>2. IsNv(m) \in BOOLEAN
    BY DEF IsNv
  <2>3. et \in Threshold /\ et.nv = IsNv(m)
    BY <2>1, <2>2 DEF SetModeSnpsVectored, Threshold
  <2>4. b \in Bank /\ b.eithreshold = et
    BY <2>1, <2>3, WithThreshold DEF Bank
  <2>5. WithMode(bs, v, m) = [bs EXCEPT ![v] = b]
    BY <1>1 DEF WithMode
  <2> QED BY <2>1, <2>3, <2>4, <2>5
<1>2. CASE ~ Connected(v)
  BY <1>2 DEF WithMode
<1> QED BY <1>1, <1>2

LEMMA InitInv == Init => Inv
<1> SUFFICES ASSUME Init PROVE Inv
  OBVIOUS
<1>1. ThresholdReset \in Threshold /\ 0 \in Iid
  BY ConfigAssumption DEF ThresholdReset, Threshold, Iid
<1>2. BankReset \in Bank /\ BankReset.eidelivery = FALSE
  BY <1>1 DEF BankReset, Bank
<1>3. \A g \in Guests : ~ BankSignals(bank[g])
  BY <1>2 DEF Init, BankSignals, Signals
<1>4. ~ Connected(vgein)
  BY DEF Init, Connected
<1>5. TypeOK
  <2>1. vgein \in 0 .. MAX_GUEST /\ vstopei \in Iid /\ Direct \in Modes
    BY <1>1, GuestAssumption DEF Init, Modes
  <2> QED BY <1>2, <2>1 DEF Init, TypeOK
<1>6. GuestSignalsFresh
  BY <1>3 DEF Init, GuestSignalsFresh
<1>7. RunningGuestSeesItsFile
  BY <1>4 DEF Init, RunningGuestSeesItsFile
<1>8. VstopeiCached
  BY <1>4 DEF VstopeiCached
<1> QED BY <1>5, <1>6, <1>7, <1>8 DEF Inv

\* One register of the connected file.
LEMMA VsiregKeepsInv ==
  ASSUME Inv, AccessVsireg
  PROVE  Inv'
<1> DEFINE b == bank[vgein]
<1>1. /\ Connected(vgein) /\ b \in Bank
      /\ b.eip \in SUBSET ValidIid /\ b.eie \in SUBSET ValidIid
      /\ b.eithreshold \in Threshold
  BY ConnectedIsGuest DEF AccessVsireg, Inv, TypeOK, Bank
<1>2. ASSUME NEW new \in Bank, new.eithreshold.nv = b.eithreshold.nv,
             WriteVsireg(new)
      PROVE  Inv'
  BY <1>1, <1>2, ConnectedChanges, RecomputeInv DEF WriteVsireg
<1>3. ASSUME NEW i \in Registers, NEW bits \in SUBSET RegisterBits(i),
             \/ WriteVsireg([b EXCEPT !.eip = (@ \ RegisterBits(i)) \union bits])
             \/ WriteVsireg([b EXCEPT !.eie = (@ \ RegisterBits(i)) \union bits])
      PROVE  Inv'
  <2>1. /\ (b.eip \ RegisterBits(i)) \union bits \in SUBSET ValidIid
        /\ (b.eie \ RegisterBits(i)) \union bits \in SUBSET ValidIid
    BY <1>1 DEF RegisterBits
  <2>2. ASSUME NEW set \in SUBSET ValidIid
        PROVE  /\ [b EXCEPT !.eip = set] \in Bank
               /\ [b EXCEPT !.eip = set].eithreshold = b.eithreshold
               /\ [b EXCEPT !.eie = set] \in Bank
               /\ [b EXCEPT !.eie = set].eithreshold = b.eithreshold
    BY <1>1 DEF Bank
  <2> QED BY <1>2, <1>3, <2>1, <2>2
<1>4. ASSUME NEW on \in BOOLEAN, WriteVsireg([b EXCEPT !.eidelivery = on])
      PROVE  Inv'
  <2>1. /\ [b EXCEPT !.eidelivery = on] \in Bank
        /\ [b EXCEPT !.eidelivery = on].eithreshold = b.eithreshold
    BY <1>1 DEF Bank
  <2> QED BY <1>2, <1>4, <2>1
<1>5. ASSUME NEW val,
             WriteVsireg([b EXCEPT !.eithreshold = EithresholdWrite(@, val)])
      PROVE  Inv'
  <2> DEFINE et == EithresholdWrite(b.eithreshold, val)
  <2>1. et \in Threshold /\ et.nv = b.eithreshold.nv
    BY <1>1, WriteType
  <2>2. /\ [b EXCEPT !.eithreshold = et] \in Bank
        /\ [b EXCEPT !.eithreshold = et].eithreshold = et
    BY <1>1, <2>1 DEF Bank
  <2> QED BY <1>2, <1>5, <2>1, <2>2
<1> QED BY <1>3, <1>4, <1>5 DEF AccessVsireg

\* A claim through vstopei, and the end of a nested handler.
LEMMA ClaimKeepsInv ==
  ASSUME Inv, NEW zero \in BOOLEAN, NEW readAccessed \in BOOLEAN,
         ClaimVstopei(zero, readAccessed)
  PROVE  Inv'
<1> DEFINE b == bank[vgein]
<1>1. /\ Connected(vgein) /\ vgein \in Guests /\ b \in Bank
      /\ b.eip \in SUBSET ValidIid /\ b.eithreshold \in Threshold
  BY ConnectedIsGuest DEF ClaimVstopei, Inv, TypeOK, Bank
<1>2. CASE IsNv(vsMode) /\ zero /\ ~ readAccessed
  <2> DEFINE et == MarkIrqAsHandled(b.eithreshold)
             new == [b EXCEPT !.eithreshold = et]
  <2>1. et \in Threshold /\ et.nv = b.eithreshold.nv
    BY <1>1, PopType DEF MarkIrqAsHandled
  <2>2. new \in Bank /\ new.eithreshold.nv = b.eithreshold.nv
    BY <1>1, <2>1 DEF Bank
  <2>3. bank' = [bank EXCEPT ![vgein] = new]
    BY <1>1, <1>2 DEF ClaimVstopei
  <2> QED BY <1>1, <2>2, <2>3, ConnectedChanges, RecomputeInv DEF ClaimVstopei
<1>3. CASE ~ (IsNv(vsMode) /\ zero /\ ~ readAccessed)
  <2> DEFINE new == [b EXCEPT !.eip = @ \ {vstopei}]
  <2>1. new \in Bank /\ new.eithreshold.nv = b.eithreshold.nv
    BY <1>1 DEF Bank
  <2>2. bank' = [bank EXCEPT ![vgein] = new]
    BY <1>1, <1>3 DEF ClaimVstopei
  <2> QED BY <1>1, <2>1, <2>2, ConnectedChanges, RecomputeInv DEF ClaimVstopei
<1> QED BY <1>2, <1>3

\* The guest's interrupt taken in nested vectored mode.
LEMMA TakeKeepsInv ==
  ASSUME Inv, TakeVsInterrupt
  PROVE  Inv'
<1> DEFINE b == bank[vgein]
           et == UpdateWithNewIrq(b.eithreshold, vstopei)
           new == [b EXCEPT !.eithreshold = et, !.eip = @ \ {vstopei}]
<1>1. Connected(vgein)
  BY DEF TakeVsInterrupt, Inv, RunningGuestSeesItsFile
<1>2. vgein \in Guests /\ b \in Bank /\ vstopei \in ValidIid
  BY <1>1, VstopeiIsTop DEF TakeVsInterrupt
<1>3. StackLevel(vstopei) \in ValidIid /\ b.eithreshold \in Threshold
  BY <1>2, StackLevelType DEF Stackable, Bank
<1>4. et \in Threshold /\ et.nv = b.eithreshold.nv
  BY <1>3, InsertType DEF UpdateWithNewIrq
<1>5. new \in Bank /\ new.eithreshold.nv = b.eithreshold.nv
  BY <1>2, <1>4 DEF Bank
<1>6. bank' = [bank EXCEPT ![vgein] = new]
  BY <1>2 DEF TakeVsInterrupt
<1> QED BY <1>1, <1>5, <1>6, ConnectedChanges, RecomputeInv DEF TakeVsInterrupt

\* vstvec: the signals do not depend on how a file nests.
LEMMA TvecKeepsInv ==
  ASSUME Inv, NEW m \in ModeWrites, WriteVstvec(m)
  PROVE  Inv'
<1>1. /\ bank \in [Guests -> Bank] /\ vgein \in 0 .. MAX_GUEST
      /\ vsMode' \in Modes /\ bank' = WithMode(bank, vgein, vsMode')
      /\ UNCHANGED <<vgein, hgeip, hgeie, sgeip, vseip, vstopei>>
  BY DEF WriteVstvec, TvecMode, Modes, Inv, TypeOK
<1>2. /\ bank' \in [Guests -> Bank]
      /\ Connected(vgein) => bank'[vgein].eithreshold.nv = IsNv(vsMode')
  BY <1>1, ModeReachesConnected
<1>3. \A g \in Guests :
        /\ bank'[g].eip = bank[g].eip /\ bank'[g].eie = bank[g].eie
        /\ bank'[g].eidelivery = bank[g].eidelivery
        /\ bank'[g].eithreshold.reg = bank[g].eithreshold.reg
  BY <1>1 DEF WithMode, SetModeSnpsVectored, Bank, Threshold
<1>4. \A g \in Guests : /\ EffectiveThreshold(bank'[g].eithreshold)
                               = EffectiveThreshold(bank[g].eithreshold)
                         /\ BankSignals(bank'[g]) = BankSignals(bank[g])
  BY <1>3 DEF BankSignals, Signals, EffectiveThreshold
<1>5. TypeOK'
  BY <1>1, <1>2 DEF Inv, TypeOK
<1>6. GuestSignalsFresh'
  BY <1>1, <1>4 DEF Inv, GuestSignalsFresh
<1>7. CASE Connected(vgein)
  <2>1. vgein \in Guests
    BY <1>1, <1>7, ConnectedIsGuest
  <2>2. RunningGuestSeesItsFile'
    BY <1>1, <1>2, <1>3, <1>4, <1>7, <2>1 DEF Inv, RunningGuestSeesItsFile
  <2>3. VstopeiCached'
    BY <1>1, <1>3, <1>4, <1>7, <2>1 DEF Inv, VstopeiCached, TopeiValue, Signals
  <2> QED BY <1>5, <1>6, <2>2, <2>3 DEF Inv
<1>8. CASE ~ Connected(vgein)
  BY <1>1, <1>5, <1>6, <1>8 DEF Inv, RunningGuestSeesItsFile, VstopeiCached
<1> QED BY <1>7, <1>8

LEMMA NextInv == Inv /\ [Next]_vars => Inv'
<1> SUFFICES ASSUME Inv, [Next]_vars PROVE Inv'
  OBVIOUS
<1>1. ASSUME NEW g \in Guests, NEW value \in Iid, RouteImsicWrite(g, value)
      PROVE  Inv'
  <2> DEFINE new == [bank[g] EXCEPT !.eip = @ \union {value}]
  <2>1. value \in ValidIid
    BY <1>1, ConfigAssumption DEF RouteImsicWrite, Iid, ValidIid
  <2>2. new \in Bank /\ new.eithreshold = bank[g].eithreshold
    BY <2>1 DEF Inv, TypeOK, Bank
  <2>3. bank' = [bank EXCEPT ![g] = new]
    BY <1>1 DEF RouteImsicWrite
  <2>4. Connected(vgein) => vgein \in Guests
    BY ConnectedIsGuest DEF Inv, TypeOK
  <2>5. RegistersOK'
    BY <1>1, <2>2, <2>3, <2>4
    DEF RouteImsicWrite, RegistersOK, Inv, TypeOK, RunningGuestSeesItsFile
  <2> QED BY <1>1, <2>5, RecomputeInv DEF RouteImsicWrite
<1>2. CASE AccessVsireg
  BY <1>2, VsiregKeepsInv
<1>3. ASSUME NEW zero \in BOOLEAN, NEW readAccessed \in BOOLEAN,
             ClaimVstopei(zero, readAccessed)
      PROVE  Inv'
  BY <1>3, ClaimKeepsInv
<1>4. ASSUME NEW m \in ModeWrites, WriteVstvec(m) PROVE Inv'
  BY <1>4, TvecKeepsInv
<1>5. CASE TakeVsInterrupt
  BY <1>5, TakeKeepsInv
<1>6. ASSUME NEW v \in 0 .. MAX_GUEST + 1, WriteHstatus(v) PROVE Inv'
  <2>1. vgein' \in 0 .. MAX_GUEST /\ bank' = WithMode(bank, vgein', vsMode)
    BY <1>6, GuestAssumption DEF WriteHstatus, ClipVgein
  <2>2. RegistersOK'
    BY <1>6, <2>1, ModeReachesConnected
    DEF WriteHstatus, RegistersOK, Inv, TypeOK
  <2> QED BY <1>6, <2>2, RecomputeInv DEF WriteHstatus
<1>7. ASSUME NEW guests \in HgeieWrites, WriteHgeie(guests) PROVE Inv'
  <2>1. sgeip' \in BOOLEAN /\ sgeip' = (hgeip' \intersect hgeie' # {})
    BY <1>7 DEF WriteHgeie, RecalcSgeip
  <2>2. TypeOK'
    BY <1>7, <2>1, GuestAssumption DEF WriteHgeie, Inv, TypeOK
  <2>3. GuestSignalsFresh'
    BY <1>7, <2>1 DEF WriteHgeie, Inv, GuestSignalsFresh
  <2> QED BY <1>7, <2>2, <2>3
          DEF WriteHgeie, Inv, RunningGuestSeesItsFile, VstopeiCached
<1>8. CASE UNCHANGED vars
  BY <1>8 DEF vars, Inv, TypeOK, GuestSignalsFresh, RunningGuestSeesItsFile,
     VstopeiCached
<1> QED BY <1>1, <1>2, <1>3, <1>4, <1>5, <1>6, <1>7, <1>8 DEF Next

LEMMA InvAlways == Spec => []Inv
BY InitInv, NextInv, PTL DEF Spec

-----------------------------------------------------------------------------
\* Every register of every guest file keeps a value of its width, and vgein
\* names a file that exists.
THEOREM GuestTypeCorrect == Spec => []TypeOK
<1>1. Inv => TypeOK
  BY DEF Inv
<1> QED BY <1>1, InvAlways, PTL

\* hgeip and the guest external interrupt are never stale.
THEOREM GuestSignalsAlwaysFresh == Spec => []GuestSignalsFresh
<1>1. Inv => GuestSignalsFresh
  BY DEF Inv
<1> QED BY <1>1, InvAlways, PTL

\* mip and vstopei show the running guest its own file, for any number of
\* guests and any series of switches between them.
THEOREM RunningGuestAlwaysSeesItsFile == Spec => []RunningGuestSeesItsFile
<1>1. Inv => RunningGuestSeesItsFile
  BY DEF Inv
<1> QED BY <1>1, InvAlways, PTL

\* A claim touches the running guest's file only, and there its top interrupt.
THEOREM GuestClaimsOwnTop == Spec => ClaimsOwnTop
<1> DEFINE Claims ==
      \/ TakeVsInterrupt
      \/ \E zero, readAccessed \in BOOLEAN : ClaimVstopei(zero, readAccessed)
<1>1. ASSUME Inv, Claims, NEW g \in Guests, NEW iid \in bank[g].eip \ bank'[g].eip
      PROVE  /\ g = vgein
             /\ iid \in bank[g].eie
             /\ \A other \in bank[g].eip \intersect bank[g].eie : iid <= other
  <2>1. Connected(vgein)
    BY <1>1 DEF TakeVsInterrupt, ClaimVstopei, Inv, RunningGuestSeesItsFile
  <2>2. vgein \in Guests /\ bank \in [Guests -> Bank]
    BY <1>1, <2>1, ConnectedIsGuest DEF Inv, TypeOK
  <2>3. g = vgein /\ iid = vstopei
    BY <1>1, <2>2 DEF TakeVsInterrupt, ClaimVstopei, Bank
  <2>4. iid # 0
    BY <1>1, <2>2 DEF Bank, ValidIid
  <2> QED BY <1>1, <2>1, <2>3, <2>4, VstopeiIsTop
<1>2. Inv /\ [Next]_vars =>
        [Claims => \A g \in Guests : \A iid \in bank[g].eip \ bank'[g].eip :
           /\ g = vgein
           /\ iid \in bank[g].eie
           /\ \A other \in bank[g].eip \intersect bank[g].eie : iid <= other]_vars
  BY <1>1
<1> QED BY <1>2, InvAlways, PTL DEF Spec, ClaimsOwnTop
=============================================================================
