---------------------------- MODULE DevicesProofs ----------------------------
(***************************************************************************)
(* Theorems about the devices around the harts, for every number of        *)
(* sources, harts, contexts, timers and bytes.  Each device is proved by   *)
(* itself; the last section combines them.                                 *)
(***************************************************************************)
EXTENDS MCDevices, SequenceTheorems, WellFoundedInduction, TLAPS

LEMMA LeastExists ==
  ASSUME NEW X, X \subseteq Nat, X # {}
  PROVE  \E x \in X : \A y \in X : x <= y
<1>1. PICK x \in X : \A y \in X : ~ (<<y, x>> \in OpToRel(<, Nat))
  BY NatLessThanWellFounded, WFMin
<1>2. ASSUME NEW y \in X PROVE x <= y
  <2>1. y \in Nat /\ x \in Nat
    OBVIOUS
  <2>2. ~ (y < x)
    BY <1>1, <2>1 DEF OpToRel
  <2> QED BY <2>1, <2>2
<1> QED BY <1>2

-----------------------------------------------------------------------------
(* The APLIC *)

\* A pending bit was asked for, and inactive sources only have what they kept.
AplicInv ==
  /\ DOMAIN sourcecfg = AplicSources
  /\ DOMAIN target = AplicSources
  /\ aplicIp \subseteq asked
  /\ AplicInactiveFrozen

LEMMA AplicInitInv == ASSUME AplicInit PROVE AplicInv
BY DEF AplicInit, AplicInv, AplicInactiveFrozen, Belongings

\* What a source has shrinks with the pending and enable bits and the targets.
LEMMA BelongingsShrink ==
  ASSUME NEW s, s \in aplicIp' => s \in aplicIp, s \in aplicIe' => s \in aplicIe,
         target'[s] # NoTarget => target[s] # NoTarget
  PROVE  Belongings(s)' \subseteq Belongings(s)
BY DEF Belongings

\* Steps that leave the configuration alone, set only active sources pending
\* or enabled, and change only what is not checked otherwise.
LEMMA AplicKeeps ==
  ASSUME AplicInv, UNCHANGED <<sourcecfg, target, leftover>>,
         aplicIp' \subseteq asked',
         \A s \in (aplicIp' \ aplicIp) \union (aplicIe' \ aplicIe) : ~SourceIsInactive(s)
  PROVE  AplicInv'
<1>1. ASSUME NEW s \in AplicSources, SourceIsInactive(s)' PROVE Belongings(s)' \subseteq Belongings(s)
  <2>1. SourceIsInactive(s)
    BY <1>1 DEF SourceIsInactive
  <2> QED BY <2>1, BelongingsShrink
<1> QED BY <1>1 DEF AplicInv, AplicInactiveFrozen, SourceIsInactive

\* A write of one source's mode, or of its twin in the supervisor window, does
\* not touch the other sources.
LEMMA AplicOthersKeep ==
  ASSUME AplicInv, NEW s \in AplicSources, aplicIp' \subseteq asked',
         DOMAIN sourcecfg' = AplicSources, DOMAIN target' = AplicSources,
         \A r \in AplicSources \ {s} :
           /\ sourcecfg'[r] = sourcecfg[r] /\ target'[r] = target[r]
           /\ (r \in aplicIp' <=> r \in aplicIp) /\ (r \in aplicIe' <=> r \in aplicIe)
           /\ \A k : <<r, k>> \in leftover => <<r, k>> \in leftover',
         SourceIsInactive(s)' => /\ Belongings(s)' \subseteq leftover'
                                 /\ sourcecfg'[s] = "INACTIVE" => Belongings(s)' = {}
  PROVE  AplicInv'
<1>1. ASSUME NEW r \in AplicSources \ {s}, SourceIsInactive(r)'
      PROVE  /\ Belongings(r)' \subseteq leftover'
             /\ sourcecfg'[r] = "INACTIVE" => Belongings(r)' = {}
  <2>1. SourceIsInactive(r) /\ Belongings(r)' \subseteq Belongings(r)
    BY <1>1, BelongingsShrink DEF SourceIsInactive
  <2>2. Belongings(r) \subseteq leftover /\ (sourcecfg[r] = "INACTIVE" => Belongings(r) = {})
    BY <1>1, <2>1 DEF AplicInv, AplicInactiveFrozen
  <2>3. \A b \in Belongings(r) : \E k : b = <<r, k>>
    BY DEF Belongings
  <2> QED BY <2>1, <2>2, <2>3
<1> QED BY <1>1 DEF AplicInv, AplicInactiveFrozen

LEMMA AplicNextPendingReady ==
  ASSUME NextPending > 0
  PROVE  NextPending \in AplicSources /\ AplicReady(NextPending)
<1>1. PICK s \in AplicSources : AplicReady(s)
  BY DEF NextPending
<1>2. AplicSources \subseteq Nat
  BY AplicAssumption DEF AplicSources
<1>3. PICK t \in {r \in AplicSources : AplicReady(r)} :
        \A r \in {q \in AplicSources : AplicReady(q)} : t <= r
  BY <1>1, <1>2, LeastExists
<1>4. \A r \in 1 .. t - 1 : ~AplicReady(r)
  <2>1. ASSUME NEW r \in 1 .. t - 1 PROVE ~AplicReady(r)
    <3>1. r \in AplicSources /\ ~(t <= r)
      BY AplicAssumption DEF AplicSources
    <3> QED BY <1>3, <3>1
  <2> QED BY <2>1
<1> QED BY <1>1, <1>3, <1>4 DEF NextPending

LEMMA AplicStepInv == ASSUME AplicInv, AplicNext PROVE AplicInv'
<1>1. ASSUME NEW on \in BOOLEAN, PostWriteDomainconfig(on) PROVE AplicInv'
  BY <1>1, AplicKeeps DEF PostWriteDomainconfig, AplicInv
<1>2. ASSUME NEW s \in AplicSources, NEW m \in AplicModes, PostWriteSourcecfg(s, m)
      PROVE  AplicInv'
  <2>1. SourceIsInactive(s)' => Belongings(s)' \subseteq leftover'
    BY <1>2 DEF PostWriteSourcecfg, Leave
  <2>2. sourcecfg'[s] = m
    BY <1>2 DEF PostWriteSourcecfg, AplicInv
  <2>3. m = "INACTIVE" => Belongings(s)' = {}
    BY <1>2 DEF PostWriteSourcecfg, Wipe, Belongings, AplicInv
  <2>4. aplicIp' \subseteq asked'
    BY <1>2 DEF PostWriteSourcecfg, Wipe, AplicInv
  <2>5. /\ DOMAIN sourcecfg' = AplicSources /\ DOMAIN target' = AplicSources
        /\ \A r \in AplicSources \ {s} :
             /\ sourcecfg'[r] = sourcecfg[r] /\ target'[r] = target[r]
             /\ (r \in aplicIp' <=> r \in aplicIp) /\ (r \in aplicIe' <=> r \in aplicIe)
    BY <1>2 DEF PostWriteSourcecfg, Wipe, AplicInv
  <2>6. \A r \in AplicSources \ {s} : \A k : <<r, k>> \in leftover => <<r, k>> \in leftover'
    BY <1>2 DEF PostWriteSourcecfg, Leave
  <2> QED BY <2>1, <2>2, <2>3, <2>4, <2>5, <2>6, AplicOthersKeep
<1>3. ASSUME NEW s \in AplicSources, SupervisorSourcecfg(s) PROVE AplicInv'
  <2>1. Belongings(s)' = {}
    BY <1>3 DEF SupervisorSourcecfg, Wipe, Belongings, AplicInv
  <2>2. /\ aplicIp' \subseteq asked' /\ DOMAIN sourcecfg' = AplicSources
        /\ DOMAIN target' = AplicSources
        /\ \A r \in AplicSources \ {s} :
             /\ sourcecfg'[r] = sourcecfg[r] /\ target'[r] = target[r]
             /\ (r \in aplicIp' <=> r \in aplicIp) /\ (r \in aplicIe' <=> r \in aplicIe)
             /\ \A k : <<r, k>> \in leftover => <<r, k>> \in leftover'
    BY <1>3 DEF SupervisorSourcecfg, Wipe, AplicInv
  <2> QED BY <2>1, <2>2, AplicOthersKeep
<1>4. ASSUME NEW c \in MsiAddrCfgs, WriteMmsiaddrcfg(c) PROVE AplicInv'
  BY <1>4, AplicKeeps DEF WriteMmsiaddrcfg, AplicInv
<1>5. ASSUME NEW S, SetPending(S) PROVE AplicInv'
  BY <1>5, AplicKeeps DEF SetPending, AplicInv
<1>6. ASSUME NEW S, ClearPending(S) PROVE AplicInv'
  BY <1>6, AplicKeeps DEF ClearPending, AplicInv
<1>7. ASSUME NEW S, PostWriteSetie(S) PROVE AplicInv'
  BY <1>7, AplicKeeps DEF PostWriteSetie, AplicInv
<1>8. ASSUME NEW n, PostWriteSetienum(n) PROVE AplicInv'
  BY <1>8, AplicKeeps DEF PostWriteSetienum, AplicInv
<1>9. ASSUME NEW S, DisableSources(S) PROVE AplicInv'
  BY <1>9, AplicKeeps DEF DisableSources, AplicInv
<1>10. ASSUME NEW s \in AplicSources, NEW t \in AplicTarget, PostWriteTarget(s, t)
       PROVE  AplicInv'
  <2>1. ASSUME NEW r \in AplicSources, SourceIsInactive(r)'
        PROVE  Belongings(r)' \subseteq Belongings(r)
    <3>1. target'[r] # NoTarget => target[r] # NoTarget
      BY <1>10, <2>1 DEF PostWriteTarget, AplicInv, SourceIsInactive
    <3> QED BY <1>10, <3>1, BelongingsShrink DEF PostWriteTarget
  <2> QED BY <1>10, <2>1 DEF PostWriteTarget, AplicInv, AplicInactiveFrozen, SourceIsInactive
<1>11. ASSUME NEW h, NEW e, PostWriteGenmsi(h, e) PROVE AplicInv'
  BY <1>11, AplicKeeps DEF PostWriteGenmsi, AplicInv
<1>12. ASSUME AplicRun PROVE AplicInv'
  <2>1. CASE NextPending > 0
    BY <1>12, <2>1, AplicKeeps DEF AplicRun, MsiWrite, MsiClrPending, AplicInv
  <2>2. CASE ~(NextPending > 0)
    BY <1>12, <2>2, AplicKeeps DEF AplicRun, AplicInv
  <2> QED BY <2>1, <2>2
<1>13. ASSUME UNCHANGED aplicVars PROVE AplicInv'
  BY <1>13, AplicKeeps DEF aplicVars, AplicInv
<1>14. ASSUME AplicSoftware PROVE AplicInv'
  BY <1>1, <1>2, <1>3, <1>4, <1>5, <1>6, <1>7, <1>8, <1>9, <1>10, <1>11,
     <1>13, <1>14, Zenon
     DEF AplicSoftware, PostWriteSetip, PostWriteInClrip, PostWriteClrie,
         PostWriteSetipnum, PostWriteSetipnumLe, PostWriteSetipnumBe,
         PostWriteClripnum, PostWriteClrienum
<1> QED
  BY <1>5, <1>12, <1>14 DEF AplicNext, GatewayTriggerInterrupt

LEMMA AplicStutterInv == ASSUME AplicInv, UNCHANGED aplicVars PROVE AplicInv'
BY AplicKeeps DEF aplicVars, AplicInv

\* Only a source that pends, and so was asked for, sends an MSI.
LEMMA AplicMsiAsked ==
  ASSUME AplicInv
  PROVE  \A s \in AplicSources : AplicRun /\ NextPending = s /\ IsEdge(s) => s \in asked
<1>1. ASSUME NEW s \in AplicSources, NextPending = s PROVE s \in asked
  <2>1. s > 0
    BY AplicAssumption DEF AplicSources
  <2>2. AplicReady(s)
    BY <1>1, <2>1, AplicNextPendingReady
  <2> QED BY <2>2 DEF AplicReady, AplicInv
<1> QED BY <1>1

-----------------------------------------------------------------------------
(* The FE310 PLIC *)

\* The booleans, and why the assertion holds for polite software: it has one
\* open claim, which keeps the interrupt raised.
FeInv ==
  /\ FeNotForgotten
  /\ feHart \in BOOLEAN /\ feEip \in BOOLEAN
  /\ fePolite => (feClaimed # {} => feEip) /\ \A i, j \in feClaimed : i = j

LEMMA FeInitInv == ASSUME FeInit PROVE FeInv
<1>1. FeReady(TRUE) = {} /\ feClaimed = {}
  BY DEF FeInit, FeReady
<1> QED BY <1>1, Zenon DEF FeInit, FeInv, FeNotForgotten

\* A configuration write adds to feLate what it makes ready, unless somebody
\* will look.
LEMMA FeConfiguredInv == ASSUME FeInv, FeConfigured PROVE FeInv'
<1>1. feAssert' => (FeReady(TRUE)' \subseteq feLate') \/ feHart' \/ feWake'
  BY DEF FeInv, FeNotForgotten, FeConfigured
<1> QED BY <1>1 DEF FeInv, FeNotForgotten, FeConfigured

LEMMA FeStepInv == ASSUME FeInv, FeStep \/ UNCHANGED feVars PROVE FeInv'
<1>1. ASSUME NEW i, FeGateway(i) PROVE FeInv'
  BY <1>1 DEF FeGateway, FeInv, FeNotForgotten
<1>2. ASSUME NEW i, NEW p, FeWritePriority(i, p) PROVE FeInv'
  BY <1>2, FeConfiguredInv DEF FeWritePriority
<1>3. ASSUME NEW E, FeWriteEnables(E) PROVE FeInv'
  BY <1>3, FeConfiguredInv DEF FeWriteEnables
<1>4. ASSUME NEW t, FeWriteThreshold(t) PROVE FeInv'
  BY <1>4, FeConfiguredInv DEF FeWriteThreshold
<1>5. ASSUME FeClaim PROVE FeInv'
  <2>1. FeReady(TRUE)' \subseteq FeReady(TRUE)
    BY <1>5 DEF FeClaim, FeReady
  <2>2. /\ fePolite' => fePolite /\ feHart /\ feClaimed = {}
        /\ feClaimed' = feClaimed \union ({FeNext(FALSE)} \ {0})
        /\ UNCHANGED <<feEip, feHart, feWake, feAssert, feLate>>
    BY <1>5, Zenon DEF FeClaim
  <2> QED BY <2>1, <2>2 DEF FeInv, FeNotForgotten
<1>6. ASSUME UNCHANGED <<fePriority, feEnabled, feThreshold, fePending>>
      PROVE  FeReady(TRUE)' = FeReady(TRUE)
  BY <1>6 DEF FeReady
<1>7. ASSUME feAssert, NEW i \in feClaimed, FeComplete(i) PROVE FeInv'
  <2>1. FeReady(TRUE)' = FeReady(TRUE)
    BY <1>6, <1>7 DEF FeComplete
  <2>2. CASE FeHasPending
    <3>1. /\ feAssert' = feEip /\ feHart' = feEip /\ feEip' = feEip
          /\ UNCHANGED <<feLate, feWake, fePolite>> /\ feClaimed' = feClaimed \ {i}
      BY <1>7, <2>2, Zenon DEF FeComplete
    <3>2. fePolite => feEip
      BY <1>7 DEF FeInv
    <3>3. feEip = feHart /\ feEip \in BOOLEAN
      BY DEF FeInv, FeNotForgotten
    <3> QED BY <3>1, <3>2, <3>3 DEF FeInv, FeNotForgotten
  <2>3. CASE ~FeHasPending
    <3>1. /\ UNCHANGED <<feAssert, feLate, feWake, fePolite>>
          /\ feClaimed' = feClaimed \ {i} /\ ~feEip' /\ ~feHart'
          /\ feEip' \in BOOLEAN /\ feHart' \in BOOLEAN /\ feEip' = feHart'
      BY <1>7, <2>3, Zenon DEF FeComplete
    <3>2. FeReady(TRUE)' = {}
      BY <2>1, <2>3 DEF FeHasPending
    <3>3. fePolite => feClaimed' = {}
      BY <3>1 DEF FeInv
    <3> QED BY <3>1, <3>2, <3>3 DEF FeInv, FeNotForgotten
  <2> QED BY <2>2, <2>3
<1>8. ASSUME FeRun PROVE FeInv'
  <2>1. FeReady(TRUE)' = FeReady(TRUE)
    BY <1>6, <1>8 DEF FeRun
  <2>2. feEip => feEip'
    BY <1>8, Zenon DEF FeRun
  <2> QED BY <1>8, <2>1, <2>2, Zenon DEF FeRun, FeInv, FeNotForgotten, FeHasPending
<1>9. ASSUME UNCHANGED feVars PROVE FeInv'
  <2>1. FeReady(TRUE)' = FeReady(TRUE)
    BY <1>6, <1>9 DEF feVars
  <2> QED BY <1>9, <2>1 DEF feVars, FeInv, FeNotForgotten
<1> QED BY <1>1, <1>2, <1>3, <1>4, <1>5, <1>7, <1>8, <1>9 DEF FeStep, FeOperation


-----------------------------------------------------------------------------
(* The FU540 PLIC *)

FuInv ==
  /\ DOMAIN fuLine = FuContexts /\ DOMAIN fuLate = FuContexts
  /\ FuNotForgotten

LEMMA FuInitInv == ASSUME FuInit PROVE FuInv
BY DEF FuInit, FuInv, FuNotForgotten, FuReady

\* A configuration write adds to fuLate what it makes ready, unless somebody
\* will look.
LEMMA FuConfiguredInv == ASSUME FuInv, FuConfigured PROVE FuInv'
<1>1. ASSUME NEW c \in FuContexts
      PROVE  FuReady(c, FALSE)' \subseteq fuLate'[c] \/ fuLine'[c] \/ fuWake'
  <2>1. CASE fuWake \/ fuLine[c]
    BY <2>1 DEF FuConfigured
  <2>2. CASE ~(fuWake \/ fuLine[c])
    <3>1. fuLate'[c] = fuLate[c] \union (FuReady(c, FALSE)' \ FuReady(c, FALSE))
      BY <2>2 DEF FuConfigured
    <3>2. FuReady(c, FALSE) \subseteq fuLate[c]
      BY <2>2 DEF FuInv, FuNotForgotten
    <3> QED BY <3>1, <3>2
  <2> QED BY <2>1, <2>2
<1> QED BY <1>1 DEF FuInv, FuNotForgotten, FuConfigured

LEMMA FuStepInv == ASSUME FuInv, FuStep \/ UNCHANGED fuVars PROVE FuInv'
<1>1. ASSUME NEW i \in FuIrqs, FuGateway(i) PROVE FuInv'
  BY <1>1 DEF FuGateway, FuInv, FuNotForgotten
<1>2. ASSUME NEW i, NEW p, FuWritePrio(i, p) PROVE FuInv'
  BY <1>2, FuConfiguredInv DEF FuWritePrio
<1>3. ASSUME NEW c, NEW E, FuWriteEnables(c, E) PROVE FuInv'
  BY <1>3, FuConfiguredInv DEF FuWriteEnables
<1>4. ASSUME NEW c, NEW t, FuWriteThreshold(c, t) PROVE FuInv'
  BY <1>4, FuConfiguredInv DEF FuWriteThreshold
<1>5. ASSUME NEW c \in FuContexts, FuReadClaim(c) PROVE FuInv'
  <2>1. ASSUME NEW d \in FuContexts PROVE FuReady(d, FALSE)' \subseteq FuReady(d, FALSE)
    BY <1>5 DEF FuReadClaim, FuReady
  <2> QED BY <1>5, <2>1 DEF FuReadClaim, FuInv, FuNotForgotten
<1>6. ASSUME UNCHANGED <<fuPrio, fuEnabled, fuThreshold, fuPending>>
      PROVE  \A c : FuReady(c, FALSE)' = FuReady(c, FALSE)
  BY <1>6 DEF FuReady
<1>7. ASSUME NEW c \in FuContexts, FuComplete(c) PROVE FuInv'
  <2>1. \A d : FuReady(d, FALSE)' = FuReady(d, FALSE)
    BY <1>6, <1>7 DEF FuComplete
  <2>2. ASSUME NEW d \in FuContexts
        PROVE  FuReady(d, FALSE) \subseteq fuLate'[d] \/ fuLine'[d] \/ fuWake
    BY <1>7, <2>2 DEF FuComplete, FuInv, FuNotForgotten
  <2> QED BY <1>7, <2>1, <2>2 DEF FuComplete, FuInv, FuNotForgotten
<1>8. ASSUME FuRun PROVE FuInv'
  <2>1. \A d : FuReady(d, FALSE)' = FuReady(d, FALSE)
    BY <1>6, <1>8 DEF FuRun
  <2>2. ASSUME NEW d \in FuContexts
        PROVE  FuReady(d, FALSE) \subseteq fuLate'[d] \/ fuLine'[d]
    BY <1>8 DEF FuRun
  <2> QED BY <1>8, <2>1, <2>2 DEF FuRun, FuInv, FuNotForgotten
<1>9. ASSUME UNCHANGED fuVars PROVE FuInv'
  <2>1. \A d : FuReady(d, FALSE)' = FuReady(d, FALSE)
    BY <1>6, <1>9 DEF fuVars
  <2> QED BY <1>9, <2>1 DEF fuVars, FuInv, FuNotForgotten
<1> QED BY <1>1, <1>2, <1>3, <1>4, <1>5, <1>7, <1>8, <1>9 DEF FuStep


-----------------------------------------------------------------------------
(* The DMA controller *)

DmaTypes ==
  /\ dmaSrc \in Nat /\ dmaDst \in Nat /\ dmaLen \in Nat
  /\ dmaSrc + dmaLen <= DmaMem /\ dmaDst + dmaLen <= DmaMem
  /\ dmaMem = [a \in 0 .. DmaMem - 1 |-> dmaMem[a]]
  /\ dmaPc \in {"wait", "read", "write"}
  /\ dmaN \in Nat /\ dmaOff \in Nat

\* How many cells of the job have arrived: the thread that waits is done.
DmaDone == IF dmaPc = "wait" THEN dmaLen ELSE dmaOff

DmaApart == dmaSrc >= dmaDst + dmaLen \/ dmaDst >= dmaSrc + dmaLen

\* The job is the registers' as long as nobody wrote them.
DmaJobKnown ==
  /\ dmaJob = [src |-> dmaSrc, dst |-> dmaDst, len |-> dmaLen, mem |-> dmaJob.mem]
  /\ dmaJob.mem = [a \in 0 .. DmaMem - 1 |-> dmaJob.mem[a]]
  /\ dmaPc # "wait" => dmaOff + dmaN = dmaLen

\* The first DmaDone cells have been copied, the buffer holds the next block.
DmaProgress ==
  /\ \A a \in 0 .. DmaMem - 1 :
       dmaMem[a] = IF dmaDst <= a /\ a < dmaDst + DmaDone
                   THEN dmaJob.mem[a - dmaDst + dmaSrc] ELSE dmaJob.mem[a]
  /\ dmaPc = "write" =>
       /\ DOMAIN dmaBuf = 0 .. DmaBlock - 1
       /\ \A i \in 0 .. DmaBlock - 1 : dmaBuf[i] = dmaJob.mem[dmaSrc + dmaOff + i]

DmaInv ==
  /\ DmaTypes
  /\ dmaQuiet /\ dmaOp = "MEMCPY" => DmaJobKnown /\ (DmaApart => DmaProgress)

LEMMA DmaInvExact == ASSUME DmaInv PROVE DmaCopyExact
<1> SUFFICES ASSUME dmaPc = "wait", dmaQuiet, dmaOp = "MEMCPY", ~DmaOverlap(dmaJob)
             PROVE  dmaMem = DmaCopied(dmaJob)
  BY DEF DmaCopyExact
<1>1. DmaTypes /\ DmaJobKnown
  BY DEF DmaInv
<1>2. /\ dmaJob.src = dmaSrc /\ dmaJob.dst = dmaDst /\ dmaJob.len = dmaLen
      /\ DOMAIN dmaJob.mem = 0 .. DmaMem - 1
  BY <1>1 DEF DmaJobKnown
<1>3. DmaApart
  BY <1>1, <1>2 DEF DmaOverlap, DmaApart, DmaTypes
<1>4. ASSUME NEW a \in 0 .. DmaMem - 1
      PROVE  dmaMem[a] = IF a \in dmaDst .. dmaDst + dmaLen - 1
                         THEN dmaJob.mem[a - dmaDst + dmaSrc] ELSE dmaJob.mem[a]
  <2>1. DmaProgress
    BY <1>3 DEF DmaInv
  <2>2. a \in dmaDst .. dmaDst + dmaLen - 1 <=> dmaDst <= a /\ a < dmaDst + dmaLen
    BY <1>1, DmaAssumption DEF DmaTypes
  <2> QED BY <2>1, <2>2 DEF DmaProgress, DmaDone
<1>5. DmaCopied(dmaJob) =
        [a \in 0 .. DmaMem - 1 |->
           IF a \in dmaDst .. dmaDst + dmaLen - 1
           THEN dmaJob.mem[a - dmaDst + dmaSrc] ELSE dmaJob.mem[a]]
  BY <1>2 DEF DmaCopied
<1> QED BY <1>1, <1>4, <1>5 DEF DmaTypes

LEMMA DmaInitInv == ASSUME DmaInit PROVE DmaInv
BY DmaAssumption DEF DmaInit, DmaInv, DmaTypes

\* Nothing of the thread, the registers or the memory moves.
LEMMA DmaKeeps ==
  ASSUME DmaInv, UNCHANGED <<dmaRegs, dmaThread, dmaQuiet>>
  PROVE  DmaInv'
BY DEF DmaInv, DmaTypes, DmaJobKnown, DmaApart, DmaProgress, DmaDone, DmaBlock,
       dmaRegs, dmaThread

LEMMA DmaReadInv == ASSUME DmaInv, DmaRead PROVE DmaInv'
<1>1. DmaTypes'
  BY DEF DmaRead, DmaInv, DmaTypes, dmaRegs
<1> SUFFICES ASSUME dmaQuiet', dmaOp' = "MEMCPY"
             PROVE  DmaJobKnown' /\ (DmaApart' => DmaProgress')
  BY <1>1 DEF DmaInv
<1>2. DmaTypes /\ DmaJobKnown /\ (DmaApart => DmaProgress)
  BY DEF DmaInv, DmaRead, dmaRegs
<1>3. DmaJobKnown'
  BY <1>2 DEF DmaRead, DmaJobKnown, dmaRegs
<1>4. ASSUME DmaApart PROVE DmaProgress'
  <2>1. DmaBlock \in Nat /\ DmaBlock <= dmaN /\ dmaOff + dmaN = dmaLen
    BY <1>2, DmaAssumption DEF DmaBlock, DmaTypes, DmaJobKnown, DmaRead
  <2>2. ASSUME NEW i \in 0 .. DmaBlock - 1
        PROVE  dmaMem[dmaSrc + dmaOff + i] = dmaJob.mem[dmaSrc + dmaOff + i]
    <3>0. /\ dmaSrc \in Nat /\ dmaDst \in Nat /\ dmaLen \in Nat /\ dmaOff \in Nat
          /\ dmaSrc + dmaLen <= DmaMem /\ dmaN \in Nat /\ DmaMem \in Nat
      BY <1>2, DmaAssumption DEF DmaTypes
    <3>1. /\ dmaSrc + dmaOff + i \in 0 .. DmaMem - 1
          /\ ~(dmaDst <= dmaSrc + dmaOff + i /\ dmaSrc + dmaOff + i < dmaDst + dmaOff)
      BY <1>4, <2>1, <3>0 DEF DmaApart
    <3> QED BY <1>2, <1>4, <3>1 DEF DmaProgress, DmaDone, DmaRead
  <2>3. DmaBlock' = DmaBlock
    BY DEF DmaBlock, DmaRead
  <2>4. /\ DOMAIN dmaBuf' = 0 .. DmaBlock - 1
        /\ \A i \in 0 .. DmaBlock - 1 : dmaBuf'[i] = dmaJob.mem[dmaSrc + dmaOff + i]
    BY <2>2 DEF DmaRead
  <2>5. \A a \in 0 .. DmaMem - 1 :
          dmaMem[a] = IF dmaDst <= a /\ a < dmaDst + dmaOff
                      THEN dmaJob.mem[a - dmaDst + dmaSrc] ELSE dmaJob.mem[a]
    BY <1>2, <1>4 DEF DmaProgress, DmaDone, DmaRead
  <2>6. /\ dmaPc' = "write"
        /\ UNCHANGED <<dmaMem, dmaDst, dmaSrc, dmaOff, dmaJob>>
    BY DEF DmaRead, dmaRegs
  <2> QED BY <2>3, <2>4, <2>5, <2>6 DEF DmaProgress, DmaDone
<1>5. DmaApart' = DmaApart
  BY DEF DmaApart, DmaRead, dmaRegs
<1> QED BY <1>3, <1>4, <1>5

LEMMA DmaWriteInv == ASSUME DmaInv, DmaWrite PROVE DmaInv'
<1>0. DmaTypes /\ dmaPc = "write" /\ UNCHANGED <<dmaSrc, dmaDst, dmaLen, dmaOp, dmaJob, dmaQuiet>>
  BY DEF DmaInv, DmaWrite, dmaRegs
<1>1. DmaTypes'
  <2>1. dmaMem' = [a \in 0 .. DmaMem - 1 |-> dmaMem'[a]]
    BY <1>0 DEF DmaWrite, DmaTypes
  <2>2. dmaN' \in Nat /\ dmaOff' \in Nat /\ dmaPc' \in {"wait", "read", "write"}
    BY <1>0, DmaAssumption DEF DmaWrite, DmaTypes
  <2> QED BY <1>0, <2>1, <2>2 DEF DmaTypes
<1> SUFFICES ASSUME dmaQuiet, dmaOp = "MEMCPY"
             PROVE  DmaJobKnown' /\ (DmaApart => DmaProgress')
  BY <1>0, <1>1 DEF DmaInv, DmaApart
<1>2. DmaJobKnown /\ (DmaApart => DmaProgress) /\ dmaOff + dmaN = dmaLen
  BY <1>0 DEF DmaInv, DmaJobKnown
<1>3. dmaPc' # "wait" => dmaOff' + dmaN' = dmaLen
  BY <1>0, <1>2, DmaAssumption DEF DmaWrite, DmaTypes
<1>4. DmaJobKnown'
  BY <1>0, <1>2, <1>3 DEF DmaJobKnown
<1>5. /\ DmaDone' = dmaOff + DmaBlock
      /\ DmaBlock \in Nat /\ dmaPc' # "write"
  BY <1>0, <1>2, DmaAssumption DEF DmaDone, DmaBlock, DmaWrite, DmaTypes
<1>6. ASSUME DmaApart, NEW a \in 0 .. DmaMem - 1
      PROVE  dmaMem'[a] = IF dmaDst <= a /\ a < dmaDst + (dmaOff + DmaBlock)
                          THEN dmaJob.mem[a - dmaDst + dmaSrc] ELSE dmaJob.mem[a]
  <2> DEFINE i == a - dmaDst - dmaOff
  <2>0. dmaSrc \in Nat /\ dmaDst \in Nat /\ dmaOff \in Nat /\ a \in Nat
    BY <1>0, DmaAssumption DEF DmaTypes
  <2>1. dmaMem'[a] = IF i \in 0 .. DmaBlock - 1 THEN dmaBuf[i] ELSE dmaMem[a]
    BY <1>0, <1>2, <1>6 DEF DmaWrite, DmaTypes, DmaProgress
  <2>2. CASE i \in 0 .. DmaBlock - 1
    <3>1. /\ dmaSrc + dmaOff + i = a - dmaDst + dmaSrc
          /\ dmaDst <= a /\ a < dmaDst + (dmaOff + DmaBlock)
      BY <1>5, <2>0, <2>2
    <3>2. dmaBuf[i] = dmaJob.mem[dmaSrc + dmaOff + i]
      BY <1>0, <1>2, <1>6, <2>2 DEF DmaProgress
    <3> QED BY <2>1, <2>2, <3>1, <3>2
  <2>3. CASE i \notin 0 .. DmaBlock - 1
    <3>1. dmaDst <= a /\ a < dmaDst + dmaOff
            <=> dmaDst <= a /\ a < dmaDst + (dmaOff + DmaBlock)
      BY <1>5, <2>0, <2>3
    <3>2. dmaMem[a] = IF dmaDst <= a /\ a < dmaDst + dmaOff
                      THEN dmaJob.mem[a - dmaDst + dmaSrc] ELSE dmaJob.mem[a]
      BY <1>0, <1>2, <1>6 DEF DmaProgress, DmaDone
    <3> QED BY <2>1, <2>3, <3>1, <3>2
  <2> QED BY <2>2, <2>3
<1>7. DmaApart => DmaProgress'
  BY <1>0, <1>5, <1>6 DEF DmaProgress
<1> QED BY <1>4, <1>7

LEMMA DmaStepInv == ASSUME DmaInv, DmaStep \/ UNCHANGED dmaVars PROVE DmaInv'
<1>1. ASSUME NEW op, DmaWriteOp(op) PROVE DmaInv'
  BY <1>1 DEF DmaWriteOp, DmaInv, DmaTypes, dmaThread
<1>2. ASSUME NEW s \in DmaSrcs, NEW d \in DmaDsts, NEW n \in DmaLens,
             DmaWriteRegisters(s, d, n)
      PROVE  DmaInv'
  <2>1. s \in Nat /\ d \in Nat /\ n \in Nat /\ s + n <= DmaMem /\ d + n <= DmaMem
    BY DmaAssumption
  <2> QED BY <1>2, <2>1 DEF DmaWriteRegisters, DmaInv, DmaTypes, dmaThread
<1>3. ASSUME DmaEventOccurs PROVE DmaInv'
  <2>1. CASE dmaPc # "wait"
    BY <1>3, <2>1, DmaKeeps DEF DmaEventOccurs
  <2>2. CASE dmaPc = "wait"
    <3>1. DmaTypes'
      BY <1>3, <2>2 DEF DmaEventOccurs, DmaInv, DmaTypes, dmaRegs
    <3>2. CASE dmaOp = "NOP"
      BY <1>3, <2>2, <3>1, <3>2 DEF DmaEventOccurs, DmaInv, dmaRegs
    <3>3. CASE dmaOp # "NOP"
      <4>1. /\ dmaJob' = [src |-> dmaSrc, dst |-> dmaDst, len |-> dmaLen, mem |-> dmaMem]
            /\ dmaPc' = "read" /\ dmaN' = dmaLen /\ dmaOff' = 0
            /\ UNCHANGED <<dmaSrc, dmaDst, dmaLen, dmaMem>>
        BY <1>3, <2>2, <3>3 DEF DmaEventOccurs, dmaRegs
      <4>2. dmaJob'.mem = dmaMem
        BY <4>1
      <4>3. DmaJobKnown'
        BY <4>1, <4>2 DEF DmaJobKnown, DmaInv, DmaTypes
      <4>4. \A a \in 0 .. DmaMem - 1 : ~(dmaDst <= a /\ a < dmaDst + 0)
        BY DmaAssumption DEF DmaInv, DmaTypes
      <4>5. DmaProgress'
        BY <4>1, <4>2, <4>4 DEF DmaProgress, DmaDone
      <4> QED BY <3>1, <4>3, <4>5 DEF DmaInv
    <3> QED BY <3>2, <3>3
  <2> QED BY <2>1, <2>2
<1>4. ASSUME DmaSeeIrq PROVE DmaInv'
  BY <1>4, DmaKeeps DEF DmaSeeIrq
<1>5. ASSUME UNCHANGED dmaVars PROVE DmaInv'
  BY <1>5, DmaKeeps DEF dmaVars, dmaRegs, dmaThread
<1> QED BY <1>1, <1>2, <1>3, <1>4, <1>5, DmaReadInv, DmaWriteInv DEF DmaStep

-----------------------------------------------------------------------------
(* The CLINT of simulated time *)

ClintTypes ==
  /\ simNow \in Nat /\ mtime \in Nat
  /\ timecmp \in [ClintTimers -> Nat \union {ClintNever}]
  /\ cmpExists \in [ClintTimers -> BOOLEAN]
  /\ timerLine \in [ClintTimers -> BOOLEAN]
  /\ cmpArmed \in [ClintTimers -> BOOLEAN]
  /\ irqEvent \in Nat \union {ClintNever}

\* Only a level that exists has its timer set.
ClintArmedExists == \A t \in ClintTimers : cmpArmed[t] => cmpExists[t]

ClintInv == ClintTypes /\ ClintArmedExists /\ ClintNeverLate

\* A look at the time n, when the rounded time is now at least, comes before
\* the tick after c is over.
LEMMA TickArithmetic ==
  ASSUME NEW n \in Nat, NEW now \in Nat, NEW c \in Nat, NEW S \in Nat \ {0},
         n \div S <= now, now < c
  PROVE  n + (c - now) * S \in Nat /\ n + (c - now) * S < (c + 1) * S
<1> DEFINE q == n \div S
<1>1. q \in Nat /\ n < (q + 1) * S
  OBVIOUS
<1>2. (q + 1) * S <= (now + 1) * S
  <2>1. now - q \in Nat
    BY <1>1
  <2>2. (now - q) * S \in Nat
    BY <2>1
  <2>3. (now + 1) * S = (q + 1) * S + (now - q) * S
    BY <1>1
  <2>4. (q + 1) * S \in Nat
    BY <1>1
  <2> HIDE DEF q
  <2> QED BY <2>2, <2>3, <2>4
<1>3. (now + 1) * S + (c - now) * S = (c + 1) * S
  OBVIOUS
<1>4. (c - now) * S \in Nat /\ (now + 1) * S \in Nat /\ (q + 1) * S \in Nat
  BY <1>1
<1> HIDE DEF q
<1> QED BY <1>1, <1>2, <1>3, <1>4

LEMMA ClintEarliestIs ==
  ASSUME NEW times, times \subseteq Nat \union {ClintNever}
  PROVE  /\ ClintEarliest(times) \in Nat \union {ClintNever}
         /\ \A e \in times \ {ClintNever} :
              ClintEarliest(times) # ClintNever /\ ClintEarliest(times) <= e
<1> DEFINE Real == times \ {ClintNever}
<1>1. CASE Real = {}
  BY <1>1 DEF ClintEarliest
<1>2. CASE Real # {}
  <2>1. Real \subseteq Nat
    OBVIOUS
  <2>2. \E e \in Real : \A f \in Real : e <= f
    BY <1>2, <2>1, LeastExists
  <2>3. ClintEarliest(times) \in Real /\ \A f \in Real : ClintEarliest(times) <= f
    BY <1>2, <2>2 DEF ClintEarliest
  <2> QED BY <2>1, <2>3
<1> QED BY <1>1, <1>2

LEMMA ClintInitInv == ASSUME ClintInit PROVE ClintInv
BY DEF ClintInit, ClintInv, ClintTypes, ClintArmedExists, ClintNeverLate

\* A write of a compare register: the event is within the quantum.
LEMMA ClintStoreInv ==
  ASSUME ClintInv, NEW t \in ClintTimers, NEW c \in Nat \union {ClintNever},
         NEW d \in 0 .. ClintQuantum, ClintStore(t, c), ClintNotify(d)
  PROVE  ClintInv'
<1>1. /\ simNow \in Nat /\ irqEvent \in Nat \union {ClintNever} /\ simNow + d \in Nat
      /\ simNow + d <= simNow + ClintQuantum
  BY ClintAssumption DEF ClintInv, ClintTypes
<1>2. {irqEvent, simNow + d} \subseteq Nat \union {ClintNever} /\ simNow + d # ClintNever
  BY <1>1 DEF ClintNever
<1>3. /\ irqEvent' \in Nat \union {ClintNever} /\ irqEvent' # ClintNever
      /\ irqEvent' <= simNow + d
  BY <1>2, ClintEarliestIs DEF ClintNotify
<1>4. irqEvent' <= simNow' + ClintQuantum
  <2>1. irqEvent' \in Nat
    BY <1>3
  <2> QED BY <1>1, <1>3, <2>1, ClintAssumption DEF ClintStore
<1>5. ClintTypes'
  BY <1>3 DEF ClintStore, ClintInv, ClintTypes
<1>6. ClintArmedExists'
  BY DEF ClintStore, ClintInv, ClintTypes, ClintArmedExists
<1> QED BY <1>3, <1>4, <1>5, <1>6 DEF ClintInv, ClintNeverLate

LEMMA ClintRunInv == ASSUME ClintInv, ClintRun PROVE ClintInv'
<1> DEFINE now == ClintUpdated
           looks == {ClintNextLook(t, now) : t \in ClintTimers}
<1>1. ClintTypes /\ ClintArmedExists /\ ClintScaler \in Nat \ {0}
  BY ClintAssumption DEF ClintInv
<1>2. now \in Nat /\ simNow \div ClintScaler <= now
  <2>1. simNow \div ClintScaler \in Nat
    BY <1>1 DEF ClintTypes
  <2> QED BY <1>1, <2>1 DEF ClintTypes, ClintUpdated
<1> HIDE DEF now
<1>3. ASSUME NEW t \in ClintTimers, cmpExists[t], timecmp[t] > 0, ~ClintExpired(t, now)
      PROVE  /\ ClintNextLook(t, now) \in Nat
             /\ ClintNextLook(t, now) < (timecmp[t] + 1) * ClintScaler
  <2>1. timecmp[t] \in Nat /\ simNow \in Nat /\ now < timecmp[t]
    BY <1>1, <1>2, <1>3 DEF ClintTypes, ClintExpired, ClintNever
  <2>2. /\ simNow + (timecmp[t] - now) * ClintScaler \in Nat
        /\ simNow + (timecmp[t] - now) * ClintScaler < (timecmp[t] + 1) * ClintScaler
    BY <1>1, <1>2, <2>1, TickArithmetic
  <2>3. ClintNextLook(t, now) = simNow + (timecmp[t] - now) * ClintScaler
    BY <1>3 DEF ClintNextLook
  <2> QED BY <2>2, <2>3
<1>4. looks \subseteq Nat \union {ClintNever}
  <2>1. ASSUME NEW t \in ClintTimers PROVE ClintNextLook(t, now) \in Nat \union {ClintNever}
    <3>1. CASE cmpExists[t] /\ timecmp[t] > 0 /\ ~ClintExpired(t, now)
      BY <1>3, <3>1
    <3>2. CASE ~(cmpExists[t] /\ timecmp[t] > 0 /\ ~ClintExpired(t, now))
      BY <3>2 DEF ClintNextLook
    <3> QED BY <3>1, <3>2
  <2> QED BY <2>1
<1>5. /\ mtime' = now /\ irqEvent' = ClintEarliest(looks)
      /\ timerLine' = [t \in ClintTimers |->
                         IF cmpExists[t] THEN ClintExpired(t, now) ELSE timerLine[t]]
      /\ UNCHANGED <<simNow, timecmp, cmpExists, softLine, cmpArmed>>
  BY DEF ClintRun, now
<1>6. irqEvent' \in Nat \union {ClintNever}
  BY <1>4, <1>5, ClintEarliestIs
<1>7. ClintTypes'
  <2>1. timerLine' \in [ClintTimers -> BOOLEAN]
    BY <1>1, <1>5 DEF ClintTypes, ClintExpired
  <2> QED BY <1>1, <1>2, <1>5, <1>6, <2>1 DEF ClintTypes
<1>8. ClintArmedExists'
  BY <1>1, <1>5 DEF ClintArmedExists
<1>9. ASSUME NEW t \in ClintTimers, cmpArmed[t], timecmp[t] > 0, ~timerLine'[t]
      PROVE  irqEvent' # ClintNever /\ irqEvent' < (timecmp[t] + 1) * ClintScaler
  <2>1. cmpExists[t] /\ ~ClintExpired(t, now)
    BY <1>1, <1>5, <1>9 DEF ClintArmedExists
  <2>2. /\ ClintNextLook(t, now) \in Nat
        /\ ClintNextLook(t, now) < (timecmp[t] + 1) * ClintScaler
    BY <1>3, <1>9, <2>1
  <2>3. ClintNextLook(t, now) \in looks \ {ClintNever}
    BY <2>2 DEF ClintNever
  <2>4. irqEvent' # ClintNever /\ irqEvent' <= ClintNextLook(t, now)
    BY <1>4, <1>5, <2>3, ClintEarliestIs
  <2>5. irqEvent' \in Nat
    BY <1>6, <2>4
  <2>6. timecmp[t] \in Int
    BY <1>1 DEF ClintTypes, ClintNever
  <2>7. (timecmp[t] + 1) * ClintScaler \in Int
    BY <1>1, <2>6
  <2> QED BY <2>2, <2>4, <2>5, <2>7
<1>10. ClintNeverLate'
  BY <1>5, <1>9 DEF ClintNeverLate
<1> QED BY <1>7, <1>8, <1>10 DEF ClintInv

\* Steps that move neither a compare value, nor a line, nor the event.
LEMMA ClintKeeps ==
  ASSUME ClintInv, simNow' \in Nat, simNow <= simNow', mtime' \in Nat,
         UNCHANGED <<timecmp, cmpExists, timerLine, irqEvent, cmpArmed>>
  PROVE  ClintInv'
<1>1. ClintTypes' /\ ClintArmedExists'
  BY DEF ClintInv, ClintTypes, ClintArmedExists
<1>2. ASSUME irqEvent # ClintNever, irqEvent <= simNow + ClintQuantum
      PROVE  irqEvent <= simNow' + ClintQuantum
  <2>1. irqEvent \in Nat /\ simNow \in Nat /\ ClintQuantum \in Nat
    BY <1>2, ClintAssumption DEF ClintInv, ClintTypes
  <2>2. \A e, n, m, q \in Nat : e <= n + q /\ n <= m => e <= m + q
    OBVIOUS
  <2> QED BY <1>2, <2>1, <2>2
<1> QED BY <1>1, <1>2 DEF ClintInv, ClintNeverLate

LEMMA ClintStepInv == ASSUME ClintInv, ClintStep \/ UNCHANGED clintVars PROVE ClintInv'
<1>0. simNow \in Nat /\ mtime \in Nat
  BY DEF ClintInv, ClintTypes
<1>1. ASSUME ClintTick PROVE ClintInv'
  BY <1>0, <1>1, ClintKeeps DEF ClintTick
<1>2. ASSUME NEW d \in 0 .. ClintQuantum, ClintReadMtime(d) PROVE ClintInv'
  <2>1. (simNow + d) \div ClintScaler \in Nat
    BY <1>0, ClintAssumption
  <2> QED BY <1>0, <1>2, <2>1, ClintKeeps DEF ClintReadMtime
<1>3. ASSUME ClintReadTimeCsr PROVE ClintInv'
  <2>1. simNow \div ClintScaler \in Nat
    BY <1>0, ClintAssumption
  <2> QED BY <1>0, <1>3, <2>1, ClintKeeps DEF ClintReadTimeCsr, ClintUpdated
<1>4. ASSUME NEW h \in ClintHarts, NEW c \in ClintCompares \union {ClintNever},
             NEW d \in 0 .. ClintQuantum, ClintWriteMtimecmp(h, c, d)
      PROVE  ClintInv'
  <2>1. <<h, "M">> \in ClintTimers /\ c \in Nat \union {ClintNever}
    BY ClintAssumption DEF ClintTimers, ClintLevels
  <2> QED BY <1>4, <2>1, ClintStoreInv DEF ClintWriteMtimecmp
<1>5. ASSUME NEW h \in ClintHarts, NEW c \in ClintCompares \union {ClintNever},
             ClintWriteXtimecmp(h, c)
      PROVE  ClintInv'
  <2>1. <<h, "S">> \in ClintTimers /\ c \in Nat \union {ClintNever} /\ 0 \in 0 .. ClintQuantum
    BY ClintAssumption DEF ClintTimers, ClintLevels
  <2> QED BY <1>5, <2>1, ClintStoreInv DEF ClintWriteXtimecmp
<1>6. ASSUME NEW h \in ClintHarts, ClintToggle(h) PROVE ClintInv'
  <2>1. ClintTypes'
    BY <1>6 DEF ClintToggle, ClintInv, ClintTypes
  <2>2. ClintArmedExists' /\ ClintNeverLate'
    BY <1>6 DEF ClintToggle, ClintInv, ClintTypes, ClintArmedExists, ClintNeverLate
  <2> QED BY <2>1, <2>2 DEF ClintInv
<1>7. ASSUME NEW t \in ClintTimers, NEW v, ClintWriteSip(t, v) PROVE ClintInv'
  BY <1>0, <1>7, ClintKeeps DEF ClintWriteSip
<1>8. ASSUME UNCHANGED clintVars PROVE ClintInv'
  BY <1>0, <1>8, ClintKeeps DEF clintVars
<1> QED BY <1>1, <1>2, <1>3, <1>4, <1>5, <1>6, <1>7, <1>8, ClintRunInv DEF ClintStep

-----------------------------------------------------------------------------
(* The CLINT of host time *)

RcTypes ==
  /\ hostNow \in Nat
  /\ rcCmp \in [RcHarts -> Nat]
  /\ rcLine \in [RcHarts -> BOOLEAN]
  /\ rcTimer \in [RcHarts -> {"none", "sleep", "done"}]
  /\ rcExpiry \in [RcHarts -> Nat]
  /\ rcEvent \in BOOLEAN

RcInv == RcTypes /\ RcOneShotSuffices

\* Rounding down is monotonic, and undone by whole ticks.
LEMMA TicksMonotonic ==
  ASSUME NEW m \in Nat, NEW n \in Nat, m <= n
  PROVE  UsecToTicks(m) \in Nat /\ UsecToTicks(n) \in Nat /\ UsecToTicks(m) <= UsecToTicks(n)
BY RcAssumption DEF UsecToTicks

LEMMA TicksReached ==
  ASSUME NEW n \in Nat, NEW c \in Nat, ~(UsecToTicks(n) >= c)
  PROVE  LET e == n + TicksToUsec(c - UsecToTicks(n))
         IN  e \in Nat /\ UsecToTicks(e) >= c
<1> DEFINE D == RcDividend
           q == n \div D
           k == c - q
<1>1. D \in Nat \ {0} /\ q \in Nat /\ q < c /\ q * D <= n
  BY RcAssumption DEF UsecToTicks
<1>2. k \in Nat /\ k * D \in Nat
  BY <1>1
<1>3. n + k * D >= c * D
  <2>1. c * D = q * D + k * D
    BY <1>1
  <2>2. q * D \in Nat /\ c * D \in Nat
    BY <1>1
  <2> HIDE DEF k, q, D
  <2> QED BY <1>1, <1>2, <2>1, <2>2
<1>4. (n + k * D) \div D >= c
  <2> DEFINE e == n + k * D
  <2>1. e \in Nat /\ e >= c * D
    BY <1>2, <1>3
  <2> HIDE DEF e
  <2> QED BY <1>1, <2>1
<1> QED BY <1>2, <1>4 DEF UsecToTicks, TicksToUsec

LEMMA RcInitInv == ASSUME RcInit PROVE RcInv
BY DEF RcInit, RcInv, RcTypes, RcOneShotSuffices

LEMMA RcKeeps ==
  ASSUME RcInv, hostNow' \in Nat, hostNow <= hostNow',
         UNCHANGED <<rcCmp, rcLine, rcTimer, rcExpiry, rcEvent, rcSet>>
  PROVE  RcInv'
<1>1. RcTypes'
  BY DEF RcInv, RcTypes
<1>2. hostNow \in Nat
  BY DEF RcInv, RcTypes
<1>3. /\ UsecToTicks(hostNow) \in Nat /\ UsecToTicks(hostNow') \in Nat
      /\ UsecToTicks(hostNow) <= UsecToTicks(hostNow')
  BY <1>2, TicksMonotonic
<1>4. ASSUME NEW h \in RcHarts, UsecToTicks(hostNow) >= rcCmp[h]
      PROVE  UsecToTicks(hostNow') >= rcCmp[h]
  <2>1. rcCmp[h] \in Nat
    BY DEF RcInv, RcTypes
  <2> QED BY <1>3, <1>4, <2>1
<1> QED BY <1>1, <1>4 DEF RcInv, RcOneShotSuffices

LEMMA RcTimerDoneInv ==
  ASSUME RcInv, NEW h \in RcHarts, RcTimerDone(h) PROVE RcInv'
<1>1. RcTypes'
  BY DEF RcInv, RcTypes, RcTimerDone
<1>2. ASSUME UsecToTicks(rcExpiry[h]) >= rcCmp[h]
      PROVE  UsecToTicks(hostNow) >= rcCmp[h]
  <2>1. rcExpiry[h] \in Nat /\ hostNow \in Nat /\ rcCmp[h] \in Nat /\ rcExpiry[h] <= hostNow
    BY DEF RcInv, RcTypes, RcTimerDone
  <2>2. /\ UsecToTicks(rcExpiry[h]) \in Nat /\ UsecToTicks(hostNow) \in Nat
        /\ UsecToTicks(rcExpiry[h]) <= UsecToTicks(hostNow)
    BY <2>1, TicksMonotonic
  <2> QED BY <1>2, <2>1, <2>2
<1>3. ASSUME NEW g \in RcHarts
      PROVE  /\ rcLine[g] => UsecToTicks(hostNow) >= rcCmp[g]
             /\ g \in rcSet /\ ~rcLine[g] =>
                  \/ rcTimer'[g] = "sleep" /\ UsecToTicks(rcExpiry[g]) >= rcCmp[g]
                  \/ UsecToTicks(hostNow) >= rcCmp[g]
  BY <1>2 DEF RcInv, RcTypes, RcOneShotSuffices, RcTimerDone
<1> QED BY <1>1, <1>3 DEF RcInv, RcOneShotSuffices, RcTimerDone

LEMMA RcWriteInv ==
  ASSUME RcInv, NEW h \in RcHarts, NEW c \in RcCompares, RcWriteMtimecmp(h, c)
  PROVE  RcInv'
<1>0. c \in Nat /\ RcTypes /\ UNCHANGED hostNow
  BY RcAssumption DEF RcInv, RcWriteMtimecmp
<1> DEFINE late == UsecToTicks(hostNow) >= c
           e == hostNow + TicksToUsec(c - UsecToTicks(hostNow))
<1>1. ~late => e \in Nat /\ UsecToTicks(e) >= c
  BY <1>0, TicksReached DEF RcTypes
<1>2. late \in BOOLEAN
  BY <1>0, TicksMonotonic DEF RcTypes
<1>3. /\ rcCmp' = [rcCmp EXCEPT ![h] = c]
      /\ rcSet' = rcSet \union {h}
      /\ rcLine' = [rcLine EXCEPT ![h] = late]
      /\ rcTimer' = [rcTimer EXCEPT ![h] = IF late THEN "none" ELSE "sleep"]
      /\ rcExpiry' = IF late THEN rcExpiry ELSE [rcExpiry EXCEPT ![h] = e]
  <2>1. rcLine' = [rcLine EXCEPT ![h] = late]
    BY DEF RcWriteMtimecmp
  <2> HIDE DEF late
  <2>2. rcLine'[h] = late
    BY <1>0, <2>1 DEF RcTypes
  <2> QED BY <2>1, <2>2, Zenon DEF RcWriteMtimecmp
<1>4. rcEvent' \in BOOLEAN /\ (rcEvent => rcEvent')
  BY <1>0 DEF RcWriteMtimecmp, RcPause, RcTypes
<1> HIDE DEF late, e
<1>5. RcTypes'
  BY <1>0, <1>1, <1>3, <1>4, <1>2 DEF RcTypes
<1>6. ASSUME NEW g \in RcHarts
      PROVE  /\ rcLine'[g] => UsecToTicks(hostNow) >= rcCmp'[g]
             /\ g \in rcSet' /\ ~rcLine'[g] =>
                  \/ rcTimer'[g] = "sleep" /\ UsecToTicks(rcExpiry'[g]) >= rcCmp'[g]
                  \/ rcEvent' /\ UsecToTicks(hostNow) >= rcCmp'[g]
  <2>1. CASE g = h
    <3>1. /\ rcLine'[h] = late /\ rcCmp'[h] = c
          /\ rcTimer'[h] = IF late THEN "none" ELSE "sleep"
          /\ ~late => rcExpiry'[h] = e
      BY <1>0, <1>3 DEF RcTypes
    <3> QED BY <1>1, <2>1, <3>1 DEF late
  <2>2. CASE g # h
    BY <1>0, <1>3, <1>4, <2>2 DEF RcTypes, RcInv, RcOneShotSuffices
  <2> QED BY <2>1, <2>2
<1> QED BY <1>0, <1>5, <1>6 DEF RcInv, RcOneShotSuffices

LEMMA RcInterruptInv == ASSUME RcInv, RcInterrupt PROVE RcInv'
<1>1. ASSUME NEW h \in RcHarts
      PROVE  (UsecToTicks(hostNow) >= rcCmp[h]) \in BOOLEAN
  <2>1. hostNow \in Nat /\ rcCmp[h] \in Nat
    BY DEF RcInv, RcTypes
  <2>2. UsecToTicks(hostNow) \in Nat
    BY <2>1, TicksMonotonic
  <2> QED BY <2>1, <2>2
<1>2. RcTypes'
  BY <1>1 DEF RcInv, RcTypes, RcInterrupt
<1>3. RcOneShotSuffices'
  BY <1>1 DEF RcInv, RcTypes, RcInterrupt, RcOneShotSuffices
<1> QED BY <1>2, <1>3 DEF RcInv

LEMMA RcStepInv == ASSUME RcInv, RcStep \/ UNCHANGED rcVars PROVE RcInv'
<1>0. hostNow \in Nat
  BY DEF RcInv, RcTypes
<1>1. ASSUME RcTick PROVE RcInv'
  BY <1>0, <1>1, RcKeeps DEF RcTick
<1>2. ASSUME NEW t, NEW v, RcWriteSip(t, v) PROVE RcInv'
  BY <1>0, <1>2, RcKeeps DEF RcWriteSip
<1>3. ASSUME UNCHANGED rcVars PROVE RcInv'
  BY <1>0, <1>3, RcKeeps DEF rcVars
<1> QED BY <1>1, <1>2, <1>3, RcTimerDoneInv, RcWriteInv, RcInterruptInv DEF RcStep

-----------------------------------------------------------------------------
(* The UART *)

UartTypes ==
  /\ txFifo \in Seq(Nat) /\ rxFifo \in Seq(Nat)
  /\ txfull \in Nat /\ rxempty \in Nat /\ rxcnt \in Nat
  /\ txData \in Nat /\ rxData \in Nat /\ rxLeft \in Nat
  /\ txSent \in Nat /\ txOut \in Nat /\ rxTyped \in Nat /\ rxGot \in Nat
  /\ txPc \in {"swait", "pull", "check", "write", "end"}
  /\ rxPc \in {"poll", "swait", "push", "notify", "end"}
  /\ uartStop \in BOOLEAN /\ uartPosted \in BOOLEAN

One(b) == IF b THEN 1 ELSE 0

\* A byte the transmit thread took from the FIFO and has not written; one the
\* receive thread has not pushed yet.
TxHolds == txPc \in {"check", "write"}
RxHolds == rxPc \in {"swait", "push"}

\* The semaphore counts the bytes nobody waited for yet, and the bytes in the
\* FIFO follow the one the thread holds.
TxInv ==
  /\ txPc # "end"
  /\ TxHolds => txData = txOut + 1
  /\ \A i \in 1 .. Len(txFifo) : txFifo[i] = txOut + One(TxHolds) + i
  /\ txOut + One(TxHolds) + Len(txFifo) = txSent
  /\ txfull + One(txPc = "pull") = Len(txFifo)

\* What handle_input has to push follows what is in the FIFO, and free places
\* are counted by the semaphore, but for the one the receive thread has taken
\* and the one that stop_threads adds.
RxInv ==
  /\ \A i \in 1 .. Len(rxFifo) : rxFifo[i] = rxGot + i
  /\ RxHolds => rxData = rxGot + Len(rxFifo) + 1
  /\ rxPc = "notify" => rxData = rxGot + Len(rxFifo)
  /\ rxPc \in {"poll", "end"} => rxLeft = 0
  /\ rxGot + Len(rxFifo) + One(RxHolds) + rxLeft = rxTyped
  /\ rxempty + Len(rxFifo) + One(rxPc = "push") = UART_FIFO_DEPTH + One(uartPosted)

UartInv ==
  /\ UartTypes
  /\ ~uartStop => TxInv
  /\ Len(txFifo) <= UART_FIFO_DEPTH
  /\ RxInv
  /\ UartRxAnnounced

\* A byte in front of, or behind, consecutive bytes.
LEMMA ConsecutiveFront ==
  ASSUME NEW s \in Seq(Nat), NEW n \in Nat,
         \A i \in 1 .. Len(s) : s[i] = n + 1 + i
  PROVE  Consecutive(n, <<n + 1>> \o s) /\ Len(<<n + 1>> \o s) = 1 + Len(s)
<1>1. Len(<<n + 1>> \o s) = 1 + Len(s) /\ Len(s) \in Nat
  OBVIOUS
<1>2. ASSUME NEW i \in 1 .. 1 + Len(s) PROVE (<<n + 1>> \o s)[i] = n + i
  <2>1. CASE i = 1
    BY <2>1
  <2>2. CASE i # 1
    <3>1. i - 1 \in 1 .. Len(s)
      BY <1>1, <2>2
    <3>2. (<<n + 1>> \o s)[i] = s[i - 1]
      BY <1>1, <2>2, <3>1
    <3> QED BY <1>1, <3>1, <3>2
  <2> QED BY <2>1, <2>2
<1> QED BY <1>1, <1>2 DEF Consecutive

LEMMA ConsecutiveBack ==
  ASSUME NEW s \in Seq(Nat), NEW n \in Nat, NEW d \in Nat, d = n + Len(s) + 1,
         \A i \in 1 .. Len(s) : s[i] = n + i
  PROVE  Consecutive(n, s \o <<d>>)
<1>1. Len(s \o <<d>>) = Len(s) + 1 /\ Len(s) \in Nat
  OBVIOUS
<1>2. ASSUME NEW i \in 1 .. Len(s) + 1 PROVE (s \o <<d>>)[i] = n + i
  <2>1. CASE i = Len(s) + 1
    BY <1>1, <2>1
  <2>2. CASE i # Len(s) + 1
    <3>1. i \in 1 .. Len(s)
      BY <1>1, <2>2
    <3> QED BY <3>1
  <2> QED BY <2>1, <2>2
<1> QED BY <1>1, <1>2 DEF Consecutive

LEMMA UartInvInOrder == ASSUME UartInv PROVE UartInOrder
<1> DEFINE txHeld == IF txPc \in {"check", "write"} /\ txData # 0 THEN <<txData>> ELSE <<>>
           rxHeld == IF rxPc \in {"swait", "push"} THEN <<rxData>> ELSE <<>>
<1>0. UartTypes /\ RxInv /\ UART_FIFO_DEPTH \in Nat
  BY UartAssumption DEF UartInv
<1>1. ASSUME ~uartStop
      PROVE  Consecutive(txOut, txHeld \o txFifo) /\ txOut + Len(txHeld \o txFifo) = txSent
  <2>1. TxInv
    BY <1>1 DEF UartInv
  <2>2. CASE TxHolds
    <3>1. txData = txOut + 1 /\ \A i \in 1 .. Len(txFifo) : txFifo[i] = txOut + 1 + i
      BY <2>1, <2>2 DEF TxInv, One
    <3>2. txHeld = <<txOut + 1>>
      BY <1>0, <2>2, <3>1 DEF TxHolds, UartTypes
    <3>3. /\ Consecutive(txOut, <<txOut + 1>> \o txFifo)
          /\ Len(<<txOut + 1>> \o txFifo) = 1 + Len(txFifo)
      BY <1>0, <3>1, ConsecutiveFront DEF UartTypes
    <3>4. txOut + (1 + Len(txFifo)) = txSent
      BY <1>0, <2>1, <2>2 DEF TxInv, One, UartTypes
    <3> QED BY <3>2, <3>3, <3>4
  <2>3. CASE ~TxHolds
    <3>1. txHeld \o txFifo = txFifo
      BY <1>0, <2>3 DEF TxHolds, UartTypes
    <3>2. /\ \A i \in 1 .. Len(txFifo) : txFifo[i] = txOut + i
          /\ txOut + Len(txFifo) = txSent
      BY <1>0, <2>1, <2>3 DEF TxInv, One, UartTypes
    <3> QED BY <3>1, <3>2 DEF Consecutive
  <2> QED BY <2>2, <2>3
<1>2. /\ Consecutive(rxGot, rxFifo \o rxHeld)
      /\ rxGot + Len(rxFifo \o rxHeld) + rxLeft = rxTyped
  <2>1. CASE RxHolds
    <3>1. rxHeld = <<rxData>>
      BY <2>1 DEF RxHolds
    <3>2. Consecutive(rxGot, rxFifo \o <<rxData>>)
      BY <1>0, <2>1, ConsecutiveBack DEF UartTypes, RxInv
    <3>3. Len(rxFifo \o <<rxData>>) = Len(rxFifo) + 1 /\ Len(rxFifo) \in Nat
      BY <1>0 DEF UartTypes
    <3>4. rxGot + (Len(rxFifo) + 1) + rxLeft = rxTyped
      BY <1>0, <2>1, <3>3 DEF RxInv, One, UartTypes
    <3> QED BY <3>1, <3>2, <3>3, <3>4
  <2>2. CASE ~RxHolds
    <3>1. rxFifo \o rxHeld = rxFifo
      BY <1>0, <2>2 DEF RxHolds, UartTypes
    <3>2. rxGot + Len(rxFifo) + rxLeft = rxTyped
      BY <1>0, <2>2 DEF RxInv, One, UartTypes
    <3> QED BY <1>0, <3>1, <3>2 DEF Consecutive, RxInv
  <2> QED BY <2>1, <2>2
<1>3. Len(rxFifo) <= UART_FIFO_DEPTH + One(uartPosted)
  <2>1. Len(rxFifo) \in Nat /\ rxempty \in Nat
    BY <1>0 DEF UartTypes
  <2>2. CASE uartPosted
    BY <1>0, <2>1, <2>2 DEF RxInv, One
  <2>3. CASE ~uartPosted
    BY <1>0, <2>1, <2>3 DEF RxInv, One
  <2> QED BY <2>2, <2>3
<1>4. Len(txFifo) <= UART_FIFO_DEPTH
  BY DEF UartInv
<1>5. ~uartStop => Consecutive(txOut, txHeld \o txFifo) /\ txOut + Len(txHeld \o txFifo) = txSent
  BY <1>1
<1> HIDE DEF txHeld, rxHeld
<1> QED BY <1>2, <1>3, <1>4, <1>5, Zenon DEF UartInOrder, One, txHeld, rxHeld

LEMMA UartInitInv == ASSUME UartInit PROVE UartInv
<1>1. UartTypes
  <2>1. txFifo \in Seq(Nat) /\ rxFifo \in Seq(Nat)
    BY DEF UartInit
  <2>2. uartStop \in BOOLEAN /\ uartPosted \in BOOLEAN
    BY Zenon DEF UartInit
  <2> QED BY <2>1, <2>2, UartAssumption DEF UartInit, UartTypes
<1>2. Len(txFifo) = 0 /\ Len(rxFifo) = 0
  BY DEF UartInit
<1>3. TxInv /\ RxInv
  BY <1>2, UartAssumption DEF UartInit, TxInv, RxInv, TxHolds, RxHolds, One
<1>4. UartRxAnnounced
  BY DEF UartInit, UartRxAnnounced, RxAbove
<1> QED BY <1>1, <1>2, <1>3, <1>4, UartAssumption DEF UartInv

\* What a step that leaves the FIFOs, the semaphores and the threads alone keeps.
LEMMA UartKeeps ==
  ASSUME UartInv,
         UNCHANGED <<txFifo, rxFifo, txfull, rxempty, txData, rxData, txSent, txOut,
                     rxTyped, rxGot, txPc, rxPc, rxLeft, uartStop, uartPosted>>,
         rxcnt' \in Nat, UartRxAnnounced'
  PROVE  UartInv'
BY DEF UartInv, UartTypes, TxInv, RxInv, TxHolds, RxHolds, One

LEMMA TxSideInv ==
  ASSUME UartInv, UartTypes', ~uartStop' => TxInv', Len(txFifo') <= UART_FIFO_DEPTH,
         UNCHANGED <<rxFifo, rxempty, rxcnt, uartIe, rxPc, rxData, rxLeft, rxTyped, rxGot,
                     rxTold, uartStop, uartPosted>>,
         asyncEvent => asyncEvent'
  PROVE  UartInv'
<1>1. RxInv'
  BY DEF UartInv, RxInv, RxHolds, One
<1>2. UartRxAnnounced'
  BY DEF UartInv, UartRxAnnounced, RxAbove
<1> QED BY <1>1, <1>2 DEF UartInv

LEMMA RxSideInv ==
  ASSUME UartInv, UartTypes', RxInv', UartRxAnnounced',
         UNCHANGED <<txFifo, txfull, txPc, txData, txSent, txOut, uartStop>>
  PROVE  UartInv'
<1>1. TxInv' = TxInv
  BY DEF TxInv, TxHolds, One
<1> QED BY <1>1 DEF UartInv

LEMMA WriteTxdataInv == ASSUME UartInv, ~uartStop, WriteTxdata PROVE UartInv'
<1>0. UartTypes /\ TxInv /\ Len(txFifo) \in Nat /\ UART_FIFO_DEPTH \in Nat
  BY UartAssumption DEF UartInv, UartTypes
<1>1. CASE Len(txFifo) >= UART_FIFO_DEPTH
  <2>1. UartTypes' /\ TxInv' /\ Len(txFifo') <= UART_FIFO_DEPTH
    BY <1>0, <1>1 DEF WriteTxdata, UartInv, UartTypes, TxInv, TxHolds, One, txThread, rxThread
  <2> QED BY <2>1, TxSideInv DEF WriteTxdata, txThread, rxThread
<1>2. CASE ~(Len(txFifo) >= UART_FIFO_DEPTH)
  <2>1. /\ txSent' = txSent + 1 /\ txFifo' = Append(txFifo, txSent + 1)
        /\ txfull' = txfull + 1
        /\ UNCHANGED <<txPc, txData, txOut>>
    BY <1>2 DEF WriteTxdata, txThread
  <2>2. txFifo' \in Seq(Nat) /\ Len(txFifo') = Len(txFifo) + 1 /\ txSent + 1 \in Nat
    BY <1>0, <2>1 DEF UartTypes
  <2>3. UartTypes'
    BY <1>0, <2>1, <2>2 DEF UartTypes, WriteTxdata, txThread, rxThread
  <2>4. ASSUME NEW i \in 1 .. Len(txFifo')
        PROVE  txFifo'[i] = txOut + One(TxHolds) + i
    <3>1. txOut \in Nat /\ txSent \in Nat /\ One(TxHolds) \in Nat
      BY <1>0 DEF UartTypes, One
    <3>2. CASE i = Len(txFifo) + 1
      <4>1. txFifo'[i] = txSent + 1
        BY <1>0, <2>1, <3>2 DEF UartTypes
      <4>2. txOut + One(TxHolds) + Len(txFifo) = txSent
        BY <1>0 DEF TxInv
      <4> QED BY <1>0, <3>1, <3>2, <4>1, <4>2
    <3>3. CASE i # Len(txFifo) + 1
      <4>1. i \in 1 .. Len(txFifo)
        BY <1>0, <2>2, <3>3
      <4>2. txFifo'[i] = txFifo[i]
        BY <1>0, <2>1, <4>1 DEF UartTypes
      <4> QED BY <1>0, <4>1, <4>2 DEF TxInv
    <3> QED BY <3>2, <3>3
  <2>5. TxInv'
    <3>1. One(TxHolds)' = One(TxHolds) /\ One(txPc = "pull")' = One(txPc = "pull") /\ TxHolds' = TxHolds
      BY <2>1 DEF One, TxHolds
    <3>2. /\ txOut \in Nat /\ One(TxHolds) \in Nat /\ One(txPc = "pull") \in Nat
          /\ txfull \in Nat /\ txSent \in Nat
      BY <1>0 DEF UartTypes, One
    <3>3. /\ txOut + One(TxHolds) + Len(txFifo') = txSent'
          /\ txfull' + One(txPc = "pull") = Len(txFifo')
      BY <1>0, <2>1, <2>2, <3>2 DEF TxInv
    <3> QED BY <1>0, <2>1, <2>4, <3>1, <3>3 DEF TxInv
  <2>6. Len(txFifo') <= UART_FIFO_DEPTH
    BY <1>0, <1>2, <2>2
  <2> QED BY <2>3, <2>5, <2>6, TxSideInv DEF WriteTxdata, txThread, rxThread
<1> QED BY <1>1, <1>2

LEMMA TransmitInv == ASSUME UartInv, UartTransmit PROVE UartInv'
<1>0. UartTypes /\ Len(txFifo) \in Nat /\ UART_FIFO_DEPTH \in Nat /\ Len(txFifo) <= UART_FIFO_DEPTH
  BY UartAssumption DEF UartInv, UartTypes
<1>1. ASSUME TxSwait PROVE UartInv'
  <2>1. UartTypes' /\ Len(txFifo') <= UART_FIFO_DEPTH
    BY <1>0, <1>1 DEF TxSwait, UartTypes, rxThread
  <2>2. ASSUME ~uartStop PROVE TxInv'
    <3>1. TxInv
      BY <2>2 DEF UartInv
    <3> QED BY <1>0, <1>1, <3>1 DEF TxSwait, TxInv, TxHolds, One, UartTypes
  <2> QED BY <1>1, <2>1, <2>2, TxSideInv DEF TxSwait, rxThread
<1>2. ASSUME TxPull PROVE UartInv'
  <2>1. CASE txFifo = <<>>
    <3>1. UartTypes' /\ Len(txFifo') <= UART_FIFO_DEPTH
      BY <1>0, <1>2, <2>1 DEF TxPull, UartTypes, rxThread
    <3>2. uartStop
      <4>1. SUFFICES ASSUME ~uartStop PROVE FALSE
        OBVIOUS
      <4>2. txfull + 1 = Len(txFifo) /\ txfull \in Nat
        BY <1>0, <1>2, <4>1 DEF TxPull, UartInv, TxInv, One, UartTypes
      <4> QED BY <2>1, <4>2
    <3> QED BY <1>2, <3>1, <3>2, TxSideInv DEF TxPull, rxThread
  <2>2. CASE txFifo # <<>>
    <3>1. /\ txData' = txFifo[1] /\ txFifo' = Tail(txFifo) /\ txPc' = "check"
          /\ UNCHANGED <<txfull, txOut, txSent, uartStop>>
      BY <1>0, <1>2, <2>2 DEF TxPull, UartTypes
    <3>2. /\ Len(txFifo') = Len(txFifo) - 1 /\ txFifo' \in Seq(Nat) /\ Len(txFifo) >= 1
          /\ \A i \in 1 .. Len(txFifo) - 1 : txFifo'[i] = txFifo[i + 1]
      BY <1>0, <2>2, <3>1 DEF UartTypes
    <3>3. UartTypes' /\ Len(txFifo') <= UART_FIFO_DEPTH
      BY <1>0, <1>2, <2>2, <3>1, <3>2 DEF TxPull, UartTypes, rxThread
    <3>4. ASSUME ~uartStop PROVE TxInv'
      <4>1. TxInv /\ ~TxHolds /\ txPc = "pull"
        BY <1>2, <3>4 DEF UartInv, TxPull, TxHolds
      <4>2. /\ \A i \in 1 .. Len(txFifo) : txFifo[i] = txOut + i
            /\ txOut + Len(txFifo) = txSent
            /\ txfull + 1 = Len(txFifo) /\ txOut \in Nat /\ txfull \in Nat
        BY <1>0, <4>1 DEF TxInv, One, UartTypes
      <4>3. txData' = txOut' + 1
        BY <1>0, <3>1, <3>2, <4>2
      <4>4. \A i \in 1 .. Len(txFifo') : txFifo'[i] = txOut' + 1 + i
        <5>1. ASSUME NEW i \in 1 .. Len(txFifo') PROVE txFifo'[i] = txOut + 1 + i
          <6>1. i \in 1 .. Len(txFifo) - 1 /\ i + 1 \in 1 .. Len(txFifo)
            BY <1>0, <3>2
          <6> QED BY <3>2, <4>2, <6>1
        <5> QED BY <3>1, <5>1
      <4>5. /\ txOut' + 1 + Len(txFifo') = txSent' /\ txfull' + 0 = Len(txFifo')
        <5>1. txOut + 1 + (Len(txFifo) - 1) = txSent /\ txfull + 0 = Len(txFifo) - 1
          BY <1>0, <4>2
        <5> QED BY <3>1, <3>2, <5>1
      <4> QED BY <3>1, <4>3, <4>4, <4>5 DEF TxInv, TxHolds, One
    <3> QED BY <1>2, <3>3, <3>4, TxSideInv DEF TxPull, rxThread
  <2> QED BY <2>1, <2>2
<1>3. ASSUME TxCheck PROVE UartInv'
  <2>1. UartTypes' /\ Len(txFifo') <= UART_FIFO_DEPTH
    BY <1>0, <1>3 DEF TxCheck, UartTypes, rxThread
  <2>2. ASSUME ~uartStop PROVE TxInv'
    BY <1>3, <2>2 DEF TxCheck, TxInv, TxHolds, One, UartInv
  <2>3. asyncEvent => asyncEvent'
    BY <1>3 DEF TxCheck
  <2> QED BY <1>3, <2>1, <2>2, <2>3, TxSideInv DEF TxCheck, rxThread
<1>4. ASSUME TxWrite PROVE UartInv'
  <2>1. UartTypes' /\ Len(txFifo') <= UART_FIFO_DEPTH
    BY <1>0, <1>4 DEF TxWrite, UartTypes, rxThread
  <2>2. ASSUME ~uartStop PROVE TxInv'
    <3>1. TxInv /\ TxHolds /\ txPc = "write"
      BY <1>4, <2>2 DEF UartInv, TxWrite, TxHolds
    <3>2. /\ txOut' = txOut + 1 /\ txPc' = "swait" /\ txOut \in Nat
          /\ UNCHANGED <<txFifo, txfull, txSent>>
      BY <1>0, <1>4, <2>2, <3>1 DEF TxWrite, TxInv, UartTypes
    <3>3. /\ \A i \in 1 .. Len(txFifo) : txFifo[i] = txOut + 1 + i
          /\ txOut + 1 + Len(txFifo) = txSent /\ txfull = Len(txFifo)
      BY <1>0, <3>1 DEF TxInv, One, UartTypes
    <3> QED BY <1>0, <3>2, <3>3 DEF TxInv, TxHolds, One
  <2> QED BY <1>4, <2>1, <2>2, TxSideInv DEF TxWrite, rxThread
<1> QED BY <1>1, <1>2, <1>3, <1>4 DEF UartTransmit

LEMMA ReadRxdataInv == ASSUME UartInv, ReadRxdata PROVE UartInv'
<1>0. UartTypes /\ RxInv /\ Len(rxFifo) \in Nat /\ rxGot \in Nat
  BY DEF UartInv, UartTypes
<1>1. /\ rxGot' = rxFifo[1] /\ rxFifo' = Tail(rxFifo) /\ rxempty' = rxempty + 1
      /\ UNCHANGED <<rxPc, rxData, rxLeft, rxTyped, uartPosted, uartStop, rxcnt, uartIe,
                     asyncEvent>>
  BY <1>0 DEF ReadRxdata, rxThread, UartTypes
<1>2. /\ Len(rxFifo') = Len(rxFifo) - 1 /\ rxFifo' \in Seq(Nat) /\ Len(rxFifo) >= 1
      /\ \A i \in 1 .. Len(rxFifo) - 1 : rxFifo'[i] = rxFifo[i + 1]
      /\ rxGot' = rxGot + 1
  BY <1>0, <1>1 DEF ReadRxdata, UartTypes, RxInv
<1>3. UartTypes'
  BY <1>0, <1>1, <1>2 DEF ReadRxdata, UartTypes, txThread
<1>4. RxInv'
  <2>1. ASSUME NEW i \in 1 .. Len(rxFifo') PROVE rxFifo'[i] = rxGot + 1 + i
    <3>1. i \in 1 .. Len(rxFifo) - 1 /\ i + 1 \in 1 .. Len(rxFifo)
      BY <1>0, <1>2
    <3> QED BY <1>0, <1>2, <3>1 DEF RxInv
  <2>2. RxHolds' = RxHolds /\ One(RxHolds)' = One(RxHolds) /\ One(rxPc = "push")' = One(rxPc = "push")
        /\ One(uartPosted)' = One(uartPosted)
    BY <1>1 DEF RxHolds, One
  <2>3. One(RxHolds) \in Nat /\ One(rxPc = "push") \in Nat /\ rxempty \in Nat /\ rxLeft \in Nat
    BY <1>0 DEF One, UartTypes
  <2>4. /\ RxHolds => rxData' = rxGot' + Len(rxFifo') + 1
        /\ rxPc = "notify" => rxData' = rxGot' + Len(rxFifo')
        /\ rxGot' + Len(rxFifo') + One(RxHolds) + rxLeft' = rxTyped'
    BY <1>0, <1>1, <1>2, <2>3 DEF RxInv
  <2>5. rxempty' + Len(rxFifo') + One(rxPc = "push") = rxempty + Len(rxFifo) + One(rxPc = "push")
    BY <1>0, <1>1, <1>2, <2>3
  <2>6. rxempty' + Len(rxFifo') + One(rxPc = "push") = UART_FIFO_DEPTH + One(uartPosted)
    BY <1>0, <2>5 DEF RxInv
  <2> QED BY <1>0, <1>1, <1>2, <2>1, <2>2, <2>4, <2>6 DEF RxInv
<1>5. RxAbove' => RxAbove
  BY <1>0, <1>1, <1>2 DEF RxAbove, UartTypes
<1>6. rxTold /\ RxAbove' => rxTold'
  BY Zenon DEF ReadRxdata, Forget
<1>7. UartRxAnnounced'
  BY <1>1, <1>5, <1>6, Zenon DEF UartInv, UartRxAnnounced
<1> QED BY <1>1, <1>3, <1>4, <1>7, RxSideInv DEF ReadRxdata, txThread

LEMMA SoftwareInv == ASSUME UartInv, UartSoftware PROVE UartInv'
<1>0. rxcnt \in Nat /\ Len(rxFifo) \in Nat /\ UartWatermarks \subseteq Nat
  BY UartAssumption DEF UartInv, UartTypes
<1>1. ASSUME NEW n \in UartWatermarks, WriteTxctrl(n) PROVE UartInv'
  <2>1. (asyncEvent => asyncEvent') /\ UNCHANGED <<rxFifo, rxcnt, uartIe, rxTold, rxPc>>
    BY <1>1, Zenon DEF WriteTxctrl, rxThread
  <2>2. UartRxAnnounced'
    BY <2>1 DEF UartInv, UartRxAnnounced, RxAbove
  <2> QED BY <1>0, <1>1, <2>2, UartKeeps DEF WriteTxctrl, txThread, rxThread
<1>2. ASSUME NEW n \in UartWatermarks, WriteRxctrl(n) PROVE UartInv'
  <2>1. CASE n < rxcnt
    <3>1. asyncEvent'
      BY <1>2, <2>1, Zenon DEF WriteRxctrl
    <3> QED BY <1>0, <1>2, <3>1, UartKeeps DEF WriteRxctrl, txThread, rxThread, UartRxAnnounced
  <2>2. CASE ~(n < rxcnt)
    <3>1. RxAbove' => RxAbove
      BY <1>0, <1>2, <2>2 DEF WriteRxctrl, RxAbove
    <3>2. UartRxAnnounced'
      BY <1>2, <3>1 DEF WriteRxctrl, UartInv, UartRxAnnounced, Forget, rxThread
    <3> QED BY <1>0, <1>2, <3>2, UartKeeps DEF WriteRxctrl, txThread, rxThread
  <2> QED BY <2>1, <2>2
<1>3. ASSUME NEW E, WriteIe(E) PROVE UartInv'
  BY <1>0, <1>3, UartKeeps DEF WriteIe, txThread, rxThread, UartRxAnnounced
<1>4. ASSUME UartInterrupt PROVE UartInv'
  <2>1. UartRxAnnounced'
    BY <1>4 DEF UartInterrupt, UartRxAnnounced, RxAbove
  <2> QED BY <1>0, <1>4, <2>1, UartKeeps DEF UartInterrupt, txThread, rxThread
<1> QED BY <1>1, <1>2, <1>3, <1>4, WriteTxdataInv, ReadRxdataInv DEF UartSoftware

LEMMA ReceiveInv == ASSUME UartInv, UartReceive PROVE UartInv'
<1>0. /\ UartTypes /\ RxInv /\ Len(rxFifo) \in Nat /\ rxGot \in Nat /\ rxTyped \in Nat
      /\ rxempty \in Nat /\ rxLeft \in Nat /\ rxData \in Nat /\ UART_FIFO_DEPTH \in Nat /\ One(uartPosted) \in Nat
  BY UartAssumption DEF UartInv, UartTypes, One
<1>6. ASSUME NEW n \in Nat \ {0}, RxInput(n), rxPc = "poll", UNCHANGED <<rxFifo, rxempty, asyncEvent, rxQuiet>>
      PROVE  UartInv'
  <2>1. UartTypes'
    BY <1>0, <1>6 DEF RxInput, UartTypes, rxQuiet, txThread
  <2>2. RxInv'
    BY <1>0, <1>6 DEF RxInput, RxInv, RxHolds, One, rxQuiet
  <2>3. UartRxAnnounced'
    BY <1>6 DEF rxQuiet, UartInv, UartRxAnnounced, RxAbove
  <2> QED BY <1>6, <2>1, <2>2, <2>3, RxSideInv DEF rxQuiet, txThread
<1>1. ASSUME NEW esc \in BOOLEAN, RxKey(esc) PROVE UartInv'
  <2>1. CASE esc = (keyState = "COMMAND")
    BY <1>1, <1>6, <2>1 DEF RxKey
  <2>2. CASE esc # (keyState = "COMMAND")
    <3>1. /\ rxPc = "poll" /\ rxPc' \in {"poll", "end"}
          /\ UNCHANGED <<rxTyped, rxData, rxLeft, rxFifo, rxempty, asyncEvent, rxQuiet>>
      BY <1>1, <2>2 DEF RxKey
    <3>2. UartTypes'
      BY <1>0, <3>1 DEF UartTypes, rxQuiet, txThread
    <3>3. RxInv'
      BY <1>0, <3>1 DEF RxInv, RxHolds, One, rxQuiet
    <3>4. UartRxAnnounced'
      BY <3>1 DEF rxQuiet, UartInv, UartRxAnnounced, RxAbove
    <3> QED BY <3>1, <3>2, <3>3, <3>4, RxSideInv DEF rxQuiet, txThread
  <2> QED BY <2>1, <2>2
<1>7. ASSUME NEW n \in UartFrames, RxFrame(n) PROVE UartInv'
  BY <1>6, <1>7, UartAssumption DEF RxFrame
<1>2. ASSUME RxSwait PROVE UartInv'
  <2>1. UartTypes'
    BY <1>0, <1>2 DEF RxSwait, rxQuiet, UartTypes, txThread
  <2>2. RxInv'
    BY <1>0, <1>2 DEF RxSwait, rxQuiet, RxInv, RxHolds, One
  <2>3. UartRxAnnounced'
    BY <1>2 DEF RxSwait, rxQuiet, UartInv, UartRxAnnounced, RxAbove
  <2> QED BY <1>2, <2>1, <2>2, <2>3, RxSideInv DEF RxSwait, rxQuiet, txThread
<1>3. ASSUME RxPush PROVE UartInv'
  <2>1. /\ rxFifo' = Append(rxFifo, rxData) /\ rxPc' = "notify" /\ rxPc = "push"
        /\ UNCHANGED <<rxempty, rxGot, rxTyped, rxData, rxLeft, uartPosted>>
    BY <1>3 DEF RxPush, rxQuiet
  <2>2. rxFifo' \in Seq(Nat) /\ Len(rxFifo') = Len(rxFifo) + 1
    BY <1>0, <2>1 DEF UartTypes
  <2>3. UartTypes'
    BY <1>0, <1>3, <2>2 DEF RxPush, rxQuiet, UartTypes, txThread
  <2>4. ASSUME NEW i \in 1 .. Len(rxFifo') PROVE rxFifo'[i] = rxGot + i
    <3>1. CASE i = Len(rxFifo) + 1
      BY <1>0, <2>1, <3>1 DEF RxInv, RxHolds, UartTypes
    <3>2. CASE i # Len(rxFifo) + 1
      <4>1. i \in 1 .. Len(rxFifo)
        BY <1>0, <2>2, <3>2
      <4>2. rxFifo'[i] = rxFifo[i]
        BY <1>0, <2>1, <4>1 DEF UartTypes
      <4> QED BY <1>0, <4>1, <4>2 DEF RxInv
    <3> QED BY <3>1, <3>2
  <2>5. /\ rxGot + Len(rxFifo') + rxLeft = rxTyped
        /\ rxempty + Len(rxFifo') = rxempty + Len(rxFifo) + 1
        /\ rxempty + Len(rxFifo) + 1 = UART_FIFO_DEPTH + One(uartPosted)
    <3>1. One(rxPc = "push") = 1 /\ One(RxHolds) = 1
      BY <2>1 DEF One, RxHolds
    <3> QED BY <1>0, <2>2, <3>1 DEF RxInv
  <2>6. RxInv'
    <3>1. One(rxPc = "push")' = 0 /\ One(RxHolds)' = 0 /\ ~RxHolds' /\ One(uartPosted)' = One(uartPosted)
      BY <2>1 DEF One, RxHolds
    <3>2. /\ rxGot' + Len(rxFifo') + 0 + rxLeft' = rxTyped'
          /\ rxData' = rxGot' + Len(rxFifo')
          /\ rxempty' + Len(rxFifo') + 0 = UART_FIFO_DEPTH + One(uartPosted)
      BY <1>0, <2>1, <2>2, <2>5 DEF RxInv, RxHolds
    <3> QED BY <2>1, <2>4, <3>1, <3>2 DEF RxInv
  <2>7. UartRxAnnounced'
    BY <2>1 DEF UartRxAnnounced
  <2> QED BY <1>3, <2>3, <2>6, <2>7, RxSideInv DEF RxPush, rxQuiet, txThread
<1>4. ASSUME RxNotify PROVE UartInv'
  <2>1. UartTypes'
    BY <1>0, <1>4 DEF RxNotify, rxQuiet, UartTypes, txThread
  <2>2. RxInv'
    <3>0. rxPc = "notify" /\ UNCHANGED <<rxFifo, rxempty, rxTyped, rxGot, uartPosted>>
      BY <1>4 DEF RxNotify, rxQuiet
    <3>1. /\ rxData = rxGot + Len(rxFifo) /\ rxGot + Len(rxFifo) + 0 + rxLeft = rxTyped
          /\ rxempty + Len(rxFifo) + 0 = UART_FIFO_DEPTH + One(uartPosted)
      BY <1>0, <3>0 DEF RxInv, RxHolds, One
    <3>2. CASE rxLeft > 0
      <4>1. rxPc' = "swait" /\ rxData' = rxData + 1 /\ rxLeft' = rxLeft - 1
        BY <1>4, <3>2 DEF RxNotify
      <4>2. rxGot + Len(rxFifo) + 1 + rxLeft' = rxTyped /\ rxData' = rxGot + Len(rxFifo) + 1
        BY <1>0, <3>1, <4>1
      <4> QED BY <1>0, <3>0, <3>1, <4>1, <4>2 DEF RxInv, RxHolds, One
    <3>3. CASE ~(rxLeft > 0)
      <4>1. rxPc' \in {"poll", "end"} /\ rxLeft' = 0 /\ rxLeft = 0
        BY <1>0, <1>4, <3>3 DEF RxNotify
      <4> QED BY <1>0, <3>0, <3>1, <4>1 DEF RxInv, RxHolds, One
    <3> QED BY <3>2, <3>3
  <2>3. UartRxAnnounced'
    BY <1>4 DEF RxNotify, rxQuiet, UartRxAnnounced
  <2> QED BY <1>4, <2>1, <2>2, <2>3, RxSideInv DEF RxNotify, rxQuiet, txThread
<1>5. ASSUME RxStop PROVE UartInv'
  <2>1. UartTypes'
    BY <1>0, <1>5 DEF RxStop, rxQuiet, UartTypes, txThread
  <2>2. RxInv'
    BY <1>0, <1>5 DEF RxStop, rxQuiet, RxInv, RxHolds, One
  <2>3. UartRxAnnounced'
    BY <1>5 DEF RxStop, rxQuiet, UartInv, UartRxAnnounced, RxAbove
  <2> QED BY <1>5, <2>1, <2>2, <2>3, RxSideInv DEF RxStop, rxQuiet, txThread
<1> QED BY <1>1, <1>2, <1>3, <1>4, <1>5, <1>7 DEF UartReceive

LEMMA StopThreadsInv == ASSUME UartInv, StopThreads PROVE UartInv'
<1>0. UartTypes /\ RxInv /\ Len(rxFifo) \in Nat /\ rxempty \in Nat /\ UART_FIFO_DEPTH \in Nat
  BY UartAssumption DEF UartInv, UartTypes
<1>1. UartTypes'
  <2>1. uartStop' \in BOOLEAN
    BY Zenon DEF StopThreads
  <2> QED BY <1>0, <2>1 DEF StopThreads, UartTypes, txThread, rxThread
<1>2. RxInv'
  BY <1>0 DEF StopThreads, RxInv, RxHolds, One, rxThread
<1>3. UartRxAnnounced'
  BY DEF StopThreads, UartInv, UartRxAnnounced, RxAbove, rxThread
<1>4. uartStop' /\ Len(txFifo') <= UART_FIFO_DEPTH
  BY DEF StopThreads, UartInv
<1> QED BY <1>1, <1>2, <1>3, <1>4 DEF UartInv

LEMMA StopReceiveInv == ASSUME UartInv, StopReceive PROVE UartInv'
<1>0. UartTypes /\ RxInv /\ Len(rxFifo) \in Nat /\ rxempty \in Nat /\ UART_FIFO_DEPTH \in Nat
  BY UartAssumption DEF UartInv, UartTypes
<1>1. UartTypes'
  <2>1. uartPosted' \in BOOLEAN
    BY Zenon DEF StopReceive
  <2> QED BY <1>0, <2>1 DEF StopReceive, UartTypes, txThread
<1>2. RxInv'
  BY <1>0 DEF StopReceive, RxInv, RxHolds, One
<1>3. UartRxAnnounced'
  BY DEF StopReceive, UartInv, UartRxAnnounced, RxAbove
<1> QED BY <1>1, <1>2, <1>3, RxSideInv DEF StopReceive, txThread

LEMMA UartStepInv == ASSUME UartInv, UartStep \/ UNCHANGED uartVars PROVE UartInv'
<1>1. ASSUME UNCHANGED uartVars PROVE UartInv'
  <2>1. UartRxAnnounced'
    BY <1>1 DEF UartInv, UartRxAnnounced, RxAbove, uartVars
  <2>2. rxcnt' \in Nat
    BY <1>1 DEF UartInv, UartTypes, uartVars
  <2> QED BY <1>1, <2>1, <2>2, UartKeeps DEF uartVars
<1> QED BY <1>1, SoftwareInv, TransmitInv, ReceiveInv, StopThreadsInv, StopReceiveInv DEF UartStep

-----------------------------------------------------------------------------
(* SLIP framing *)

SlipCodes == {"ESC_END", "ESC_ESC"}

\* The first n bytes of the packet contain a pair that write_data confuses.
SlipConfusedIn(n) ==
  \E i \in 1 .. n - 1 : slipPacket[i] = "ESC" /\ slipPacket[i + 1] \in SlipCodes

\* What n bytes, framed and transmitted, leave in the buffer: themselves, or too
\* few bytes for ever after once a pair was confused.
SlipCollected(n) ==
  IF SlipConfusedIn(n)
  THEN Len(sndbuf) < n
  ELSE Len(sndbuf) = n /\ \A i \in 1 .. n : sndbuf[i] = slipPacket[i]

\* Between an ESC and its code the ESC stands for the byte.
SlipHalfCollected ==
  /\ slipPacket[slipPos] \in {"END", "ESC"}
  /\ slipWire = <<IF slipPacket[slipPos] = "END" THEN "ESC_END" ELSE "ESC_ESC">>
  /\ Len(sndbuf) > 0 /\ sndbuf[Len(sndbuf)] = "ESC"
  /\ IF SlipConfusedIn(slipPos - 1)
     THEN Len(sndbuf) < slipPos
     ELSE Len(sndbuf) = slipPos /\ \A i \in 1 .. slipPos - 1 : sndbuf[i] = slipPacket[i]

SlipTypes ==
  /\ slipPacket \in Seq(SlipBytes) /\ Len(slipPacket) > 0
  /\ slipPos \in Nat
  /\ sndbuf \in Seq(SlipBytes)

\* Nothing framed is on its way; a byte; half of one; the END; done.
SlipInv ==
  /\ SlipTypes
  /\ \/ /\ slipPos <= Len(slipPacket) /\ slipWire = <<>> /\ slipSent = <<>>
        /\ SlipCollected(slipPos)
     \/ /\ slipPos \in 1 .. Len(slipPacket) /\ slipSent = <<>>
        /\ slipWire = SlipEscape(slipPacket[slipPos])
        /\ SlipCollected(slipPos - 1)
     \/ slipPos \in 1 .. Len(slipPacket) /\ slipSent = <<>> /\ SlipHalfCollected
     \/ /\ slipPos = Len(slipPacket) + 1 /\ slipWire = <<"END">> /\ slipSent = <<>>
        /\ SlipCollected(Len(slipPacket))
     \/ /\ slipPos = Len(slipPacket) + 1 /\ slipWire = <<>>
        /\ slipSent = <<slipPacket>> <=> ~SlipConfused(slipPacket)

LEMMA SlipInvDelivers == ASSUME SlipInv PROVE SlipDelivers
<1> SUFFICES ASSUME slipPos > Len(slipPacket), slipWire = <<>>
             PROVE  slipSent = <<slipPacket>> <=> ~SlipConfused(slipPacket)
  BY DEF SlipDelivers
<1>1. Len(slipPacket) \in Nat /\ slipPos \in Nat
  BY DEF SlipInv, SlipTypes
<1>2. <<"END">> # <<>>
  OBVIOUS
<1> QED BY <1>1, <1>2 DEF SlipInv

LEMMA SlipInitInv == ASSUME SlipInit PROVE SlipInv
<1>1. PICK n \in 1 .. SlipMaxPacket : slipPacket \in [1 .. n -> SlipBytes]
  BY DEF SlipInit, SlipPackets
<1>2. n \in Nat /\ n > 0
  BY SlipAssumption
<1>3. slipPacket \in Seq(SlipBytes) /\ Len(slipPacket) = n
  BY <1>1, <1>2
<1>4. SlipTypes
  BY <1>2, <1>3 DEF SlipTypes, SlipInit
<1>5. SlipCollected(slipPos)
  BY DEF SlipCollected, SlipConfusedIn, SlipInit
<1> QED BY <1>2, <1>3, <1>4, <1>5 DEF SlipInv, SlipInit

\* One byte more is confused with the one before it, or not at all.
LEMMA SlipConfusedStep ==
  ASSUME NEW n \in Nat, n > 0
  PROVE  SlipConfusedIn(n) <=>
           \/ SlipConfusedIn(n - 1)
           \/ n > 1 /\ slipPacket[n - 1] = "ESC" /\ slipPacket[n] \in SlipCodes
<1>1. CASE n = 1
  BY <1>1 DEF SlipConfusedIn
<1>2. CASE n > 1
  <2>1. 1 .. n - 1 = (1 .. (n - 1) - 1) \union {n - 1} /\ (n - 1) + 1 = n
    BY <1>2
  <2> QED BY <1>2, <2>1 DEF SlipConfusedIn
<1> QED BY <1>1, <1>2

LEMMA SlipCollectAppends ==
  ASSUME NEW buf \in Seq(SlipBytes), NEW b \in SlipBytes,
         ~(Len(buf) > 0 /\ buf[Len(buf)] = "ESC" /\ b \in SlipCodes)
  PROVE  SlipCollect(buf, b) = Append(buf, b)
BY DEF SlipCollect, SlipCodes, Last

LEMMA SlipCollectReplaces ==
  ASSUME NEW buf \in Seq(SlipBytes), NEW b \in SlipCodes,
         Len(buf) > 0, buf[Len(buf)] = "ESC"
  PROVE  LET c == IF b = "ESC_END" THEN "END" ELSE "ESC"
             new == SlipCollect(buf, b)
         IN  /\ new \in Seq(SlipBytes) /\ Len(new) = Len(buf)
             /\ new[Len(buf)] = c
             /\ \A i \in 1 .. Len(buf) - 1 : new[i] = buf[i]
<1> DEFINE c == IF b = "ESC_END" THEN "END" ELSE "ESC"
           rest == SubSeq(buf, 1, Len(buf) - 1)
<1>1. SlipCollect(buf, b) = Append(rest, c)
  BY DEF SlipCollect, SlipCodes, Last, Front
<1>2. /\ rest \in Seq(SlipBytes) /\ Len(rest) = Len(buf) - 1
      /\ \A i \in 1 .. Len(buf) - 1 : rest[i] = buf[i]
  <2>1. /\ Len(buf) \in Nat /\ 1 \in Int /\ Len(buf) - 1 \in Int
        /\ \A i \in 1 .. Len(buf) - 1 : buf[i] \in SlipBytes
    OBVIOUS
  <2>2. /\ rest \in Seq(SlipBytes)
        /\ Len(rest) = IF 1 <= Len(buf) - 1 THEN (Len(buf) - 1) - 1 + 1 ELSE 0
        /\ \A i \in 1 .. (Len(buf) - 1) - 1 + 1 : rest[i] = buf[1 + i - 1]
    BY <2>1, SubSeqProperties
  <2> HIDE DEF rest
  <2>3. Len(rest) = Len(buf) - 1
    <3>1. \A n \in Nat : n > 0 => (IF 1 <= n - 1 THEN (n - 1) - 1 + 1 ELSE 0) = n - 1
      OBVIOUS
    <3> QED BY <2>1, <2>2, <3>1
  <2>4. ASSUME NEW i \in 1 .. Len(buf) - 1 PROVE rest[i] = buf[i]
    <3>1. i \in 1 .. (Len(buf) - 1) - 1 + 1 /\ 1 + i - 1 = i
      BY <2>1
    <3> QED BY <2>2, <3>1
  <2> QED BY <2>2, <2>3, <2>4
<1>3. c \in SlipBytes
  BY DEF SlipBytes
<1> HIDE DEF rest, c
<1>4. /\ Append(rest, c) \in Seq(SlipBytes) /\ Len(Append(rest, c)) = Len(buf)
      /\ Append(rest, c)[Len(buf)] = c
      /\ \A i \in 1 .. Len(buf) - 1 : Append(rest, c)[i] = buf[i]
  BY <1>2, <1>3
<1> QED BY <1>1, <1>4 DEF c

LEMMA SlipFrameInv == ASSUME SlipInv, SlipFrameByte PROVE SlipInv'
<1>1. /\ slipPos \in Nat /\ Len(slipPacket) \in Nat /\ SlipTypes
      /\ UNCHANGED <<slipPacket, sndbuf, slipSent>> /\ slipPos' = slipPos + 1
  BY DEF SlipInv, SlipTypes, SlipFrameByte
<1>2. slipPos <= Len(slipPacket) /\ slipSent = <<>> /\ SlipCollected(slipPos)
  <2>1. \A b : SlipEscape(b) # <<>>
    BY DEF SlipEscape
  <2>2. slipWire = <<>> /\ slipPos <= Len(slipPacket)
    BY DEF SlipFrameByte
  <2>3. ~SlipHalfCollected
    BY <2>2 DEF SlipHalfCollected
  <2>4. ~(slipWire = <<"END">>) /\ slipPos # Len(slipPacket) + 1
    BY <1>1, <2>2
  <2> QED BY <2>1, <2>2, <2>3, <2>4 DEF SlipInv
<1>3. SlipTypes'
  BY <1>1 DEF SlipTypes
<1>4. \A n : SlipCollected(n)' <=> SlipCollected(n)
  BY <1>1 DEF SlipCollected, SlipConfusedIn
<1>5. CASE slipPos < Len(slipPacket)
  <2>1. slipWire' = SlipEscape(slipPacket'[slipPos']) /\ slipPos' \in 1 .. Len(slipPacket')
    BY <1>1, <1>5 DEF SlipFrameByte
  <2>2. slipPos' - 1 = slipPos
    BY <1>1
  <2> QED BY <1>1, <1>2, <1>3, <1>4, <2>1, <2>2 DEF SlipInv
<1>6. CASE slipPos = Len(slipPacket)
  <2>1. slipWire' = <<"END">> /\ slipPos' = Len(slipPacket') + 1
    BY <1>1, <1>6 DEF SlipFrameByte
  <2>2. SlipCollected(Len(slipPacket))'
    BY <1>1, <1>2, <1>4, <1>6
  <2> QED BY <1>1, <1>2, <1>3, <2>1, <2>2 DEF SlipInv
<1> QED BY <1>1, <1>2, <1>5, <1>6

LEMMA SlipSendInv ==
  ASSUME SlipInv, SlipWriteData, slipPos = Len(slipPacket) + 1
  PROVE  SlipInv'
<1>1. /\ SlipTypes /\ Len(slipPacket) \in Nat /\ slipWire = <<"END">> /\ slipSent = <<>>
      /\ SlipCollected(Len(slipPacket))
  <2>1. Len(slipPacket) \in Nat
    BY DEF SlipInv, SlipTypes
  <2> QED BY <2>1 DEF SlipInv, SlipWriteData
<1>2. /\ UNCHANGED <<slipPacket, slipPos>> /\ slipWire' = <<>> /\ sndbuf' = <<>>
      /\ slipSent' = IF sndbuf # <<>> THEN <<sndbuf>> ELSE <<>>
  BY <1>1 DEF SlipWriteData
<1>3. SlipTypes'
  BY <1>1, <1>2 DEF SlipTypes
<1>4. SlipConfused(slipPacket) <=> SlipConfusedIn(Len(slipPacket))
  BY DEF SlipConfused, SlipConfusedIn, SlipCodes
<1>5. slipSent' = <<slipPacket>> <=> ~SlipConfused(slipPacket)
  <2>1. CASE SlipConfused(slipPacket)
    <3>1. Len(sndbuf) < Len(slipPacket)
      BY <1>1, <1>4, <2>1 DEF SlipCollected
    <3>2. sndbuf # slipPacket
      BY <1>1, <3>1 DEF SlipTypes
    <3>3. <<sndbuf>> # <<slipPacket>> /\ <<>> # <<slipPacket>>
      BY <3>2
    <3> QED BY <1>2, <2>1, <3>3
  <2>2. CASE ~SlipConfused(slipPacket)
    <3>1. Len(sndbuf) = Len(slipPacket) /\ \A i \in 1 .. Len(slipPacket) : sndbuf[i] = slipPacket[i]
      BY <1>1, <1>4, <2>2 DEF SlipCollected
    <3>2. sndbuf = slipPacket /\ sndbuf # <<>>
      BY <1>1, <3>1 DEF SlipTypes
    <3> QED BY <1>2, <2>2, <3>2
  <2> QED BY <2>1, <2>2
<1> QED BY <1>2, <1>3, <1>5 DEF SlipInv

LEMMA SlipByteInv ==
  ASSUME SlipInv, SlipWriteData, slipPos # Len(slipPacket) + 1
  PROVE  SlipInv'
<1>1. /\ SlipTypes /\ slipPos \in 1 .. Len(slipPacket) /\ slipSent = <<>>
      /\ Len(slipPacket) \in Nat /\ Len(sndbuf) \in Nat
      /\ \/ slipWire = SlipEscape(slipPacket[slipPos]) /\ SlipCollected(slipPos - 1)
         \/ SlipHalfCollected
  <2>1. Len(slipPacket) \in Nat /\ Len(sndbuf) \in Nat /\ slipWire # <<>>
    BY DEF SlipInv, SlipTypes, SlipWriteData
  <2> QED BY <2>1 DEF SlipInv
<1> DEFINE p == slipPos
           b == slipPacket[slipPos]
<1>2. b \in SlipBytes /\ p \in Nat /\ p > 0 /\ sndbuf \in Seq(SlipBytes)
  BY <1>1 DEF SlipTypes
<1>3. UNCHANGED <<slipPacket, slipPos>> /\ (\A n : SlipConfusedIn(n)' <=> SlipConfusedIn(n))
  BY DEF SlipWriteData, SlipConfusedIn
<1>4. CASE slipWire = SlipEscape(b) /\ SlipCollected(p - 1) /\ b \in {"END", "ESC"}
  <2>1. slipWire = <<"ESC", IF b = "END" THEN "ESC_END" ELSE "ESC_ESC">>
    BY <1>4 DEF SlipEscape
  <2>2. /\ sndbuf' = SlipCollect(sndbuf, "ESC") /\ slipSent' = slipSent
        /\ slipWire' = <<IF b = "END" THEN "ESC_END" ELSE "ESC_ESC">>
    BY <2>1 DEF SlipWriteData
  <2>3. sndbuf' = Append(sndbuf, "ESC")
    BY <1>2, <2>2, SlipCollectAppends DEF SlipBytes, SlipCodes
  <2>4. /\ sndbuf' \in Seq(SlipBytes) /\ Len(sndbuf') = Len(sndbuf) + 1
        /\ sndbuf'[Len(sndbuf) + 1] = "ESC"
        /\ \A i \in 1 .. Len(sndbuf) : sndbuf'[i] = sndbuf[i]
    BY <1>2, <2>3 DEF SlipBytes
  <2>5. SlipTypes'
    BY <1>1, <1>3, <2>4 DEF SlipTypes
  <2>6. IF SlipConfusedIn(p - 1)
        THEN Len(sndbuf') < p
        ELSE Len(sndbuf') = p /\ \A i \in 1 .. p - 1 : sndbuf'[i] = slipPacket[i]
    BY <1>1, <1>2, <1>4, <2>4 DEF SlipCollected
  <2>7. SlipHalfCollected'
    BY <1>1, <1>3, <1>4, <2>2, <2>4, <2>6 DEF SlipHalfCollected
  <2> QED BY <1>1, <1>3, <2>2, <2>5, <2>7 DEF SlipInv
<1>5. ASSUME slipWire' = <<>>, slipSent' = <<>>, sndbuf' \in Seq(SlipBytes),
             IF SlipConfusedIn(p)
             THEN Len(sndbuf') < p
             ELSE Len(sndbuf') = p /\ \A i \in 1 .. p : sndbuf'[i] = slipPacket[i]
      PROVE  SlipInv'
  <2>1. SlipTypes'
    BY <1>1, <1>3, <1>5 DEF SlipTypes
  <2>2. SlipCollected(slipPos)'
    BY <1>3, <1>5 DEF SlipCollected
  <2>3. slipPos' <= Len(slipPacket')
    BY <1>1, <1>3
  <2> QED BY <1>5, <2>1, <2>2, <2>3 DEF SlipInv
<1>6. SlipConfusedIn(p) <=> \/ SlipConfusedIn(p - 1)
                            \/ p > 1 /\ slipPacket[p - 1] = "ESC" /\ b \in SlipCodes
  BY <1>2, SlipConfusedStep
<1>7. CASE slipWire = SlipEscape(b) /\ SlipCollected(p - 1) /\ b \notin {"END", "ESC"}
  <2>1. slipWire = <<b>>
    BY <1>7 DEF SlipEscape
  <2>2. sndbuf' = SlipCollect(sndbuf, b) /\ slipSent' = <<>> /\ slipWire' = <<>>
    BY <1>1, <1>7, <2>1 DEF SlipWriteData
  <2>3. CASE Len(sndbuf) > 0 /\ sndbuf[Len(sndbuf)] = "ESC" /\ b \in SlipCodes
    <3>1. sndbuf' \in Seq(SlipBytes) /\ Len(sndbuf') = Len(sndbuf)
      BY <1>2, <2>2, <2>3, SlipCollectReplaces
    <3>2. CASE SlipConfusedIn(p - 1)
      <4>1. Len(sndbuf) < p - 1
        BY <1>7, <3>2 DEF SlipCollected
      <4>2. SlipConfusedIn(p) /\ Len(sndbuf') < p
        BY <1>1, <1>2, <1>6, <3>1, <3>2, <4>1
      <4> QED BY <1>5, <2>2, <3>1, <4>2
    <3>3. CASE ~SlipConfusedIn(p - 1)
      <4>1. Len(sndbuf) = p - 1 /\ \A i \in 1 .. p - 1 : sndbuf[i] = slipPacket[i]
        BY <1>7, <3>3 DEF SlipCollected
      <4>2. p > 1 /\ slipPacket[p - 1] = "ESC"
        BY <1>2, <2>3, <4>1
      <4>3. SlipConfusedIn(p) /\ Len(sndbuf') < p
        BY <1>2, <1>6, <2>3, <3>1, <4>1, <4>2
      <4> QED BY <1>5, <2>2, <3>1, <4>3
    <3> QED BY <3>2, <3>3
  <2>4. CASE ~(Len(sndbuf) > 0 /\ sndbuf[Len(sndbuf)] = "ESC" /\ b \in SlipCodes)
    <3>1. sndbuf' = Append(sndbuf, b)
      BY <1>2, <2>2, <2>4, SlipCollectAppends
    <3>2. /\ sndbuf' \in Seq(SlipBytes) /\ Len(sndbuf') = Len(sndbuf) + 1
          /\ sndbuf'[Len(sndbuf) + 1] = b
          /\ \A i \in 1 .. Len(sndbuf) : sndbuf'[i] = sndbuf[i]
      BY <1>2, <3>1
    <3>3. CASE SlipConfusedIn(p - 1)
      <4>1. Len(sndbuf) < p - 1
        BY <1>7, <3>3 DEF SlipCollected
      <4>2. SlipConfusedIn(p) /\ Len(sndbuf') < p
        BY <1>1, <1>2, <1>6, <3>2, <3>3, <4>1
      <4> QED BY <1>5, <2>2, <3>2, <4>2
    <3>4. CASE ~SlipConfusedIn(p - 1)
      <4>1. Len(sndbuf) = p - 1 /\ \A i \in 1 .. p - 1 : sndbuf[i] = slipPacket[i]
        BY <1>7, <3>4 DEF SlipCollected
      <4>2. ~(p > 1 /\ slipPacket[p - 1] = "ESC" /\ b \in SlipCodes)
        BY <1>2, <2>4, <4>1
      <4>3. Len(sndbuf') = p /\ \A i \in 1 .. p : sndbuf'[i] = slipPacket[i]
        BY <1>2, <3>2, <4>1
      <4> QED BY <1>5, <1>6, <2>2, <3>2, <3>4, <4>2, <4>3
    <3> QED BY <3>3, <3>4
  <2> QED BY <2>3, <2>4
<1>8. CASE SlipHalfCollected
  <2> DEFINE code == IF b = "END" THEN "ESC_END" ELSE "ESC_ESC"
  <2>1. /\ b \in {"END", "ESC"} /\ slipWire = <<code>>
        /\ Len(sndbuf) > 0 /\ sndbuf[Len(sndbuf)] = "ESC"
    BY <1>8 DEF SlipHalfCollected
  <2>2. code \in SlipCodes /\ b = (IF code = "ESC_END" THEN "END" ELSE "ESC") /\ code # "END"
    BY <2>1 DEF SlipCodes
  <2> HIDE DEF code
  <2>3. sndbuf' = SlipCollect(sndbuf, code) /\ slipSent' = <<>> /\ slipWire' = <<>>
    BY <1>1, <2>1, <2>2 DEF SlipWriteData
  <2>4. /\ sndbuf' \in Seq(SlipBytes) /\ Len(sndbuf') = Len(sndbuf)
        /\ sndbuf'[Len(sndbuf)] = b
        /\ \A i \in 1 .. Len(sndbuf) - 1 : sndbuf'[i] = sndbuf[i]
    BY <1>2, <2>1, <2>2, <2>3, SlipCollectReplaces
  <2>5. SlipConfusedIn(p) <=> SlipConfusedIn(p - 1)
    BY <1>6, <2>1 DEF SlipCodes
  <2>6. CASE SlipConfusedIn(p - 1)
    <3>1. Len(sndbuf') < p
      BY <1>8, <2>4, <2>6 DEF SlipHalfCollected
    <3> QED BY <1>5, <2>3, <2>4, <2>5, <2>6, <3>1
  <2>7. CASE ~SlipConfusedIn(p - 1)
    <3>1. Len(sndbuf) = p /\ \A i \in 1 .. p - 1 : sndbuf[i] = slipPacket[i]
      BY <1>8, <2>7 DEF SlipHalfCollected
    <3>2. Len(sndbuf') = p /\ \A i \in 1 .. p : sndbuf'[i] = slipPacket[i]
      BY <1>2, <2>4, <3>1
    <3> QED BY <1>5, <2>3, <2>4, <2>5, <2>7, <3>2
  <2> QED BY <2>6, <2>7
<1> QED BY <1>1, <1>4, <1>7, <1>8

LEMMA SlipStepInv == ASSUME SlipInv, SlipStep \/ UNCHANGED slipVars PROVE SlipInv'
<1>1. ASSUME UNCHANGED slipVars PROVE SlipInv'
  BY <1>1 DEF slipVars, SlipInv, SlipTypes, SlipCollected, SlipConfusedIn,
              SlipHalfCollected, SlipConfused
<1> QED BY <1>1, SlipFrameInv, SlipSendInv, SlipByteInv DEF SlipStep

-----------------------------------------------------------------------------
(* All of them together *)

DevicesInv ==
  AplicInv /\ FeInv /\ FuInv /\ DmaInv /\ ClintInv /\ RcInv /\ UartInv /\ SlipInv

\* The inductive invariant of every device holds throughout, whichever of them
\* acts.
THEOREM DevicesInvariant == Spec => []DevicesInv
<1>1. Init => DevicesInv
  BY AplicInitInv, FeInitInv, FuInitInv, DmaInitInv, ClintInitInv, RcInitInv,
     UartInitInv, SlipInitInv
     DEF Init, DevicesInv
<1>2. DevicesInv /\ [Next]_<<part, deviceVars>> => DevicesInv'
  <2> SUFFICES ASSUME DevicesInv, [Next]_<<part, deviceVars>> PROVE DevicesInv'
    OBVIOUS
  <2>1. AplicNext \/ UNCHANGED aplicVars
    BY Zenon DEF Next, Others, deviceVars
  <2>2. FeStep \/ UNCHANGED feVars
    BY Zenon DEF Next, Others, deviceVars
  <2>3. FuStep \/ UNCHANGED fuVars
    BY Zenon DEF Next, Others, deviceVars
  <2>4. DmaStep \/ UNCHANGED dmaVars
    BY Zenon DEF Next, Others, deviceVars
  <2>5. ClintStep \/ UNCHANGED clintVars
    BY Zenon DEF Next, Others, deviceVars
  <2>6. RcStep \/ UNCHANGED rcVars
    BY Zenon DEF Next, Others, deviceVars
  <2>7. UartStep \/ UNCHANGED uartVars
    BY Zenon DEF Next, Others, deviceVars
  <2>8. SlipStep \/ UNCHANGED slipVars
    BY Zenon DEF Next, Others, deviceVars
  <2> QED
    BY <2>1, <2>2, <2>3, <2>4, <2>5, <2>6, <2>7, <2>8, AplicStepInv, AplicStutterInv,
       FeStepInv, FuStepInv, DmaStepInv, ClintStepInv, RcStepInv, UartStepInv, SlipStepInv
       DEF DevicesInv
<1> QED BY <1>1, <1>2, PTL DEF Spec

\* For every number of sources, priorities, contexts and harts, and any order
\* of wires, configuration writes, claims and completions: a PLIC has told the
\* hart, or is about to, of every interrupt it would take that is not among
\* those a configuration write, an FU540 completion or a supervisor context of
\* the FU540 left waiting; the FE310's assertion holds for software that claims
\* one raised interrupt at a time; and an inactive APLIC source gains nothing,
\* though a detached or delegated one keeps what it had (aplic.h:740).
THEOREM ControllersAlwaysExact == Spec => []ControllersExact
<1>1. DevicesInv => ControllersExact
  BY DEF DevicesInv, ControllersExact, AplicInv, FeInv, FuInv
<1> QED BY <1>1, DevicesInvariant, PTL

\* A copy during which no register was written copies exactly, for every length
\* and buffer size (dma.h, _perform_memcpy).
THEOREM DmaCopiesExactly == Spec => []DmaCopyExact
<1>1. DevicesInv => DmaCopyExact
  BY DmaInvExact DEF DevicesInv
<1> QED BY <1>1, DevicesInvariant, PTL

\* No timer is late, whatever the scaler, the quantum, the compare values and the
\* host's scheduling (clint.h, run; real_clint.cpp, interrupt).
THEOREM TimersAlwaysOnTime == Spec => []TimersOnTime
<1>1. DevicesInv => TimersOnTime
  BY DEF DevicesInv, TimersOnTime, ClintInv, RcInv
<1> QED BY <1>1, DevicesInvariant, PTL

\* Bytes of any number pass FIFOs of any depth in order and are announced, and
\* packets of any length arrive exactly when write_data confuses no pair of
\* their bytes (uart_if.cpp, slip.cpp).
THEOREM SerialAlwaysExact == Spec => []SerialExact
<1>1. DevicesInv => SerialExact
  BY UartInvInOrder, SlipInvDelivers DEF DevicesInv, SerialExact, UartInv
<1> QED BY <1>1, DevicesInvariant, PTL

\* An edge-sensitive source sends at most one MSI for each request (aplic.h,
\* msi_clr_pending).
THEOREM AplicEdgeSentOnce == Spec => AplicEdgeOnce
<1>1. DevicesInv =>
        \A s \in AplicSources : AplicRun /\ NextPending = s /\ IsEdge(s) => s \in asked
  BY AplicMsiAsked DEF DevicesInv
<1> QED BY <1>1, DevicesInvariant, PTL DEF AplicEdgeOnce

=============================================================================
