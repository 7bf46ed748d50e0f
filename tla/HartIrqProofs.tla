---------------------------- MODULE HartIrqProofs ----------------------------
(***************************************************************************)
(* Theorems about the interrupts of one hart, for every program, every     *)
(* assignment of identities and every register contents.                   *)
(*                                                                         *)
(* ExternalBitsFresh is what everything rests on, and it is not kept by    *)
(* the parts of a step: a delivery writes a file and then the bit above    *)
(* it.  The lemmas therefore speak of hart records, which the functions of *)
(* the code take and return: what is fresh before a delivery (FreshMS for  *)
(* the bits of M and S, FreshSg and FreshVs for the guest's), that a       *)
(* delivery only adds (Grows) and only moves upwards (Upwards), and that   *)
(* the cascade leaves all of it fresh.                                     *)
(***************************************************************************)
EXTENDS HartIrq, WellFoundedInduction, TLAPS

FileIrqs == {MEI, SEI, VSEI, SGEI}

LEMMA IrqNumbers ==
  /\ MajorIrqs \subseteq 1 .. WDT
  /\ FileIrqs \subseteq LeveledIrqs
  /\ LeveledIrqs \subseteq MajorIrqs
  /\ VirtualIrqs \subseteq HypervisorIrqs
  /\ HypervisorIrqs \subseteq LeveledIrqs
  /\ {VSEI, SGEI} \subseteq HypervisorIrqs
  /\ VSEI \in VirtualIrqs /\ SGEI \notin VirtualIrqs
  /\ SEI \in SupervisorIrqs /\ SEI \notin HypervisorIrqs
  /\ MEI \notin HypervisorIrqs
  /\ {SGEI, VSEI, MEI} \intersect (Unleveled \union SupervisorIrqs) = {}
  /\ SGEI # SEI /\ SGEI # VSEI /\ SGEI # MEI /\ VSEI # SEI /\ VSEI # MEI /\ SEI # MEI
BY DEF MajorIrqs, LeveledIrqs, HypervisorIrqs, VirtualIrqs, SupervisorIrqs,
       Unleveled, FileIrqs, SSI, VSSI, MSI, STI, VSTI, MTI, SEI, VSEI, MEI,
       SGEI, COUNTER_OVERFLOW, DEBUG_TRACE, LOW_PRIO_RAS, HIGH_PRIO_RAS, WDT

-----------------------------------------------------------------------------
(* Registers and harts *)

\* The registers of a hart: the hypervisor's interrupts stay delegated.
Registers == {c \in Clint : HypervisorIrqs \subseteq c.mideleg}

Harts == [clint : Registers, file : [Levels -> SUBSET Nat],
          nv : SUBSET Levels, connected : BOOLEAN, hgeie : BOOLEAN]

LEMMA HwWriteMipKeeps ==
  ASSUME NEW c \in Registers, NEW iid, NEW set \in BOOLEAN
  PROVE  /\ HwWriteMip(c, iid, set) \in Registers
         /\ HwWriteMip(c, iid, set) = [c EXCEPT !.mip = HwWriteMip(c, iid, set).mip]
         /\ \A j : j # iid => (j \in HwWriteMip(c, iid, set).mip <=> j \in c.mip)
         /\ iid \in LeveledIrqs => (iid \in HwWriteMip(c, iid, set).mip <=> set)
BY DEF HwWriteMip, Registers, Clint

LEMMA MaskedWithin ==
  ASSUME NEW W, NEW r \in SUBSET W, NEW m \in SUBSET W, NEW v
  PROVE  Masked(r, m, v) \in SUBSET W
BY DEF Masked

LEMMA WriteRegKeeps ==
  ASSUME NEW c \in Registers, NEW name \in DOMAIN Writable, NEW val
  PROVE  WriteReg(c, name, val) \in Registers /\ WriteReg(c, name, val).mip = c.mip
<1>1. name \in {"mie", "mideleg", "hideleg", "mvien", "mvip", "hvien", "hvip"}
  BY DEF Writable
<1>2. CASE name = "mie"
  BY <1>2 DEF WriteReg, Masked, Writable, Registers, Clint
<1>3. CASE name = "mideleg"
  BY <1>3, IrqNumbers DEF WriteReg, Masked, Writable, Registers, Clint, MajorIrqs, LeveledIrqs,
     HypervisorIrqs, SupervisorIrqs, VirtualIrqs, SSI, STI, SEI, VSSI, VSTI, VSEI, SGEI
<1>4. CASE name = "hideleg"
  BY <1>4 DEF WriteReg, Masked, Writable, Registers, Clint
<1>5. CASE name = "mvien"
  BY <1>5 DEF WriteReg, Masked, Writable, Registers, Clint
<1>6. CASE name = "mvip"
  BY <1>6 DEF WriteReg, Masked, Writable, Registers, Clint
<1>7. CASE name = "hvien"
  BY <1>7 DEF WriteReg, Masked, Writable, Registers, Clint
<1>8. CASE name = "hvip"
  BY <1>8 DEF WriteReg, Masked, Writable, Registers, Clint
<1> QED BY <1>1, <1>2, <1>3, <1>4, <1>5, <1>6, <1>7, <1>8

LEMMA ApplyWriteKeeps ==
  ASSUME NEW c \in Registers, NEW reg \in DOMAIN Writable \union RoutedRegs, NEW val
  PROVE  ApplyWrite(c, reg, val) \in Registers /\ ApplyWrite(c, reg, val).mip = c.mip
<1>1. HypervisorIrqs \subseteq MajorIrqs
  BY IrqNumbers
<1>2. CASE reg = "sie"
  <2>1. SInjected(c) \subseteq Writable.mvien /\ SDelegated(c) \subseteq MajorIrqs
    BY DEF SInjected, SDelegated, Registers, Clint
  <2> QED BY <1>2, <2>1 DEF ApplyWrite, WriteSie, WriteSieMasked, Masked, Registers, Clint
<1>3. CASE reg = "hie"
  BY <1>1, <1>3 DEF ApplyWrite, WriteHie, Masked, Registers, Clint
<1>4. CASE reg = "vsie"
  <2>1. SInjected(c) \subseteq Writable.mvien /\ SDelegated(c) \subseteq MajorIrqs
    BY DEF SInjected, SDelegated, Registers, Clint
  <2>2. VsInjected(c) \subseteq Writable.hvien
    BY DEF VsInjected, Registers, Clint
  <2>3. ASSUME NEW m PROVE /\ WriteSieMasked(c, m, val) \in Registers
                           /\ WriteSieMasked(c, m, val).mip = c.mip
                           /\ WriteSieMasked(c, m, val).vsShadow = c.vsShadow
    BY <2>1 DEF WriteSieMasked, Masked, Registers, Clint
  <2> QED BY <1>1, <1>4, <2>2, <2>3 DEF ApplyWrite, WriteVsie, Masked, Registers, Clint
<1>5. CASE reg = "sip"
  <2>1. SInjected(c) \subseteq Writable.mvien /\ Writable.mvien = Writable.mvip
    BY DEF SInjected, Registers, Clint, Writable
  <2> QED BY <1>5, <2>1 DEF ApplyWrite, WriteSip, Masked, Registers, Clint
<1>6. CASE reg = "vsip"
  <2>1. VsInjected(c) \subseteq Writable.hvien /\ Writable.hvien \subseteq Writable.hvip
    BY DEF VsInjected, Registers, Clint, Writable
  <2> QED BY <1>6, <2>1 DEF ApplyWrite, WriteVsip, Masked, Registers, Clint
<1>7. CASE reg \notin RoutedRegs
  BY <1>7, WriteRegKeeps DEF ApplyWrite, RoutedRegs
<1> QED BY <1>2, <1>3, <1>4, <1>5, <1>6, <1>7 DEF RoutedRegs

-----------------------------------------------------------------------------
(* What pends *)

LEMMA PendingsWithin ==
  ASSUME NEW c \in Registers
  PROVE  /\ Pendings(c).M \subseteq MajorIrqs
         /\ Pendings(c).S \subseteq MajorIrqs
         /\ Pendings(c).VS \subseteq Unleveled \union VirtualIrqs
         /\ Pendings(c).VS \subseteq MajorIrqs
<1>1. MPending(c) \subseteq MajorIrqs
  BY DEF MPending, Registers, Clint
<1>2. HypervisorIrqs \subseteq MajorIrqs /\ Unleveled \union SupervisorIrqs \subseteq MajorIrqs
      /\ VirtualIrqs \subseteq MajorIrqs
  BY DEF MajorIrqs, LeveledIrqs, HypervisorIrqs
<1>3. SPending(c) \subseteq MajorIrqs
  BY <1>2 DEF SPending, SipRead, HipRead
<1>4. VsPending(c) \subseteq Unleveled \union VirtualIrqs
  BY DEF VsPending, VsipRead
<1> QED BY <1>1, <1>2, <1>3, <1>4 DEF Pendings

\* The guest external interrupt pends for the supervisor or for nobody.
LEMMA SgeiPends ==
  ASSUME NEW c \in Registers
  PROVE  /\ SGEI \notin Pendings(c).M
         /\ SGEI \notin Pendings(c).VS
         /\ SGEI \in Pendings(c).S <=> SGEI \in c.mip /\ SGEI \in c.mie
<1>1. c.hideleg \subseteq VirtualIrqs /\ c.hvip \subseteq Writable.hvip
      /\ HypervisorIrqs \subseteq c.mideleg
  BY DEF Registers, Clint
<1>2. SGEI \notin MPending(c)
  BY <1>1, IrqNumbers DEF MPending
<1>3. SGEI \in SPending(c) <=> SGEI \in c.mip /\ SGEI \in c.mie
  BY <1>1, IrqNumbers DEF SPending, SipRead, HipRead, HieRead, MipRead, HidelegRead
<1>4. SGEI \notin VsPending(c)
  BY IrqNumbers DEF VsPending, VsipRead
<1> QED BY <1>2, <1>3, <1>4 DEF Pendings

\* Whether an interrupt pends depends on no other bit of mip.
LEMMA PendsByOwnBit ==
  ASSUME NEW c \in Registers, NEW d \in Registers, NEW iid,
         d = [c EXCEPT !.mip = d.mip], iid \in d.mip <=> iid \in c.mip
  PROVE  /\ iid \in Pendings(d).M <=> iid \in Pendings(c).M
         /\ iid \in Pendings(d).S <=> iid \in Pendings(c).S
         /\ iid \in Pendings(d).VS <=> iid \in Pendings(c).VS
<1>1. /\ d.mie = c.mie /\ d.mideleg = c.mideleg /\ d.hideleg = c.hideleg
      /\ d.mvien = c.mvien /\ d.mvip = c.mvip /\ d.hvien = c.hvien
      /\ d.hvip = c.hvip /\ d.sShadow = c.sShadow /\ d.vsShadow = c.vsShadow
  BY DEF Registers, Clint
<1>2. SDelegated(d) = SDelegated(c) /\ SInjected(d) = SInjected(c)
  BY <1>1 DEF SDelegated, SInjected
<1>3. VsDelegated(d) = VsDelegated(c) /\ VsInjected(d) = VsInjected(c)
      /\ HidelegRead(d) = HidelegRead(c)
  BY <1>1, <1>2 DEF VsDelegated, VsInjected, HidelegRead
<1>4. iid \in MipRead(d) <=> iid \in MipRead(c)
  BY <1>1 DEF MipRead
<1>5. iid \in SipRead(d) <=> iid \in SipRead(c)
  BY <1>1, <1>2, <1>4 DEF SipRead
<1>6. iid \in HipRead(d) <=> iid \in HipRead(c)
  BY <1>4 DEF HipRead
<1>7. SieRead(d) = SieRead(c) /\ HieRead(d) = HieRead(c)
  BY <1>1, <1>2 DEF SieRead, HieRead
<1>8. VsieRead(d) = VsieRead(c)
  BY <1>1, <1>3, <1>7 DEF VsieRead
<1>9. iid \in VsipRead(d) <=> iid \in VsipRead(c)
  BY <1>1, <1>3, <1>5, <1>6 DEF VsipRead
<1>10. iid \in MPending(d) <=> iid \in MPending(c)
  BY <1>1 DEF MPending
<1>11. iid \in SPending(d) <=> iid \in SPending(c)
  BY <1>3, <1>5, <1>6, <1>7 DEF SPending
<1>12. iid \in VsPending(d) <=> iid \in VsPending(c)
  BY <1>8, <1>9 DEF VsPending
<1> QED BY <1>10, <1>11, <1>12 DEF Pendings

-----------------------------------------------------------------------------
(* Deliveries *)

\* A delivery adds identities to files and changes no register but the bits
\* of mip the files drive.
Grows(g, h) ==
  /\ g \in Harts
  /\ g.nv = h.nv /\ g.connected = h.connected /\ g.hgeie = h.hgeie
  /\ g.clint = [h.clint EXCEPT !.mip = g.clint.mip]
  /\ \A iid : iid \notin FileIrqs => (iid \in g.clint.mip <=> iid \in h.clint.mip)
  /\ \A level \in Levels : h.file[level] \subseteq g.file[level]

\* One that does not reach the guest file leaves its two bits alone too.
Upwards(g, h) ==
  /\ Grows(g, h)
  /\ g.file["VS"] = h.file["VS"]
  /\ SGEI \in g.clint.mip <=> SGEI \in h.clint.mip
  /\ VSEI \in g.clint.mip <=> VSEI \in h.clint.mip

\* ExternalBitsFresh, of a hart.
FreshMS(h) ==
  /\ MEI \in h.clint.mip <=> h.file["M"] # {}
  /\ SEI \in h.clint.mip <=> h.file["S"] # {}

FreshSg(h) == SGEI \in h.clint.mip <=> h.hgeie /\ h.file["VS"] # {}

FreshVs(h) == VSEI \in h.clint.mip <=> h.connected /\ h.file["VS"] # {}

Fresh(h) == FreshMS(h) /\ FreshSg(h) /\ FreshVs(h)

\* A guest external interrupt that pends, and did not at first, has reached
\* the supervisor's file.
SgReached(h, first) ==
  /\ "S" \in h.nv
  /\ SGEI \in Pendings(h.clint).S
  /\ SGEI \notin first.S
  /\ Iprio["S"][SGEI] # 0
  => Iprio["S"][SGEI] \in h.file["S"]

LEMMA GrowsItself == ASSUME NEW h \in Harts PROVE Grows(h, h) /\ Upwards(h, h)
BY DEF Grows, Upwards, Harts, Registers, Clint

LEMMA GrowsOn ==
  ASSUME NEW h \in Harts, NEW g, NEW k, Grows(g, h), Grows(k, g)
  PROVE  Grows(k, h)
<1>1. g \in Harts /\ k \in Harts
  BY DEF Grows
<1>2. k.clint = [h.clint EXCEPT !.mip = k.clint.mip]
  BY <1>1 DEF Grows, Harts, Registers, Clint
<1> QED BY <1>1, <1>2 DEF Grows

LEMMA UpwardsOn ==
  ASSUME NEW h \in Harts, NEW g, NEW k, Upwards(g, h), Upwards(k, g)
  PROVE  Upwards(k, h)
BY GrowsOn DEF Upwards

LEMMA UpwardsKeeps ==
  ASSUME NEW h \in Harts, NEW g, Upwards(g, h)
  PROVE  /\ FreshSg(h) => FreshSg(g)
         /\ FreshVs(h) => FreshVs(g)
         /\ \A first : SgReached(h, first) => SgReached(g, first)
<1>1. g \in Harts /\ g.clint \in Registers /\ h.clint \in Registers
  BY DEF Upwards, Grows, Harts
<1>2. FreshSg(h) => FreshSg(g)
  BY DEF FreshSg, Upwards, Grows
<1>3. FreshVs(h) => FreshVs(g)
  BY DEF FreshVs, Upwards, Grows
<1>4. SGEI \in Pendings(g.clint).S <=> SGEI \in Pendings(h.clint).S
  BY <1>1, PendsByOwnBit DEF Upwards, Grows
<1>5. ASSUME NEW first, SgReached(h, first) PROVE SgReached(g, first)
  BY <1>4, <1>5 DEF SgReached, Upwards, Grows, Levels
<1> QED BY <1>2, <1>3, <1>5

LEMMA WriteFileUpwards ==
  ASSUME NEW h \in Harts, NEW level \in {"M", "S"}, NEW minor \in Nat
  PROVE  /\ Upwards(WriteFile(h, level, minor), h)
         /\ FreshMS(h) => FreshMS(WriteFile(h, level, minor))
         /\ minor # 0 => minor \in WriteFile(h, level, minor).file[level]
<1> DEFINE g == WriteFile(h, level, minor)
           e == ExternalIrq[level]
           d == HwWriteMip(h.clint, e, TRUE)
<1>1. CASE minor = 0
  <2>1. g = h
    BY <1>1 DEF WriteFile
  <2> QED BY <1>1, <2>1, GrowsItself
<1>2. CASE minor # 0
  <2>1. g = [h EXCEPT !.file[level] = @ \union {minor}, !.clint = d]
    BY <1>2 DEF WriteFile
  <2>2. e \in {MEI, SEI} /\ e \in LeveledIrqs /\ e \in FileIrqs
        /\ (level = "M" <=> e = MEI) /\ (level = "S" <=> e = SEI)
    BY IrqNumbers DEF ExternalIrq, FileIrqs
  <2>3. /\ d \in Registers
        /\ d = [h.clint EXCEPT !.mip = d.mip]
        /\ \A j : j # e => (j \in d.mip <=> j \in h.clint.mip)
        /\ e \in d.mip
    BY <2>2, HwWriteMipKeeps DEF Harts
  <2>4. level \in Levels
    BY DEF Levels
  <2> DEFINE f == [h.file EXCEPT ![level] = @ \union {minor}]
  <2>5. g = [h EXCEPT !.file = f, !.clint = d]
    BY <2>1
  <2> HIDE DEF d, e, g
  <2>6. h.file \in [Levels -> SUBSET Nat]
    BY DEF Harts
  <2>7. f \in [Levels -> SUBSET Nat]
    BY <2>4, <2>6
  <2> HIDE DEF f
  <2>8. /\ g \in Harts /\ g.clint = d
        /\ g.nv = h.nv /\ g.connected = h.connected /\ g.hgeie = h.hgeie
        /\ g.file = f
    BY <2>3, <2>5, <2>7 DEF Harts
  <2> USE DEF f
  <2>9. \A l \in Levels : /\ h.file[l] \subseteq g.file[l]
                          /\ l # level => g.file[l] = h.file[l]
    BY <2>4, <2>6, <2>8
  <2>10. minor \in g.file[level]
    BY <2>4, <2>6, <2>8
  <2>11. Grows(g, h)
    BY <2>2, <2>3, <2>8, <2>9 DEF Grows
  <2>12. Upwards(g, h)
    BY <2>2, <2>3, <2>8, <2>9, <2>11, IrqNumbers DEF Upwards, Levels
  <2>13. ASSUME FreshMS(h) PROVE FreshMS(g)
    BY <2>2, <2>3, <2>8, <2>9, <2>10, <2>13, IrqNumbers DEF FreshMS, Levels
  <2> QED BY <2>10, <2>12, <2>13 DEF g
<1> QED BY <1>1, <1>2

\* Where an interrupt is delivered to, and what may be.
LEMMA DeliveredWhere ==
  ASSUME NEW c \in Registers, NEW h, NEW old, NEW iid,
         IsDelivered(h, old, Pendings(c), iid)
  PROVE  /\ LevelOf(Pendings(c), iid) \in Levels
         /\ iid \in MajorIrqs
         /\ Iprio[LevelOf(Pendings(c), iid)][iid] \in Nat
         /\ iid \in {SGEI, VSEI, SEI} => LevelOf(Pendings(c), iid) \in {"M", "S"}
<1> DEFINE l == LevelOf(Pendings(c), iid)
<1>1. l \in {"M", "S", "VS"} /\ iid \in Pendings(c)[l] /\ iid # ExternalIrq[l]
  BY DEF IsDelivered, LevelOf
<1>2. iid \in MajorIrqs
  BY <1>1, PendingsWithin
<1>3. Iprio[l][iid] \in Nat
  BY <1>1, <1>2, HartAssumption DEF Levels
<1>4. ASSUME iid \in {SGEI, VSEI, SEI} PROVE l # "VS"
  <2>1. SUFFICES ASSUME l = "VS" PROVE FALSE
    OBVIOUS
  <2>2. iid \in Unleveled \union VirtualIrqs /\ iid # VSEI
    BY <1>1, <2>1, PendingsWithin DEF ExternalIrq
  <2>3. SEI \notin Unleveled \union VirtualIrqs
    BY DEF Unleveled, VirtualIrqs, SEI, VSSI, VSTI, VSEI, COUNTER_OVERFLOW,
           DEBUG_TRACE, LOW_PRIO_RAS, HIGH_PRIO_RAS, WDT
  <2> QED BY <1>4, <2>2, <2>3, IrqNumbers
<1> QED BY <1>1, <1>2, <1>3, <1>4 DEF Levels

LEMMA DeliverUpwardsUpwards ==
  ASSUME NEW h \in Harts, NEW c \in Registers, NEW old, NEW iid \in {SGEI, VSEI, SEI}
  PROVE  /\ Upwards(DeliverUpwards(h, old, Pendings(c), iid), h)
         /\ FreshMS(h) => FreshMS(DeliverUpwards(h, old, Pendings(c), iid))
<1>1. CASE IsDelivered(h, old, Pendings(c), iid)
  BY <1>1, DeliveredWhere, WriteFileUpwards DEF DeliverUpwards
<1>2. CASE ~ IsDelivered(h, old, Pendings(c), iid)
  BY <1>2, GrowsItself DEF DeliverUpwards
<1> QED BY <1>1, <1>2

LEMMA CascadeUpwards ==
  ASSUME NEW h \in Harts, NEW p
  PROVE  /\ Upwards(Cascade(h, p), h)
         /\ FreshMS(h) => FreshMS(Cascade(h, p))
<1> DEFINE p2 == Pendings(h.clint)
           h2 == DeliverUpwards(h, p, p2, VSEI)
           p3 == Pendings(h2.clint)
           h3 == DeliverUpwards(h2, p2, p3, SEI)
<1>1. Cascade(h, p) = h3
  BY DEF Cascade
<1>2. Upwards(h2, h) /\ (FreshMS(h) => FreshMS(h2))
  BY DeliverUpwardsUpwards DEF Harts
<1>3. h2 \in Harts /\ h2.clint \in Registers
  BY <1>2 DEF Upwards, Grows, Harts
<1> HIDE DEF h2
<1>4. Upwards(h3, h2) /\ (FreshMS(h2) => FreshMS(h3))
  BY <1>3, DeliverUpwardsUpwards
<1> HIDE DEF h3
<1> QED BY <1>1, <1>2, <1>4, UpwardsOn

LEMMA RecalcSgeipRefreshes ==
  ASSUME NEW h \in Harts
  PROVE  /\ Grows(RecalcSgeip(h), h)
         /\ RecalcSgeip(h).file["VS"] = h.file["VS"]
         /\ VSEI \in RecalcSgeip(h).clint.mip <=> VSEI \in h.clint.mip
         /\ FreshMS(h) => FreshMS(RecalcSgeip(h))
         /\ FreshSg(RecalcSgeip(h))
         /\ \A first : SgReached(h, first) => SgReached(RecalcSgeip(h), first)
<1> DEFINE set == h.hgeie /\ h.file["VS"] # {}
           d == HwWriteMip(h.clint, SGEI, set)
           h1 == [h EXCEPT !.clint = d]
           old == Pendings(h.clint)
           p1 == Pendings(h1.clint)
           h2 == DeliverUpwards(h1, old, p1, SGEI)
           h3 == Cascade(h2, p1)
<1>1. RecalcSgeip(h) = h3
  BY DEF RecalcSgeip
<1>2. /\ d \in Registers
      /\ d = [h.clint EXCEPT !.mip = d.mip]
      /\ \A j : j # SGEI => (j \in d.mip <=> j \in h.clint.mip)
      /\ SGEI \in d.mip <=> set
  <2>1. SGEI \in LeveledIrqs /\ set \in BOOLEAN /\ h.clint \in Registers
    BY IrqNumbers DEF FileIrqs, Harts
  <2> QED BY <2>1, HwWriteMipKeeps
<1> HIDE DEF d
<1>3. /\ h1 \in Harts /\ h1.clint = d /\ h1.file = h.file
      /\ h1.nv = h.nv /\ h1.connected = h.connected /\ h1.hgeie = h.hgeie
  BY <1>2 DEF Harts
<1> HIDE DEF h1
<1>4. Grows(h1, h)
  BY <1>2, <1>3 DEF Grows, FileIrqs
<1>5. FreshMS(h) => FreshMS(h1)
  BY <1>2, <1>3, IrqNumbers DEF FreshMS
<1>6. FreshSg(h1)
  BY <1>2, <1>3 DEF FreshSg
<1>7. Upwards(h2, h1) /\ (FreshMS(h1) => FreshMS(h2))
  BY <1>2, <1>3, DeliverUpwardsUpwards
<1>8. ASSUME NEW first, SgReached(h, first) PROVE SgReached(h2, first)
  <2>1. h1.clint \in Registers /\ h.clint \in Registers
    BY <1>2, <1>3 DEF Harts
  <2>2. CASE SGEI \notin p1.S
    <3>1. SgReached(h1, first)
      BY <2>2 DEF SgReached
    <3> QED BY <1>3, <1>7, <3>1, UpwardsKeeps
  <2>3. CASE SGEI \in old.S
    <3>1. SgReached(h1, first)
      BY <1>3, <1>8, <2>3 DEF SgReached
    <3> QED BY <1>3, <1>7, <3>1, UpwardsKeeps
  <2>4. CASE SGEI \in p1.S /\ SGEI \notin old.S
    <3>1. LevelOf(p1, SGEI) = "S"
      BY <2>1, <2>4, SgeiPends DEF LevelOf
    <3>2. CASE "S" \in h1.nv
      <4>1. IsDelivered(h1, old, p1, SGEI)
        BY <2>4, <3>1, <3>2, IrqNumbers DEF IsDelivered, ExternalIrq
      <4>2. h2 = WriteFile(h1, "S", Iprio["S"][SGEI])
        BY <3>1, <4>1 DEF DeliverUpwards
      <4>3. Iprio["S"][SGEI] \in Nat
        BY <2>1, <3>1, <4>1, DeliveredWhere
      <4> QED BY <1>3, <4>2, <4>3, WriteFileUpwards DEF SgReached
    <3>3. CASE "S" \notin h1.nv
      <4>1. h2.nv = h1.nv
        BY <1>7 DEF Upwards, Grows
      <4> QED BY <3>3, <4>1 DEF SgReached
    <3> QED BY <3>2, <3>3
  <2> QED BY <2>2, <2>3, <2>4
<1>9. h2 \in Harts
  BY <1>7 DEF Upwards, Grows
<1> HIDE DEF h2
<1>10. Upwards(h3, h2) /\ (FreshMS(h2) => FreshMS(h3))
  BY <1>9, CascadeUpwards
<1> HIDE DEF h3
<1>11. Upwards(h3, h1)
  BY <1>3, <1>7, <1>10, UpwardsOn
<1>12. Grows(h3, h)
  BY <1>3, <1>4, <1>11, GrowsOn DEF Upwards
<1>13. h3.file["VS"] = h.file["VS"] /\ (VSEI \in h3.clint.mip <=> VSEI \in h.clint.mip)
  BY <1>2, <1>3, <1>11, IrqNumbers DEF Upwards
<1>14. FreshSg(h3)
  BY <1>3, <1>6, <1>11, UpwardsKeeps
<1>15. \A first : SgReached(h, first) => SgReached(h3, first)
  BY <1>8, <1>9, <1>10, UpwardsKeeps
<1> QED BY <1>1, <1>5, <1>7, <1>10, <1>12, <1>13, <1>14, <1>15

\* What every delivery, whatever it cascades into, guarantees.
Delivers(g, h) ==
  /\ Grows(g, h)
  /\ Fresh(h) => Fresh(g)
  /\ \A first : SgReached(h, first) => SgReached(g, first)

LEMMA DeliversItself == ASSUME NEW h \in Harts PROVE Delivers(h, h)
BY GrowsItself DEF Delivers

LEMMA DeliversOn ==
  ASSUME NEW h \in Harts, NEW g, NEW k, Delivers(g, h), Delivers(k, g)
  PROVE  Delivers(k, h)
BY GrowsOn DEF Delivers

LEMMA UpwardsDelivers ==
  ASSUME NEW h \in Harts, NEW g, Upwards(g, h), FreshMS(h) => FreshMS(g)
  PROVE  Delivers(g, h)
BY UpwardsKeeps DEF Delivers, Fresh, Upwards

LEMMA ComputeVsRefreshes ==
  ASSUME NEW h \in Harts
  PROVE  /\ Grows(ComputeVs(h), h)
         /\ FreshMS(h) => Fresh(ComputeVs(h))
         /\ \A first : SgReached(h, first) => SgReached(ComputeVs(h), first)
<1> DEFINE set == h.connected /\ h.file["VS"] # {}
           h1 == RecalcSgeip(h)
           d == HwWriteMip(h1.clint, VSEI, set)
           g == [h1 EXCEPT !.clint = d]
<1>1. ComputeVs(h) = g
  BY DEF ComputeVs
<1>2. /\ Grows(h1, h) /\ h1 \in Harts /\ h1.clint \in Registers
      /\ h1.file["VS"] = h.file["VS"]
      /\ FreshMS(h) => FreshMS(h1)
      /\ FreshSg(h1)
      /\ \A first : SgReached(h, first) => SgReached(h1, first)
  BY RecalcSgeipRefreshes DEF Grows, Harts
<1> HIDE DEF h1
<1>3. /\ d \in Registers
      /\ d = [h1.clint EXCEPT !.mip = d.mip]
      /\ \A j : j # VSEI => (j \in d.mip <=> j \in h1.clint.mip)
      /\ VSEI \in d.mip <=> set
  <2>1. VSEI \in LeveledIrqs /\ set \in BOOLEAN
    BY IrqNumbers DEF FileIrqs, Harts
  <2> QED BY <1>2, <2>1, HwWriteMipKeeps
<1> HIDE DEF d
<1>4. /\ g \in Harts /\ g.clint = d /\ g.file = h1.file
      /\ g.nv = h1.nv /\ g.connected = h1.connected /\ g.hgeie = h1.hgeie
  BY <1>2, <1>3 DEF Harts
<1> HIDE DEF g
<1>5. Grows(g, h1)
  BY <1>3, <1>4 DEF Grows, FileIrqs
<1>6. ASSUME FreshMS(h) PROVE Fresh(g)
  <2>1. FreshMS(g)
    BY <1>2, <1>3, <1>4, <1>6, IrqNumbers DEF FreshMS
  <2>2. FreshSg(g)
    BY <1>2, <1>3, <1>4, IrqNumbers DEF FreshSg
  <2>3. FreshVs(g)
    BY <1>2, <1>3, <1>4 DEF FreshVs, Grows
  <2> QED BY <2>1, <2>2, <2>3 DEF Fresh
<1>7. ASSUME NEW first, SgReached(h, first) PROVE SgReached(g, first)
  <2>1. SgReached(h1, first)
    BY <1>2, <1>7
  <2>2. SGEI \in Pendings(d).S <=> SGEI \in Pendings(h1.clint).S
    BY <1>2, <1>3, IrqNumbers, PendsByOwnBit
  <2> QED BY <1>4, <2>1, <2>2 DEF SgReached
<1> QED BY <1>1, <1>2, <1>5, <1>6, <1>7, GrowsOn

LEMMA RouteImsicWriteDelivers ==
  ASSUME NEW h \in Harts, NEW level \in Levels, NEW minor \in Nat
  PROVE  /\ Delivers(RouteImsicWrite(h, level, minor), h)
         /\ minor # 0 => minor \in RouteImsicWrite(h, level, minor).file[level]
<1>1. CASE level # "VS"
  <2>1. level \in {"M", "S"}
    BY <1>1 DEF Levels
  <2> QED BY <1>1, <2>1, WriteFileUpwards, UpwardsDelivers DEF RouteImsicWrite
<1>2. CASE level = "VS" /\ minor = 0
  <2>1. RouteImsicWrite(h, level, minor) = h
    BY <1>2 DEF RouteImsicWrite, WriteFile
  <2> QED BY <1>2, <2>1, DeliversItself
<1>3. CASE level = "VS" /\ minor # 0
  <2> DEFINE f == [h.file EXCEPT !["VS"] = @ \union {minor}]
             h1 == [h EXCEPT !.file = f]
  <2>1. RouteImsicWrite(h, level, minor) = ComputeVs(h1)
    BY <1>3 DEF RouteImsicWrite
  <2>2. /\ f \in [Levels -> SUBSET Nat]
        /\ \A l \in Levels : h.file[l] \subseteq f[l] /\ (l # "VS" => f[l] = h.file[l])
        /\ minor \in f["VS"]
    BY DEF Harts, Levels
  <2> HIDE DEF f
  <2>3. /\ h1 \in Harts /\ h1.clint = h.clint /\ h1.file = f
        /\ h1.nv = h.nv /\ h1.connected = h.connected /\ h1.hgeie = h.hgeie
    BY <2>2 DEF Harts
  <2> HIDE DEF h1
  <2>4. Grows(h1, h)
    BY <2>2, <2>3 DEF Grows, Harts, Registers, Clint
  <2>5. FreshMS(h) => FreshMS(h1)
    BY <2>2, <2>3 DEF FreshMS, Levels
  <2>6. \A first : SgReached(h, first) => SgReached(h1, first)
    BY <2>2, <2>3 DEF SgReached, Levels
  <2>7. Grows(ComputeVs(h1), h1)
    BY <2>3, ComputeVsRefreshes
  <2>8. Grows(ComputeVs(h1), h)
    BY <2>4, <2>7, GrowsOn
  <2>9. Fresh(h) => Fresh(ComputeVs(h1))
    BY <2>3, <2>5, ComputeVsRefreshes DEF Fresh
  <2>10. \A first : SgReached(h, first) => SgReached(ComputeVs(h1), first)
    BY <2>3, <2>6, ComputeVsRefreshes
  <2>11. minor \in ComputeVs(h1).file["VS"]
    BY <2>2, <2>3, <2>7 DEF Grows, Levels
  <2> QED BY <1>3, <2>1, <2>8, <2>9, <2>10, <2>11 DEF Delivers
<1> QED BY <1>1, <1>2, <1>3

\* The identity of an interrupt that is sent to a file is in it.
Sent(g, h, old, new, iid) ==
  IsDelivered(h, old, new, iid) /\ Iprio[LevelOf(new, iid)][iid] # 0 =>
    Iprio[LevelOf(new, iid)][iid] \in g.file[LevelOf(new, iid)]

LEMMA DeliverDelivers ==
  ASSUME NEW h \in Harts, NEW c \in Registers, NEW old, NEW iid
  PROVE  /\ Delivers(Deliver(h, old, Pendings(c), iid), h)
         /\ Sent(Deliver(h, old, Pendings(c), iid), h, old, Pendings(c), iid)
<1>1. CASE IsDelivered(h, old, Pendings(c), iid)
  BY <1>1, DeliveredWhere, RouteImsicWriteDelivers DEF Deliver, Sent
<1>2. CASE ~ IsDelivered(h, old, Pendings(c), iid)
  BY <1>2, DeliversItself DEF Deliver, Sent
<1> QED BY <1>1, <1>2

\* It stays there, and whether it was sent does not depend on the deliveries
\* before it.
LEMMA SentStays ==
  ASSUME NEW h \in Harts, NEW g, NEW k, NEW c \in Registers, NEW old, NEW iid,
         Grows(g, h), Grows(k, g), Sent(g, h, old, Pendings(c), iid)
  PROVE  Sent(k, h, old, Pendings(c), iid)
BY DeliveredWhere DEF Sent, Grows

LEMMA SentFromLater ==
  ASSUME NEW h, NEW g, NEW k, NEW old, NEW new, NEW iid,
         Grows(g, h), Sent(k, g, old, new, iid)
  PROVE  Sent(k, h, old, new, iid)
BY DEF Sent, Grows, IsDelivered

LEMMA DeliverChangeDelivers ==
  ASSUME NEW h \in Harts, NEW old, NEW iid
  PROVE  /\ Delivers(DeliverChange(h, old, iid), h)
         /\ Sent(DeliverChange(h, old, iid), h, old, Pendings(h.clint), iid)
<1> DEFINE new == Pendings(h.clint)
           h1 == Deliver(h, old, new, iid)
           h2 == Cascade(h1, new)
<1>1. DeliverChange(h, old, iid) = h2
  BY DEF DeliverChange
<1>2. Delivers(h1, h) /\ Sent(h1, h, old, new, iid) /\ h.clint \in Registers
  BY DeliverDelivers DEF Harts
<1>3. h1 \in Harts
  BY <1>2 DEF Delivers, Grows
<1> HIDE DEF h1
<1>4. Delivers(h2, h1)
  BY <1>3, CascadeUpwards, UpwardsDelivers
<1> HIDE DEF h2
<1> QED BY <1>1, <1>2, <1>4, DeliversOn, SentStays DEF Delivers

-----------------------------------------------------------------------------
(* The loop over all interrupts *)

LEMMA LeastExists ==
  ASSUME NEW X, X \subseteq Nat, X # {}
  PROVE  \E x \in X : \A y \in X : x <= y
<1>1. PICK x \in X : \A y \in X : ~ (<<y, x>> \in OpToRel(<, Nat))
  BY NatLessThanWellFounded, WFMin
<1>2. ASSUME NEW y \in X PROVE x <= y
  <2>1. y \in Nat /\ x \in Nat
    OBVIOUS
  <2>2. ~ (y < x)
    BY <1>1, <2>1 DEF OpToRel
  <2> QED BY <2>1, <2>2
<1> QED BY <1>2

\* f is the hart after the first k turns of the loop, for each k up to n.
Loop(f, n, h, old, new) ==
  f = [k \in 0 .. n |-> IF k = 0 THEN h ELSE Deliver(f[k - 1], old, new, k)]

LEMMA LoopExists ==
  ASSUME NEW h, NEW old, NEW new, NEW m \in Nat
  PROVE  \E f : Loop(f, m, h, old, new)
<1> DEFINE Failing == {n \in Nat : ~ \E f : Loop(f, n, h, old, new)}
<1>1. SUFFICES ASSUME Failing # {} PROVE FALSE
  OBVIOUS
<1>2. PICK n \in Failing : \A y \in Failing : n <= y
  BY <1>1, LeastExists
<1>3. n # 0
  <2>1. Loop([k \in 0 .. 0 |-> h], 0, h, old, new)
    BY DEF Loop
  <2> QED BY <2>1
<1>4. n \in Nat /\ n - 1 \in Nat /\ ~ (n <= n - 1)
  BY <1>3
<1>5. PICK f : Loop(f, n - 1, h, old, new)
  BY <1>2, <1>4
<1> DEFINE g == [k \in 0 .. n |-> IF k = n THEN Deliver(f[n - 1], old, new, n) ELSE f[k]]
<1>6. ASSUME NEW k \in 0 .. n
      PROVE  g[k] = IF k = 0 THEN h ELSE Deliver(g[k - 1], old, new, k)
  <2>1. CASE k = n
    BY <1>3, <1>4, <2>1
  <2>2. CASE k # n
    <3>1. k \in 0 .. n - 1 /\ (k # 0 => k - 1 \in 0 .. n /\ k - 1 # n)
      BY <1>4, <2>2
    <3>2. f[k] = IF k = 0 THEN h ELSE Deliver(f[k - 1], old, new, k)
      BY <1>5, <3>1 DEF Loop
    <3>3. g[k] = f[k] /\ (k # 0 => g[k - 1] = f[k - 1])
      BY <2>2, <3>1
    <3> QED BY <3>2, <3>3
  <2> QED BY <2>1, <2>2
<1>7. Loop(g, n, h, old, new)
  BY <1>6 DEF Loop
<1> QED BY <1>2, <1>7

LEMMA LoopDelivers ==
  ASSUME NEW h \in Harts, NEW c \in Registers, NEW old, NEW f, NEW m \in Nat,
         Loop(f, m, h, old, Pendings(c))
  PROVE  /\ Delivers(f[m], h)
         /\ \A iid \in 1 .. m : Sent(f[m], h, old, Pendings(c), iid)
<1> DEFINE new == Pendings(c)
           Right(k) == /\ Delivers(f[k], h)
                       /\ \A iid \in 1 .. k : Sent(f[k], h, old, new, iid)
           Failing == {k \in 0 .. m : ~ Right(k)}
<1>1. SUFFICES ASSUME Failing # {} PROVE FALSE
  OBVIOUS
<1>2. PICK n \in Failing : \A y \in Failing : n <= y
  <2>1. Failing \subseteq Nat
    OBVIOUS
  <2> HIDE DEF Failing
  <2> QED BY <1>1, <2>1, LeastExists
<1>3. n # 0
  <2>1. f[0] = h
    BY DEF Loop
  <2> QED BY <2>1, DeliversItself
<1>4. n \in 1 .. m /\ n - 1 \in 0 .. m /\ ~ (n <= n - 1)
  BY <1>3
<1>5. Right(n - 1)
  BY <1>2, <1>4
<1>6. f[n] = Deliver(f[n - 1], old, new, n)
  BY <1>4 DEF Loop
<1>7. f[n - 1] \in Harts /\ Grows(f[n - 1], h)
  BY <1>5 DEF Delivers, Grows
<1>8. Delivers(f[n], f[n - 1]) /\ Sent(f[n], f[n - 1], old, new, n)
  BY <1>6, <1>7, DeliverDelivers
<1>9. Delivers(f[n], h)
  BY <1>5, <1>8, DeliversOn
<1>10. ASSUME NEW iid \in 1 .. n PROVE Sent(f[n], h, old, new, iid)
  <2>1. CASE iid = n
    BY <1>7, <1>8, <2>1, SentFromLater
  <2>2. CASE iid # n
    <3>1. iid \in 1 .. n - 1
      BY <1>4, <2>2
    <3>2. Sent(f[n - 1], h, old, new, iid)
      BY <1>5, <3>1
    <3> QED BY <1>7, <1>8, <3>2, SentStays DEF Delivers
  <2> QED BY <2>1, <2>2
<1> QED BY <1>2, <1>9, <1>10

LEMMA DeliverChangesDelivers ==
  ASSUME NEW h \in Harts, NEW old
  PROVE  /\ Delivers(DeliverChanges(h, old), h)
         /\ \A iid \in MajorIrqs :
              Sent(DeliverChanges(h, old), h, old, Pendings(h.clint), iid)
<1> DEFINE new == Pendings(h.clint)
           after == CHOOSE f : Loop(f, WDT, h, old, new)
           h1 == after[WDT]
           h2 == Cascade(h1, new)
<1>1. DeliverChanges(h, old) = h2
  BY DEF DeliverChanges, Loop
<1>2. Loop(after, WDT, h, old, new)
  BY LoopExists DEF WDT
<1> HIDE DEF after
<1>3. WDT \in Nat /\ h.clint \in Registers
  BY DEF WDT, Harts
<1>4. Delivers(h1, h) /\ \A iid \in MajorIrqs : Sent(h1, h, old, new, iid)
  BY <1>2, <1>3, LoopDelivers, IrqNumbers
<1>5. h1 \in Harts
  BY <1>4 DEF Delivers, Grows
<1> HIDE DEF h1
<1>6. Delivers(h2, h1)
  BY <1>5, CascadeUpwards, UpwardsDelivers
<1> HIDE DEF h2
<1> QED BY <1>1, <1>3, <1>4, <1>6, DeliversOn, SentStays DEF Delivers

-----------------------------------------------------------------------------
(* The edges of a step *)

\* What EdgeReachesFile says of a step from registers c to hart g.
Edges(c, g) ==
  \A level \in Levels : level \in g.nv /\ (level = "VS" => g.connected) =>
    \A iid \in Rises(Pendings(c), Pendings(g.clint), level) :
       LevelOf(Pendings(g.clint), iid) = level /\ Iprio[level][iid] # 0 =>
         Iprio[level][iid] \in g.file[level]

\* Of an interrupt whose bit a step leaves alone there is nothing to send.
LEMMA NothingToSend ==
  ASSUME NEW c \in Registers, NEW h \in Harts, NEW iid, NEW g,
         h.clint = [c EXCEPT !.mip = h.clint.mip], iid \in h.clint.mip <=> iid \in c.mip
  PROVE  Sent(g, h, Pendings(c), Pendings(h.clint), iid)
<1>1. h.clint \in Registers
  BY DEF Harts
<1>2. /\ iid \in Pendings(h.clint).M <=> iid \in Pendings(c).M
      /\ iid \in Pendings(h.clint).S <=> iid \in Pendings(c).S
      /\ iid \in Pendings(h.clint).VS <=> iid \in Pendings(c).VS
  BY <1>1, PendsByOwnBit
<1> QED BY <1>2 DEF Sent, IsDelivered, LevelOf

\* From registers c a step sets those of h, then delivers up to g.
LEMMA EdgesReach ==
  ASSUME NEW c \in Registers, NEW h \in Harts, NEW g, Grows(g, h),
         SgReached(g, Pendings(h.clint)),
         \A iid \in MajorIrqs : Sent(g, h, Pendings(c), Pendings(h.clint), iid)
  PROVE  Edges(c, g)
<1> DEFINE old == Pendings(c)
           mid == Pendings(h.clint)
           new == Pendings(g.clint)
<1>1. SUFFICES ASSUME NEW level \in Levels, level \in g.nv,
                      level = "VS" => g.connected,
                      NEW iid, iid \in new[level], iid \notin old[level],
                      iid \notin {MEI, SEI, VSEI},
                      LevelOf(new, iid) = level, Iprio[level][iid] # 0
               PROVE  Iprio[level][iid] \in g.file[level]
  BY DEF Edges, Rises
<1>2. g \in Harts /\ g.clint \in Registers /\ h.clint \in Registers
  BY DEF Grows, Harts
<1>3. level \in {"M", "S", "VS"}
  BY DEF Levels
<1>4. iid \in MajorIrqs
  BY <1>1, <1>2, <1>3, PendingsWithin
<1>5. iid # ExternalIrq[level]
  BY <1>1, <1>3 DEF ExternalIrq
<1>6. level \in h.nv /\ (level = "VS" => h.connected)
  BY <1>1 DEF Grows
<1>7. ASSUME LevelOf(mid, iid) = level PROVE Iprio[level][iid] \in g.file[level]
  <2>1. IsDelivered(h, old, mid, iid)
    BY <1>1, <1>3, <1>5, <1>6, <1>7 DEF IsDelivered
  <2> QED BY <1>1, <1>4, <1>7, <2>1 DEF Sent
<1>8. CASE iid = SGEI
  <2>1. level = "S"
    BY <1>1, <1>2, <1>3, <1>8, SgeiPends
  <2>2. CASE SGEI \in mid.S
    <3>1. LevelOf(mid, iid) = "S"
      BY <1>2, <1>8, <2>2, SgeiPends DEF LevelOf
    <3> QED BY <1>7, <2>1, <3>1
  <2>3. CASE SGEI \notin mid.S
    BY <1>1, <1>8, <2>1, <2>3 DEF SgReached
  <2> QED BY <2>2, <2>3
<1>9. CASE iid # SGEI
  <2>1. iid \notin FileIrqs
    BY <1>1, <1>9 DEF FileIrqs
  <2>2. /\ iid \in new.M <=> iid \in mid.M
        /\ iid \in new.S <=> iid \in mid.S
        /\ iid \in new.VS <=> iid \in mid.VS
    BY <1>2, <2>1, PendsByOwnBit DEF Grows
  <2>3. LevelOf(mid, iid) = LevelOf(new, iid)
    BY <2>2 DEF LevelOf
  <2> QED BY <1>1, <1>7, <2>3
<1> QED BY <1>8, <1>9

\* At the start nothing has risen.
LEMMA SgReachedAtStart == ASSUME NEW h PROVE SgReached(h, Pendings(h.clint))
BY DEF SgReached

\* A step that only changes files before it delivers.
LEMMA FilesReach ==
  ASSUME NEW h \in Harts, NEW g, Grows(g, h),
         \A first : SgReached(h, first) => SgReached(g, first)
  PROVE  Edges(h.clint, g)
<1>1. h.clint \in Registers /\ h.clint = [h.clint EXCEPT !.mip = h.clint.mip]
  BY DEF Harts, Registers, Clint
<1>2. \A iid \in MajorIrqs : Sent(g, h, Pendings(h.clint), Pendings(h.clint), iid)
  BY <1>1, NothingToSend
<1> QED BY <1>1, <1>2, SgReachedAtStart, EdgesReach

-----------------------------------------------------------------------------
(* The operations of a hart *)

\* A step of a fresh hart h to g.
Sound(g, h) ==
  /\ g \in Harts
  /\ Fresh(g)
  /\ g.nv = h.nv /\ g.connected = h.connected /\ g.hgeie = h.hgeie
  /\ Edges(h.clint, g)

LEMMA HwIrqRouteSound ==
  ASSUME NEW h \in Harts, Fresh(h), NEW iid \in LeveledIrqs \ FileIrqs, NEW set \in BOOLEAN
  PROVE  Sound(HwIrqRoute(h, iid, set), h)
<1> DEFINE d == HwWriteMip(h.clint, iid, set)
           h1 == [h EXCEPT !.clint = d]
           old == Pendings(h.clint)
           g == DeliverChange(h1, old, iid)
<1>1. HwIrqRoute(h, iid, set) = g
  BY DEF HwIrqRoute
<1>2. /\ d \in Registers /\ h.clint \in Registers
      /\ d = [h.clint EXCEPT !.mip = d.mip]
      /\ \A j : j # iid => (j \in d.mip <=> j \in h.clint.mip)
  BY HwWriteMipKeeps DEF Harts
<1> HIDE DEF d
<1>3. /\ h1 \in Harts /\ h1.clint = d /\ h1.file = h.file
      /\ h1.nv = h.nv /\ h1.connected = h.connected /\ h1.hgeie = h.hgeie
  BY <1>2 DEF Harts
<1> HIDE DEF h1
<1>4. Fresh(h1)
  BY <1>2, <1>3 DEF Fresh, FreshMS, FreshSg, FreshVs, FileIrqs
<1>5. Delivers(g, h1) /\ Sent(g, h1, old, Pendings(h1.clint), iid)
  BY <1>3, DeliverChangeDelivers
<1> HIDE DEF g
<1>6. \A j \in MajorIrqs : Sent(g, h1, old, Pendings(h1.clint), j)
  BY <1>2, <1>3, <1>5, NothingToSend
<1>7. Edges(h.clint, g)
  BY <1>2, <1>3, <1>5, <1>6, SgReachedAtStart, EdgesReach DEF Delivers
<1> QED BY <1>1, <1>3, <1>4, <1>5, <1>7 DEF Sound, Delivers, Grows

LEMMA ClintCsrWriteSound ==
  ASSUME NEW h \in Harts, Fresh(h), NEW reg \in DOMAIN Writable \union RoutedRegs, NEW val
  PROVE  Sound(ClintCsrWrite(h, reg, val), h)
<1> DEFINE d == ApplyWrite(h.clint, reg, val)
           h1 == [h EXCEPT !.clint = d]
           old == Pendings(h.clint)
           g == DeliverChanges(h1, old)
<1>1. ClintCsrWrite(h, reg, val) = g
  BY DEF ClintCsrWrite
<1>2. d \in Registers /\ h.clint \in Registers /\ d.mip = h.clint.mip
  BY ApplyWriteKeeps DEF Harts
<1> HIDE DEF d
<1>3. /\ h1 \in Harts /\ h1.clint = d /\ h1.file = h.file
      /\ h1.nv = h.nv /\ h1.connected = h.connected /\ h1.hgeie = h.hgeie
  BY <1>2 DEF Harts
<1> HIDE DEF h1
<1>4. Fresh(h1)
  BY <1>2, <1>3 DEF Fresh, FreshMS, FreshSg, FreshVs
<1>5. Delivers(g, h1) /\ \A j \in MajorIrqs : Sent(g, h1, old, Pendings(h1.clint), j)
  BY <1>3, DeliverChangesDelivers
<1> HIDE DEF g
<1>6. Edges(h.clint, g)
  BY <1>2, <1>3, <1>5, SgReachedAtStart, EdgesReach DEF Delivers
<1> QED BY <1>1, <1>3, <1>4, <1>5, <1>6 DEF Sound, Delivers, Grows

LEMMA RouteImsicWriteSound ==
  ASSUME NEW h \in Harts, Fresh(h), NEW level \in Levels, NEW minor \in Nat
  PROVE  Sound(RouteImsicWrite(h, level, minor), h)
<1>1. Delivers(RouteImsicWrite(h, level, minor), h)
  BY RouteImsicWriteDelivers
<1>2. Edges(h.clint, RouteImsicWrite(h, level, minor))
  BY <1>1, FilesReach DEF Delivers
<1> QED BY <1>1, <1>2 DEF Sound, Delivers, Grows

LEMMA ClaimTopSound ==
  ASSUME NEW h \in Harts, Fresh(h), NEW level \in Levels
  PROVE  Sound(ClaimTop(h, level), h)
<1> DEFINE rest == h.file[level] \ {Min(h.file[level])}
           f == [h.file EXCEPT ![level] = rest]
           h1 == [h EXCEPT !.file = f]
           e == ExternalIrq[level]
           set == rest # {}
           d == HwWriteMip(h1.clint, e, set)
           g == [h1 EXCEPT !.clint = d]
<1>1. ClaimTop(h, level) = IF level = "VS" THEN ComputeVs(h1) ELSE g
  BY DEF ClaimTop
<1>2. /\ f \in [Levels -> SUBSET Nat]
      /\ f[level] = rest
      /\ \A l \in Levels : l # level => f[l] = h.file[l]
  BY DEF Harts
<1> HIDE DEF rest, f
<1>3. /\ h1 \in Harts /\ h1.clint = h.clint /\ h1.clint \in Registers /\ h1.file = f
      /\ h1.nv = h.nv /\ h1.connected = h.connected /\ h1.hgeie = h.hgeie
  BY <1>2 DEF Harts
<1> HIDE DEF h1
<1>4. CASE level = "VS"
  <2>1. FreshMS(h1)
    BY <1>2, <1>3, <1>4 DEF Fresh, FreshMS, Levels
  <2>2. /\ Grows(ComputeVs(h1), h1) /\ Fresh(ComputeVs(h1))
        /\ \A first : SgReached(h1, first) => SgReached(ComputeVs(h1), first)
    BY <1>3, <2>1, ComputeVsRefreshes
  <2>3. Edges(h.clint, ComputeVs(h1))
    BY <1>3, <2>2, FilesReach
  <2> QED BY <1>1, <1>3, <1>4, <2>2, <2>3 DEF Sound, Grows
<1>5. CASE level # "VS"
  <2>1. e \in {MEI, SEI} /\ e \in LeveledIrqs /\ e \in FileIrqs
        /\ (level = "M" <=> e = MEI) /\ (level = "S" <=> e = SEI) /\ level \in {"M", "S"}
    BY <1>5, IrqNumbers DEF ExternalIrq, FileIrqs, Levels
  <2>2. /\ d \in Registers
        /\ d = [h1.clint EXCEPT !.mip = d.mip]
        /\ \A j : j # e => (j \in d.mip <=> j \in h1.clint.mip)
        /\ e \in d.mip <=> set
    <3>1. set \in BOOLEAN
      OBVIOUS
    <3> QED BY <1>3, <2>1, <3>1, HwWriteMipKeeps
  <2> HIDE DEF d, e
  <2>3. /\ g \in Harts /\ g.clint = d /\ g.file = f
        /\ g.nv = h1.nv /\ g.connected = h1.connected /\ g.hgeie = h1.hgeie
    BY <1>3, <2>2 DEF Harts
  <2> HIDE DEF g
  <2>4. Upwards(g, h1)
    BY <1>3, <2>1, <2>2, <2>3, IrqNumbers DEF Upwards, Grows
  <2>5. FreshMS(g)
    BY <1>2, <1>3, <2>1, <2>2, <2>3, IrqNumbers DEF Fresh, FreshMS, Levels
  <2>6. FreshSg(h1) /\ FreshVs(h1)
    BY <1>2, <1>3, <1>5 DEF Fresh, FreshSg, FreshVs, Levels
  <2>7. Fresh(g)
    BY <1>3, <2>4, <2>5, <2>6, UpwardsKeeps DEF Fresh
  <2>8. Edges(h.clint, g)
    BY <1>3, <2>4, UpwardsKeeps, FilesReach DEF Upwards
  <2> QED BY <1>1, <1>3, <1>5, <2>3, <2>7, <2>8 DEF Sound
<1> QED BY <1>4, <1>5

-----------------------------------------------------------------------------
(* The specification *)

HartInv == TypeOK /\ ExternalBitsFresh

LEMMA HartInvOfNow ==
  HartInv <=> Now \in Harts /\ Fresh(Now) /\ program \in Programs
<1>1. Now = [clint |-> clint, file |-> file, nv |-> nv, connected |-> connected,
             hgeie |-> hgeie]
  BY DEF Now, Hart
<1>2. TypeOK <=> Now \in Harts /\ program \in Programs
  BY <1>1 DEF TypeOK, Harts, Registers
<1>3. ASSUME connected \in BOOLEAN, hgeie \in BOOLEAN PROVE ExternalBitsFresh <=> Fresh(Now)
  BY <1>1, <1>3 DEF ExternalBitsFresh, Fresh, FreshMS, FreshSg, FreshVs
<1> QED BY <1>1, <1>2, <1>3 DEF HartInv, TypeOK, Harts

LEMMA HartInitInv == ASSUME Init PROVE HartInv
<1>1. /\ program.clint \in Clint /\ program.clint.mip = {}
      /\ HypervisorIrqs \subseteq program.clint.mideleg
      /\ program.modes \subseteq SUBSET Levels
      /\ program.connected \in BOOLEAN /\ program.hgeie \in BOOLEAN
  BY HartAssumption DEF Init
<1>2. TypeOK
  BY <1>1 DEF Init, TypeOK
<1>3. ExternalBitsFresh
  BY <1>1 DEF Init, ExternalBitsFresh, Levels
<1> QED BY <1>2, <1>3 DEF HartInv

\* What a step does to the hart that is now.
HartStep == HartInv' /\ Edges(clint, Now')

LEMMA HartInvOfNext ==
  ASSUME Now' \in Harts, Fresh(Now'), program' \in Programs
  PROVE  HartInv'
<1>1. Now' = [clint |-> clint', file |-> file', nv |-> nv', connected |-> connected',
              hgeie |-> hgeie']
  BY DEF Now, Hart
<1>2. TypeOK'
  BY <1>1 DEF TypeOK, Harts, Registers
<1>3. connected' \in BOOLEAN /\ hgeie' \in BOOLEAN
  BY <1>2 DEF TypeOK
<1>4. ExternalBitsFresh'
  BY <1>1, <1>3 DEF ExternalBitsFresh, Fresh, FreshMS, FreshSg, FreshVs
<1> QED BY <1>2, <1>4 DEF HartInv

LEMMA BecomesStep ==
  ASSUME HartInv, NEW g, Sound(g, Now), Becomes(g)
  PROVE  HartStep
<1>1. Now = [clint |-> clint, file |-> file, nv |-> nv, connected |-> connected,
             hgeie |-> hgeie]
  BY DEF Now, Hart
<1>2. Now' = [clint |-> clint', file |-> file', nv |-> nv', connected |-> connected',
              hgeie |-> hgeie']
  BY DEF Now, Hart
<1>3. Now' = g
  BY <1>1, <1>2 DEF Becomes, Sound, Harts
<1>4. Now' \in Harts /\ Fresh(Now') /\ Edges(clint, Now')
  BY <1>1, <1>3 DEF Sound
<1>5. program' \in Programs
  BY DEF Becomes, HartInv, TypeOK
<1> QED BY <1>4, <1>5, HartInvOfNext DEF HartStep

LEMMA WriteTvecStep ==
  ASSUME HartInv, NEW level \in Levels, WriteTvec(level)
  PROVE  HartStep
<1>1. /\ clint' = clint /\ file' = file /\ connected' = connected /\ hgeie' = hgeie
      /\ program' = program /\ nv' \subseteq Levels
  BY DEF WriteTvec, HartInv, TypeOK
<1>2. HartInv'
  BY <1>1 DEF HartInv, TypeOK, ExternalBitsFresh
<1>3. Now'.clint = clint
  BY <1>1 DEF Now, Hart
<1>4. Edges(clint, Now')
  BY <1>3 DEF Edges, Rises
<1> QED BY <1>2, <1>4 DEF HartStep

LEMMA WriteHstatusStep ==
  ASSUME HartInv, NEW conn \in BOOLEAN, WriteHstatus(conn)
  PROVE  HartStep
<1> DEFINE h == Hart(clint, file, nv, conn, hgeie)
           g == ComputeVs(h)
<1>1. h = [clint |-> clint, file |-> file, nv |-> nv, connected |-> conn, hgeie |-> hgeie]
  BY DEF Hart
<1>2. Now \in Harts /\ Fresh(Now) /\ program \in Programs
  BY HartInvOfNow
<1>3. h \in Harts /\ FreshMS(h) /\ h.clint = clint
  BY <1>1, <1>2 DEF Now, Hart, Harts, Fresh, FreshMS
<1>4. clint' = g.clint /\ file' = g.file
      /\ nv' = nv /\ hgeie' = hgeie /\ connected' = conn /\ program' = program
  BY DEF WriteHstatus
<1> HIDE DEF h
<1>5. Grows(g, h) /\ Fresh(g) /\ \A first : SgReached(h, first) => SgReached(g, first)
  BY <1>3, ComputeVsRefreshes
<1> HIDE DEF g
<1>6. Now' = g
  BY <1>1, <1>4, <1>5 DEF Now, Hart, Grows, Harts
<1>7. Edges(clint, g)
  BY <1>3, <1>5, FilesReach
<1>8. Now' \in Harts /\ Fresh(Now') /\ program' \in Programs /\ Edges(clint, Now')
  BY <1>2, <1>4, <1>5, <1>6, <1>7 DEF Grows
<1> QED BY <1>8, HartInvOfNext DEF HartStep

LEMMA WriteHgeieStep ==
  ASSUME HartInv, NEW on \in BOOLEAN, WriteHgeie(on)
  PROVE  HartStep
<1> DEFINE h == Hart(clint, file, nv, connected, on)
           g == RecalcSgeip(h)
<1>1. h = [clint |-> clint, file |-> file, nv |-> nv, connected |-> connected, hgeie |-> on]
  BY DEF Hart
<1>2. Now \in Harts /\ Fresh(Now) /\ program \in Programs
  BY HartInvOfNow
<1>3. h \in Harts /\ FreshMS(h) /\ FreshVs(h) /\ h.clint = clint
  BY <1>1, <1>2 DEF Now, Hart, Harts, Fresh, FreshMS, FreshVs
<1>4. clint' = g.clint /\ file' = g.file
      /\ nv' = nv /\ hgeie' = on /\ connected' = connected /\ program' = program
  BY DEF WriteHgeie
<1> HIDE DEF h
<1>5. /\ Grows(g, h) /\ FreshMS(g) /\ FreshSg(g)
      /\ g.file["VS"] = h.file["VS"]
      /\ VSEI \in g.clint.mip <=> VSEI \in h.clint.mip
      /\ \A first : SgReached(h, first) => SgReached(g, first)
  BY <1>3, RecalcSgeipRefreshes
<1> HIDE DEF g
<1>6. Fresh(g)
  BY <1>3, <1>5 DEF Fresh, FreshVs, Grows
<1>7. Now' = g
  BY <1>1, <1>4, <1>5 DEF Now, Hart, Grows, Harts
<1>8. Edges(clint, g)
  BY <1>3, <1>5, FilesReach
<1>9. Now' \in Harts /\ Fresh(Now') /\ program' \in Programs /\ Edges(clint, Now')
  BY <1>2, <1>4, <1>5, <1>6, <1>7, <1>8 DEF Grows
<1> QED BY <1>9, HartInvOfNext DEF HartStep

LEMMA HartNextStep == ASSUME HartInv, [Next]_vars PROVE HartStep
<1>1. Now \in Harts /\ Fresh(Now) /\ program \in Programs
  BY HartInvOfNow
<1>2. ASSUME NEW iid \in program.hwIrqs, NEW status \in BOOLEAN, TriggerInterrupt(iid, status)
      PROVE  HartStep
  <2>1. iid \in LeveledIrqs \ FileIrqs
    BY <1>1, HartAssumption DEF FileIrqs
  <2> QED BY <1>1, <1>2, <2>1, HwIrqRouteSound, BecomesStep DEF TriggerInterrupt
<1>3. ASSUME NEW w \in program.writes, WriteCsr(w[1], w[2]) PROVE HartStep
  <2>1. w[1] \in DOMAIN Writable \union RoutedRegs
    BY <1>1, HartAssumption
  <2> QED BY <1>1, <1>3, <2>1, ClintCsrWriteSound, BecomesStep DEF WriteCsr
<1>4. ASSUME NEW level \in Levels, NEW minor \in program.minors, DeviceMsi(level, minor)
      PROVE  HartStep
  <2>1. minor \in Nat
    BY <1>1, HartAssumption
  <2> QED BY <1>1, <1>4, <2>1, RouteImsicWriteSound, BecomesStep DEF DeviceMsi
<1>5. ASSUME NEW level \in Levels, ClaimTopei(level) PROVE HartStep
  BY <1>1, <1>5, ClaimTopSound, BecomesStep DEF ClaimTopei
<1>6. ASSUME NEW level \in Levels, WriteTvec(level) PROVE HartStep
  BY <1>6, WriteTvecStep
<1>7. ASSUME NEW on \in BOOLEAN, WriteHstatus(on) PROVE HartStep
  BY <1>7, WriteHstatusStep
<1>8. ASSUME NEW on \in BOOLEAN, WriteHgeie(on) PROVE HartStep
  BY <1>8, WriteHgeieStep
<1>9. ASSUME NEW enabled \in EnabledLevels, TakeInterrupt(enabled) PROVE HartStep
  <2> DEFINE level == TargetLevel(Processed(clint, nv), enabled)
  <2>1. Becomes(ClaimTop(Now, level)) /\ level \in nv
    BY <1>9 DEF TakeInterrupt
  <2>2. level \in Levels
    BY <2>1 DEF HartInv, TypeOK
  <2> HIDE DEF level
  <2> QED BY <1>1, <2>1, <2>2, ClaimTopSound, BecomesStep
<1>10. CASE UNCHANGED vars
  <2>1. HartInv'
    BY <1>10 DEF vars, HartInv, TypeOK, ExternalBitsFresh
  <2>2. Now'.clint = clint
    BY <1>10 DEF vars, Now, Hart
  <2>3. Edges(clint, Now')
    BY <2>2 DEF Edges, Rises
  <2> QED BY <2>1, <2>3 DEF HartStep
<1> QED BY <1>2, <1>3, <1>4, <1>5, <1>6, <1>7, <1>8, <1>9, <1>10 DEF Next

\* The registers keep to their writable bits, and the hypervisor's interrupts
\* stay delegated, whatever software writes and whatever deliveries follow.
THEOREM HartTypeCorrect == Spec => []TypeOK
<1>1. Init => HartInv
  BY HartInitInv
<1>2. HartInv /\ [Next]_vars => HartInv'
  BY HartNextStep DEF HartStep
<1>3. HartInv => TypeOK
  BY DEF HartInv
<1> QED BY <1>1, <1>2, <1>3, PTL DEF Spec

\* The external bits of mip never go stale: not in the cascade from the guest
\* file up to the machine's, nor when a file is disconnected or claimed from.
THEOREM ExternalBitsAlwaysFresh == Spec => []ExternalBitsFresh
<1>1. Init => HartInv
  BY HartInitInv
<1>2. HartInv /\ [Next]_vars => HartInv'
  BY HartNextStep DEF HartStep
<1>3. HartInv => ExternalBitsFresh
  BY DEF HartInv
<1> QED BY <1>1, <1>2, <1>3, PTL DEF Spec

LEMMA AssertsFollow == ASSUME HartInv PROVE HartAssertsHold
<1>1. clint \in Registers
  BY DEF HartInv, TypeOK, Registers
<1>2. VSEI \notin MPending(clint)
  BY <1>1, IrqNumbers DEF MPending, Registers
<1>3. ASSUME ~ connected, VSEI \notin clint.hvip
      PROVE  VSEI \notin SPending(clint) \union VsPending(clint)
  <2>1. VSEI \notin MipRead(clint)
    BY <1>3 DEF HartInv, ExternalBitsFresh, MipRead
  <2>2. VSEI \notin SPending(clint)
    BY <2>1, IrqNumbers DEF SPending, SipRead, HipRead
  <2>3. VSEI \notin VsPending(clint)
    BY <1>3, <2>1, IrqNumbers DEF VsPending, VsipRead, SipRead, HipRead
  <2> QED BY <2>2, <2>3
<1>4. HasIdentity("M")
  <2>1. MEI \in MPending(clint) => file["M"] # {}
    BY DEF HartInv, ExternalBitsFresh, MPending
  <2> QED BY <2>1 DEF HasIdentity, Pendings, ExternalIrq
<1>5. HasIdentity("S")
  <2>1. SEI \in SPending(clint) => SEI \in SipRead(clint)
    BY IrqNumbers DEF SPending, HipRead
  <2>2. SEI \in SipRead(clint) => SEI \in SInjected(clint) \/ SEI \in MipRead(clint)
    BY DEF SipRead
  <2>3. SEI \in MipRead(clint) => file["S"] # {}
    BY IrqNumbers DEF HartInv, ExternalBitsFresh, MipRead
  <2> QED BY <2>1, <2>2, <2>3 DEF HasIdentity, Pendings, ExternalIrq, IsInjected
<1> QED BY <1>2, <1>3, <1>4, <1>5 DEF HartAssertsHold, SanitizeAsserts

\* No assertion on the way to a taken interrupt fails: the VS external
\* interrupt never pends with no file behind it, and the machine and the
\* supervisor never take an external interrupt without an identity.
THEOREM HartAssertsAlwaysHold == Spec => []HartAssertsHold
<1>1. Init => HartInv
  BY HartInitInv
<1>2. HartInv /\ [Next]_vars => HartInv'
  BY HartNextStep DEF HartStep
<1>3. HartInv => HartAssertsHold
  BY AssertsFollow
<1> QED BY <1>1, <1>2, <1>3, PTL DEF Spec

LEMMA RoutedOnceFollows == ASSUME TypeOK PROVE RoutedOnce
<1>1. /\ HypervisorIrqs \subseteq clint.mideleg
      /\ clint.hideleg \subseteq VirtualIrqs
  BY DEF TypeOK, Clint
<1>2. MPending(clint) \intersect SPending(clint) \subseteq SInjected(clint)
  BY <1>1 DEF MPending, SPending, SipRead, HipRead, SDelegated
<1>3. MPending(clint) \intersect HidelegRead(clint) = {}
  BY <1>1, IrqNumbers DEF MPending, HidelegRead
<1>4. SPending(clint) \intersect HidelegRead(clint) = {}
  BY DEF SPending
<1>5. VsPending(clint) \subseteq HidelegRead(clint) \union VsInjected(clint)
  BY DEF VsPending, VsipRead, VsDelegated
<1> QED BY <1>2, <1>3, <1>4, <1>5 DEF RoutedOnce

\* No source pends for two levels unless software injected it: the reason is
\* that what hideleg passes on is always delegated by mideleg.
THEOREM AlwaysRoutedOnce == Spec => []RoutedOnce
<1>1. Init => HartInv
  BY HartInitInv
<1>2. HartInv /\ [Next]_vars => HartInv'
  BY HartNextStep DEF HartStep
<1>3. HartInv => RoutedOnce
  BY RoutedOnceFollows DEF HartInv
<1> QED BY <1>1, <1>2, <1>3, PTL DEF Spec

\* In nested vectored mode an interrupt that begins to pend is never lost:
\* its identity is in the file of its level after the same step.
THEOREM EdgesAlwaysReachFile == Spec => EdgeReachesFile
<1> DEFINE Reaches ==
      LET old == Pendings(clint)
          new == Pendings(clint')
      IN  \A level \in Levels : Listens(level) =>
            \A iid \in Rises(old, new, level) :
               LevelOf(new, iid) = level /\ Iprio[level][iid] # 0 =>
                  Iprio[level][iid] \in file'[level]
<1>1. Init => HartInv
  BY HartInitInv
<1>2. HartInv /\ [Next]_vars => HartInv'
  BY HartNextStep DEF HartStep
<1>3. ASSUME HartInv, [Next]_vars PROVE Reaches
  <2>1. Edges(clint, Now')
    BY <1>3, HartNextStep DEF HartStep
  <2>2. Now'.clint = clint' /\ Now'.file = file' /\ Now'.nv = nv' /\ Now'.connected = connected'
    BY DEF Now, Hart
  <2> QED BY <2>1, <2>2 DEF Edges, Listens
<1>4. HartInv /\ [Next]_vars => [Reaches]_vars
  BY <1>3
<1> QED BY <1>1, <1>2, <1>4, PTL DEF Spec, EdgeReachesFile

=============================================================================
