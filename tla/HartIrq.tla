------------------------------- MODULE HartIrq -------------------------------
(***************************************************************************)
(* The interrupts of one hart across its three levels (core/rv32/iss.cpp): *)
(* the local interrupt registers of ClintRoute, the three interrupt files  *)
(* they feed in nested vectored mode, and the bits of mip the files drive. *)
(*                                                                         *)
(* In nested vectored mode a level takes only its external interrupt, so   *)
(* every other interrupt has to be turned into an MSI to the level's file  *)
(* when it begins to pend (deliver_pending_to_imsic).  A file that gets    *)
(* such an MSI raises an external interrupt which, undelegated, pends for  *)
(* the next level: hence the cascade.                                      *)
(*                                                                         *)
(* A file is the set of its pending identities, all enabled and above the  *)
(* threshold; Imsic has its registers in full.  There is one guest file.   *)
(***************************************************************************)
EXTENDS ClintRoute, SequencesExt

CONSTANTS
  Iprio,     \* per level and interrupt, the identity it is delivered as
  Programs   \* the systems the hart may be part of

Levels == {"M", "S", "VS"}

\* The views of the registers a lower level writes through.
RoutedRegs == {"sie", "hie", "vsie", "sip", "vsip"}

\* A program is the registers software has set up (clint, hgeie,
\* connected, and one of modes), the interrupts its timers and software
\* interrupts drive (hwIrqs), the register writes it goes on to make,
\* <<register, value>> (writes), and the identities its devices send (minors).
ASSUME HartAssumption ==
  /\ Iprio \in [Levels -> [MajorIrqs -> Nat]]
  /\ \A p \in Programs :
       /\ p.clint \in Clint /\ p.clint.mip = {}
       /\ HypervisorIrqs \subseteq p.clint.mideleg
       /\ p.modes \subseteq SUBSET Levels
       /\ p.connected \in BOOLEAN /\ p.hgeie \in BOOLEAN
       /\ p.hwIrqs \subseteq LeveledIrqs \ {MEI, SEI, VSEI, SGEI}
       /\ \A w \in p.writes : w[1] \in DOMAIN Writable \union RoutedRegs
       /\ p.minors \subseteq Nat \ {0}

VARIABLES
  clint,      \* the registers of ClintRoute
  file,       \* identities pending in the file of each level
  nv,         \* levels whose xtvec selects the nested vectored mode
  connected,  \* hstatus.vgein connects the guest file
  hgeie,      \* the guest file may raise the guest external interrupt
  program     \* what runs; it does not change

vars == <<clint, file, nv, connected, hgeie, program>>

\* What a step works on: the registers and files it changes, and the
\* settings it only reads.
Hart(c, f, modes, conn, he) ==
  [clint |-> c, file |-> f, nv |-> modes, connected |-> conn, hgeie |-> he]

ExternalIrq == [M |-> MEI, S |-> SEI, VS |-> VSEI]

-----------------------------------------------------------------------------
\* A file receives an identity; the level's bit in mip follows.
WriteFile(h, level, minor) ==
  IF minor = 0 THEN h
  ELSE [h EXCEPT !.file[level] = @ \union {minor},
                 !.clint = HwWriteMip(@, ExternalIrq[level], TRUE)]

\* deliver_pending_to_imsic looks at the first level the interrupt pends for
\* and sends it there if it did not pend there before.
LevelOf(p, iid) ==
  IF iid \in p.M THEN "M"
  ELSE IF iid \in p.S THEN "S"
  ELSE IF iid \in p.VS THEN "VS" ELSE "none"

IsDelivered(h, old, new, iid) ==
  LET level == LevelOf(new, iid)
  IN  /\ level # "none"
      /\ iid \notin old[level]
      /\ iid # ExternalIrq[level]
      /\ level \in h.nv
      /\ level = "VS" => h.connected

\* Only the S and M files are reached from SGEI, VSEI and SEI.
DeliverUpwards(h, old, new, iid) ==
  IF IsDelivered(h, old, new, iid)
  THEN WriteFile(h, LevelOf(new, iid), Iprio[LevelOf(new, iid)][iid])
  ELSE h

\* cascade_pendings_to_imsics
Cascade(h, p1) ==
  LET p2 == Pendings(h.clint)
      h2 == DeliverUpwards(h, p1, p2, VSEI)
      p3 == Pendings(h2.clint)
  IN  DeliverUpwards(h2, p2, p3, SEI)

\* recalc_sgeip: clint_hw_irq_route of the guest external interrupt.
RecalcSgeip(h) ==
  LET old == Pendings(h.clint)
      h1 == [h EXCEPT !.clint =
               HwWriteMip(@, SGEI, h.hgeie /\ h.file["VS"] # {})]
      p1 == Pendings(h1.clint)
  IN  Cascade(DeliverUpwards(h1, old, p1, SGEI), p1)

\* Mutant: with no file connected the bit is left as it was.
ComputeVsKeepsBit(h) ==
  LET h1 == RecalcSgeip(h)
  IN  IF h.connected
      THEN [h1 EXCEPT !.clint = HwWriteMip(@, VSEI, h.file["VS"] # {})]
      ELSE h1

\* compute_imsic_pending_interrupts_vs
ComputeVs(h) ==
  LET h1 == RecalcSgeip(h)
  IN  [h1 EXCEPT !.clint =
         HwWriteMip(@, VSEI, h.connected /\ h.file["VS"] # {})]

\* route_imsic_write
RouteImsicWrite(h, level, minor) ==
  IF level # "VS" \/ minor = 0 THEN WriteFile(h, level, minor)
  ELSE ComputeVs([h EXCEPT !.file["VS"] = @ \union {minor}])

\* Mutant: what pends for the guest is not sent to its file.
DeliverNotToGuest(h, old, new, iid) ==
  IF IsDelivered(h, old, new, iid) /\ LevelOf(new, iid) # "VS"
  THEN WriteFile(h, LevelOf(new, iid), Iprio[LevelOf(new, iid)][iid])
  ELSE h

Deliver(h, old, new, iid) ==
  IF IsDelivered(h, old, new, iid)
  THEN RouteImsicWrite(h, LevelOf(new, iid), Iprio[LevelOf(new, iid)][iid])
  ELSE h

\* deliver_clint_changes_to_imsics of one interrupt.
DeliverChange(h, old, iid) ==
  LET new == Pendings(h.clint)
  IN  Cascade(Deliver(h, old, new, iid), new)

\* deliver_clint_changes_to_imsics of all, in the order of their numbers.
DeliverChanges(h, old) ==
  LET new == Pendings(h.clint)
      after[k \in 0 .. WDT] ==
        IF k = 0 THEN h ELSE Deliver(after[k - 1], old, new, k)
  IN  Cascade(after[WDT], new)

\* clint_hw_irq_route
HwIrqRoute(h, iid, set) ==
  LET old == Pendings(h.clint)
  IN  DeliverChange([h EXCEPT !.clint = HwWriteMip(@, iid, set)], old, iid)

\* on_clint_csr_write
ApplyWrite(c, reg, val) ==
  CASE reg = "sie" -> WriteSie(c, val)
    [] reg = "hie" -> WriteHie(c, val)
    [] reg = "vsie" -> WriteVsie(c, val)
    [] reg = "sip" -> WriteSip(c, val)
    [] reg = "vsip" -> WriteVsip(c, val)
    [] OTHER -> WriteReg(c, reg, val)

ClintCsrWrite(h, reg, val) ==
  LET old == Pendings(h.clint)
  IN  DeliverChanges([h EXCEPT !.clint = ApplyWrite(@, reg, val)], old)

\* Mutant: mip is not recomputed after a claim.
ClaimTopStale(h, level) ==
  [h EXCEPT !.file[level] = @ \ {Min(@)}]

\* claim_topei_interrupt: the top identity leaves the file.
ClaimTop(h, level) ==
  LET rest == h.file[level] \ {Min(h.file[level])}
      h1 == [h EXCEPT !.file[level] = rest]
  IN  IF level = "VS" THEN ComputeVs(h1)
      ELSE [h1 EXCEPT !.clint =
              HwWriteMip(@, ExternalIrq[level], rest # {})]

-----------------------------------------------------------------------------
Now == Hart(clint, file, nv, connected, hgeie)

\* A step that changes registers and files only.
Becomes(h) == /\ clint' = h.clint /\ file' = h.file
              /\ UNCHANGED <<nv, connected, hgeie, program>>

Init ==
  /\ program \in Programs
  /\ clint = program.clint
  /\ nv \in program.modes
  /\ hgeie = program.hgeie
  /\ connected = program.connected
  /\ file = [level \in Levels |-> {}]

\* trigger_timer_interrupt, trigger_software_interrupt
TriggerInterrupt(iid, status) == Becomes(HwIrqRoute(Now, iid, status))

WriteCsr(reg, val) == Becomes(ClintCsrWrite(Now, reg, val))

DeviceMsi(level, minor) == Becomes(RouteImsicWrite(Now, level, minor))

\* A write to xtopei; vstopei exists only while a file is connected.
ClaimTopei(level) ==
  /\ level = "VS" => connected
  /\ file[level] # {}
  /\ Becomes(ClaimTop(Now, level))

WriteTvec(level) ==
  /\ nv' = (nv \ {level}) \union ({level} \ nv)
  /\ UNCHANGED <<clint, file, connected, hgeie, program>>

\* on_guest_switch
WriteHstatus(conn) ==
  /\ connected' = conn
  /\ LET h == ComputeVs(Hart(clint, file, nv, conn, hgeie))
     IN  clint' = h.clint /\ file' = h.file
  /\ UNCHANGED <<nv, hgeie, program>>

WriteHgeie(on) ==
  /\ hgeie' = on
  /\ LET h == RecalcSgeip(Hart(clint, file, nv, connected, on))
     IN  clint' = h.clint /\ file' = h.file
  /\ UNCHANGED <<nv, connected, program>>

\* process_clint_pending_irq_bits_per_level: a nested vectored level takes
\* nothing but its external interrupt.
Processed(c, modes) ==
  [level \in Levels |->
     IF level \in modes THEN Pendings(c)[level] \intersect {ExternalIrq[level]}
                        ELSE Pendings(c)[level]]

\* is_irq_globaly_enable_per_level: what prv and the xstatus bits can enable.
EnabledLevels == {{}, {"M"}, {"M", "S"}, {"M", "S", "VS"}}

\* compute_pending_interrupt
TargetLevel(p, enabled) ==
  IF p["M"] # {} /\ "M" \in enabled THEN "M"
  ELSE IF p["S"] # {} /\ "S" \in enabled THEN "S"
  ELSE IF p["VS"] # {} /\ "VS" \in enabled THEN "VS" ELSE "none"

\* An injected external interrupt has no identity in the supervisor file.
IsInjected(c, level) == level = "S" /\ SEI \in SInjected(c)

\* prepare_interrupt and, through the trap, notify_irq_taken: in nested
\* vectored mode the interrupt taken is claimed.
TakeInterrupt(enabled) ==
  LET level == TargetLevel(Processed(clint, nv), enabled)
  IN  /\ level \in nv
      /\ ~ IsInjected(clint, level)
      /\ level = "VS" => connected
      /\ file[level] # {}
      /\ Becomes(ClaimTop(Now, level))

Next ==
  \/ \E iid \in program.hwIrqs, status \in BOOLEAN : TriggerInterrupt(iid, status)
  \/ \E w \in program.writes : WriteCsr(w[1], w[2])
  \/ \E level \in Levels, minor \in program.minors : DeviceMsi(level, minor)
  \/ \E level \in Levels : ClaimTopei(level) \/ WriteTvec(level)
  \/ \E on \in BOOLEAN : WriteHstatus(on) \/ WriteHgeie(on)
  \/ \E enabled \in EnabledLevels : TakeInterrupt(enabled)

Spec == Init /\ [][Next]_vars

-----------------------------------------------------------------------------
TypeOK ==
  /\ clint \in Clint
  /\ HypervisorIrqs \subseteq clint.mideleg
  /\ file \in [Levels -> SUBSET Nat]
  /\ nv \subseteq Levels
  /\ connected \in BOOLEAN /\ hgeie \in BOOLEAN
  /\ program \in Programs

\* The external bits of mip are the signals of the files, and the guest
\* external interrupt that of the guest file, whatever cascade of deliveries
\* a register write or a timer set off.
ExternalBitsFresh ==
  /\ (MEI \in clint.mip) = (file["M"] # {})
  /\ (SEI \in clint.mip) = (file["S"] # {})
  /\ (VSEI \in clint.mip) = (connected /\ file["VS"] # {})
  /\ (SGEI \in clint.mip) = (hgeie /\ file["VS"] # {})

\* The assertions of sanitize_vs_external_pend: a VS external interrupt never
\* pends for the machine and, with no guest file connected, pends for nobody
\* unless hvip injects it.
SanitizeAsserts ==
  /\ VSEI \notin MPending(clint)
  /\ ~ connected /\ VSEI \notin clint.hvip =>
       VSEI \notin SPending(clint) \union VsPending(clint)

\* One source pends for one level: an interrupt that pends for two levels at
\* once was injected for the lower one by software of the upper one.
RoutedOnce ==
  /\ MPending(clint) \intersect SPending(clint) \subseteq SInjected(clint)
  /\ (MPending(clint) \union SPending(clint)) \intersect VsPending(clint)
        \subseteq VsInjected(clint)

\* A nested vectored level that is about to take its external interrupt has
\* an identity to take: assert(xtopei) in nv_mode_get_ivt_line_num.
HasIdentity(level) ==
  level \in nv /\ ExternalIrq[level] \in Pendings(clint)[level] =>
    \/ IsInjected(clint, level)
    \/ file[level] # {} /\ (level = "VS" => connected)

\* The assertions on the way to a taken interrupt hold: those of
\* sanitize_vs_external_pend, and assert(xtopei) for the machine and the
\* supervisor.  (For a guest it fails when the hypervisor injects the
\* interrupt by hvip.)
HartAssertsHold == SanitizeAsserts /\ HasIdentity("M") /\ HasIdentity("S")

\* In nested vectored mode no interrupt but the external ones is lost: when
\* one begins to pend for a level, by a timer, a register write or a change
\* of delegation, the level's file gets its identity, unless the interrupt
\* pends for a more privileged level too.
Rises(old, new, level) == (new[level] \ old[level]) \ {MEI, SEI, VSEI}

Listens(level) == level \in nv' /\ (level = "VS" => connected')

EdgeReachesFile ==
  [][LET old == Pendings(clint)
         new == Pendings(clint')
     IN  \A level \in Levels : Listens(level) =>
           \A iid \in Rises(old, new, level) :
              LevelOf(new, iid) = level /\ Iprio[level][iid] # 0 =>
                 Iprio[level][iid] \in file'[level]]_vars

\* The comment in cascade_pendings_to_imsics, "if S ext IRQ is not delegated
\* to S level - than it will be written to M imsic here": a timer or register
\* write that makes it pend for the machine level reaches the machine's file.
SupervisorExternalReachesMachine ==
  [][(\/ \E iid \in program.hwIrqs, status \in BOOLEAN : TriggerInterrupt(iid, status)
      \/ \E w \in program.writes : WriteCsr(w[1], w[2]))
     => (/\ Listens("M")
         /\ SEI \in MPending(clint') \ MPending(clint)
         /\ Iprio["M"][SEI] # 0
         => Iprio["M"][SEI] \in file'["M"])]_vars
=============================================================================
