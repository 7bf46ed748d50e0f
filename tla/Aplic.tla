------------------------------- MODULE Aplic -------------------------------
(***************************************************************************)
(* The APLIC (platform/common/aplic.h): wired interrupts become MSIs to    *)
(* the harts' interrupt files.                                             *)
(*                                                                         *)
(* Two register windows exist, but every handler works on the machine      *)
(* domain's enable and pending bits: the supervisor window is an alias     *)
(* whose own sourcecfg and target are storage nothing reads.  Here are the *)
(* machine domain's registers; SupervisorSourcecfg is the one write        *)
(* through the other window that differs from its machine twin.            *)
(*                                                                         *)
(* Software is assumed to write no reserved source mode and only existing  *)
(* harts (the code asserts both).                                          *)
(***************************************************************************)
EXTENDS Integers, FiniteSets

CONSTANTS
  NumberInterrupts,    \* sources are 1 .. NumberInterrupts - 1
  AplicHarts,          \* harts an MSI may be sent to, numbers from 0
  AplicEiids,          \* identities software puts into target and genmsi
  AplicModes,          \* the source modes software uses
  MsiAddrCfgs          \* values of mmsiaddrcfg(h): [ppn, lhxw, hhxw]

ASSUME AplicAssumption ==
  /\ NumberInterrupts \in Nat
  /\ AplicHarts \subseteq Nat
  /\ AplicEiids \subseteq Nat
  /\ AplicModes \subseteq {"INACTIVE", "DETACHED", "DELEGATED",
                           "EDGE1", "EDGE0", "LEVEL1", "LEVEL0"}
  /\ MsiAddrCfgs \subseteq [ppn : Nat, lhxw : Nat, hhxw : Nat]

AplicSources == 1 .. NumberInterrupts - 1

\* Numbers software may write to the *num registers: 0 and one beyond the
\* sources are ignored.
AplicNumbers == 0 .. NumberInterrupts

\* "none" is the value 0 of a target register: identity 0 of hart 0.
NoTarget == [eiid |-> 0, hart |-> 0, deliv |-> FALSE]
AplicTarget == [eiid : AplicEiids, hart : AplicHarts, deliv : {TRUE}]

VARIABLES
  domainIe,       \* domaincfg.IE; the other fields are fixed
  sourcecfg,      \* mode of each source
  target,         \* target registers
  aplicIp,        \* ip_reg
  aplicIe,        \* ie_reg
  mmsiaddrcfg,    \* where MSIs go
  aplicWake,      \* e_run is notified
  msi,            \* the last MSI written: its page and data
  asked,          \* history: sources set pending since their last edge MSI
  leftover        \* history: what sources had when they were made inactive

aplicVars == <<domainIe, sourcecfg, target, aplicIp, aplicIe, mmsiaddrcfg,
               aplicWake, msi, asked, leftover>>

AplicTypeOK ==
  /\ domainIe \in BOOLEAN
  /\ sourcecfg \in [AplicSources -> AplicModes]
  /\ target \in [AplicSources -> AplicTarget \union {NoTarget}]
  /\ aplicIp \subseteq AplicSources
  /\ aplicIe \subseteq AplicSources
  /\ mmsiaddrcfg \in MsiAddrCfgs
  /\ aplicWake \in BOOLEAN
  /\ asked \subseteq AplicSources
  /\ leftover \subseteq AplicSources \X {"ip", "ie", "target"}

AplicInit ==
  /\ domainIe = FALSE
  /\ sourcecfg = [s \in AplicSources |-> "INACTIVE"]
  /\ target = [s \in AplicSources |-> NoTarget]
  /\ aplicIp = {} /\ aplicIe = {}
  /\ mmsiaddrcfg \in MsiAddrCfgs
  /\ aplicWake = FALSE
  /\ msi = <<>>
  /\ asked = {}
  /\ leftover = {}

-----------------------------------------------------------------------------

\* DETACHED counts as inactive, as does a source delegated to the child domain.
InactiveModes == {"INACTIVE", "DETACHED", "DELEGATED"}

SourceIsInactive(s) == s \notin AplicSources \/ sourcecfg[s] \in InactiveModes

\* What an inactive source should not have: its bits and its target.
Belongings(s) ==
  {b \in {<<s, "ip">>, <<s, "ie">>, <<s, "target">>} :
     CASE b[2] = "ip" -> s \in aplicIp
       [] b[2] = "ie" -> s \in aplicIe
       [] OTHER -> target[s] # NoTarget}

IsEdge(s) == sourcecfg[s] \in {"EDGE0", "EDGE1"}

\* is_pending_interrupt and the filters of hart_get_next_pending_interrupt.
AplicReady(s) ==
  domainIe /\ ~SourceIsInactive(s) /\ s \in aplicIe /\ s \in aplicIp

\* hart_get_next_pending_interrupt: the lowest ready source, 0 for none.
NextPending ==
  IF \E s \in AplicSources : AplicReady(s)
  THEN CHOOSE s \in AplicSources :
         AplicReady(s) /\ \A r \in 1 .. s - 1 : ~AplicReady(r)
  ELSE 0

\* The page of a hart's interrupt file: base, group and hart within it.
GetMTargetAddress(hart) ==
  <<mmsiaddrcfg.ppn,
    (hart \div 2^mmsiaddrcfg.lhxw) % 2^mmsiaddrcfg.hhxw,
    hart % 2^mmsiaddrcfg.lhxw>>

-----------------------------------------------------------------------------

\* domaincfg: only IE is writable, and nobody is woken.
PostWriteDomainconfig(on) ==
  /\ domainIe' = on
  /\ UNCHANGED <<sourcecfg, target, aplicIp, aplicIe, mmsiaddrcfg, aplicWake,
                 msi, asked, leftover>>

\* The bits and target of a source made inactive.
Wipe(s) ==
  /\ target' = [target EXCEPT ![s] = NoTarget]
  /\ aplicIp' = aplicIp \ {s}
  /\ aplicIe' = aplicIe \ {s}

\* A source that becomes inactive leaves behind what is not wiped.
Leave(s) ==
  leftover' = (leftover \ ({s} \X {"ip", "ie", "target"}))
                \union (IF SourceIsInactive(s)' THEN Belongings(s)' ELSE {})

PostWriteSourcecfgKeepsBits(s, m) ==
  /\ sourcecfg' = [sourcecfg EXCEPT ![s] = m]
  /\ UNCHANGED <<target, aplicIp, aplicIe>>
  /\ Leave(s)
  /\ UNCHANGED <<domainIe, mmsiaddrcfg, aplicWake, msi, asked>>

\* Only the mode INACTIVE wipes: a source that is detached or delegated, and
\* so inactive too, keeps its bits and its target.  The child index shares its
\* bits with the mode: a delegation to child 0 reads as INACTIVE and is stored
\* as such, DELEGATED is one to child 1.
PostWriteSourcecfg(s, m) ==
  /\ sourcecfg' = [sourcecfg EXCEPT ![s] = m]
  /\ IF m = "INACTIVE" THEN Wipe(s) ELSE UNCHANGED <<target, aplicIp, aplicIe>>
  /\ Leave(s)
  /\ UNCHANGED <<domainIe, mmsiaddrcfg, aplicWake, msi, asked>>

\* The same handler through the supervisor window: its sourcecfg is another
\* register, the bits it wipes are the machine domain's.
SupervisorSourcecfg(s) ==
  /\ Wipe(s)
  /\ UNCHANGED <<domainIe, sourcecfg, mmsiaddrcfg, aplicWake, msi, asked, leftover>>

\* mmsiaddrcfg(h) of the machine domain is plain storage; elsewhere it is 0.
WriteMmsiaddrcfg(c) ==
  /\ mmsiaddrcfg' = c
  /\ UNCHANGED <<domainIe, sourcecfg, target, aplicIp, aplicIe, aplicWake,
                 msi, asked, leftover>>

\* setip, setipnum, setipnum_le and the gateway: only active sources.
SetPending(S) ==
  LET set == {s \in S : ~SourceIsInactive(s)} IN
  /\ aplicIp' = aplicIp \union set
  /\ asked' = asked \union set
  /\ aplicWake' = (aplicWake \/ set # {})
  /\ UNCHANGED <<domainIe, sourcecfg, target, aplicIe, mmsiaddrcfg, msi, leftover>>

PostWriteSetip(S) == SetPending(S)
PostWriteSetipnum(n) == SetPending({n})
PostWriteSetipnumLe(n) == PostWriteSetipnum(n)
GatewayTriggerInterrupt(s) == SetPending({s})

\* setipnum_be is ignored.
PostWriteSetipnumBe(n) == UNCHANGED aplicVars

ClearPending(S) ==
  /\ aplicIp' = aplicIp \ S
  /\ UNCHANGED <<domainIe, sourcecfg, target, aplicIe, mmsiaddrcfg,
                 aplicWake, msi, asked, leftover>>

PostWriteInClrip(S) == ClearPending(S)
PostWriteClripnum(n) == ClearPending({n} \intersect AplicSources)

\* setie wakes run whenever any source of the word is enabled.
PostWriteSetie(S) ==
  /\ aplicIe' = aplicIe \union {s \in S : ~SourceIsInactive(s)}
  /\ aplicWake' = (aplicWake \/ aplicIe' # {})
  /\ UNCHANGED <<domainIe, sourcecfg, target, aplicIp, mmsiaddrcfg, msi, asked, leftover>>

PostWriteSetienum(n) ==
  /\ ~SourceIsInactive(n)
  /\ aplicIe' = aplicIe \union {n}
  /\ aplicWake' = TRUE
  /\ UNCHANGED <<domainIe, sourcecfg, target, aplicIp, mmsiaddrcfg, msi, asked, leftover>>

DisableSources(S) ==
  /\ aplicIe' = aplicIe \ S
  /\ UNCHANGED <<domainIe, sourcecfg, target, aplicIp, mmsiaddrcfg,
                 aplicWake, msi, asked, leftover>>

PostWriteClrie(S) == DisableSources(S)

\* clrienum of an inactive source is ignored.
PostWriteClrienum(n) == ~SourceIsInactive(n) /\ DisableSources({n})

PostWriteTarget(s, t) ==
  /\ target' = [target EXCEPT ![s] = IF SourceIsInactive(s) THEN NoTarget ELSE t]
  /\ UNCHANGED <<domainIe, sourcecfg, aplicIp, aplicIe, mmsiaddrcfg,
                 aplicWake, msi, asked, leftover>>

\* genmsi sends at once, whatever domaincfg.IE says.
PostWriteGenmsi(hart, eiid) ==
  /\ msi' = <<GetMTargetAddress(hart), eiid>>
  /\ UNCHANGED <<domainIe, sourcecfg, target, aplicIp, aplicIe, mmsiaddrcfg,
                 aplicWake, asked, leftover>>

MsiClrPendingEdge1(s) ==
  aplicIp' = IF sourcecfg[s] = "EDGE1" THEN aplicIp \ {s} ELSE aplicIp

\* msi_clr_pending: a level source stays pending.
MsiClrPending(s) == aplicIp' = IF IsEdge(s) THEN aplicIp \ {s} ELSE aplicIp

MsiWrite(s) ==
  /\ msi' = <<GetMTargetAddress(target[s].hart), target[s].eiid>>
  /\ MsiClrPending(s)
  /\ asked' = IF IsEdge(s) THEN asked \ {s} ELSE asked

\* The run thread: one MSI, if any, per wake-up.
AplicRun ==
  /\ aplicWake
  /\ aplicWake' = FALSE
  /\ IF NextPending > 0 THEN MsiWrite(NextPending)
                        ELSE UNCHANGED <<msi, aplicIp, asked>>
  /\ UNCHANGED <<domainIe, sourcecfg, target, aplicIe, mmsiaddrcfg, leftover>>

\* Words software writes: any sources, and all of them with the bits that
\* stand for none.
AplicWords == SUBSET AplicSources \union {AplicSources \union {0, NumberInterrupts}}

AplicSoftware ==
  \/ \E on \in BOOLEAN : PostWriteDomainconfig(on)
  \/ \E s \in AplicSources, m \in AplicModes : PostWriteSourcecfg(s, m)
  \/ \E s \in AplicSources : SupervisorSourcecfg(s)
  \/ \E c \in MsiAddrCfgs : WriteMmsiaddrcfg(c)
  \/ \E S \in AplicWords : \/ PostWriteSetip(S) \/ PostWriteInClrip(S)
                           \/ PostWriteSetie(S) \/ PostWriteClrie(S)
  \/ \E n \in AplicNumbers :
       \/ PostWriteSetipnum(n) \/ PostWriteSetipnumLe(n)
       \/ PostWriteSetipnumBe(n) \/ PostWriteClripnum(n)
       \/ PostWriteSetienum(n) \/ PostWriteClrienum(n)
  \/ \E s \in AplicSources, t \in AplicTarget : PostWriteTarget(s, t)
  \/ \E h \in AplicHarts, e \in AplicEiids : PostWriteGenmsi(h, e)

AplicNext ==
  \/ AplicSoftware
  \/ \E n \in AplicNumbers : GatewayTriggerInterrupt(n)
  \/ AplicRun

\* A notified sc_event wakes the thread.
AplicFairness == WF_aplicVars(AplicRun)

AplicSpec == AplicInit /\ [][AplicNext]_aplicVars /\ AplicFairness

-----------------------------------------------------------------------------

\* Whatever the order of configuration writes, wires and MSIs, an inactive
\* source has no more of a pending bit, an enable bit and a target than what
\* it had when it was made inactive, and one whose mode is INACTIVE has none of
\* them.  The comment at aplic.h:533 promises zeros for every inactive source:
\* post_write_sourcecfg keeps them for a detached or delegated one (line 740
\* calls it inactive), which comes back with its old request and target.
AplicInactiveFrozen ==
  \A s \in AplicSources : SourceIsInactive(s) =>
    /\ Belongings(s) \subseteq leftover
    /\ sourcecfg[s] = "INACTIVE" => Belongings(s) = {}

\* An edge-sensitive source sends at most one MSI for each time its pending
\* bit was set: a step that leaves an MSI of it behind was asked for.
AplicEdgeOnce ==
  [][ \A s \in AplicSources :
        AplicRun /\ NextPending = s /\ IsEdge(s) => s \in asked ]_aplicVars

\* What the comment at aplic.h:444 promises: a pending bit of an enabled
\* source leads to its MSI (or the source stops being ready).  It does not:
\* run sends one MSI per wake-up and nothing wakes it for the next source.
AplicPendingIsSent ==
  \A s \in AplicSources :
    (AplicReady(s) /\ IsEdge(s)) ~> ~(AplicReady(s) /\ IsEdge(s))
=============================================================================
