------------------------------- MODULE Units -------------------------------
(***************************************************************************)
(* The units of a hart that keep a history or decide by tables of their    *)
(* own, one at a time: `part' chooses the unit that is examined.           *)
(*   csr          every CSR address, in one context after the other        *)
(*   mmu          histories of translations, changes and fences            *)
(*   smpu         every access, in one configuration after the other       *)
(*   spmp         histories of accesses and CSR writes                     *)
(*   fp           histories of floating-point instructions                 *)
(* What the units are configured with and what is done to them are         *)
(* constants, so that what is proved holds for all of them.                *)
(***************************************************************************)
EXTENDS Mmu, Smpu, Spmp, Fp, Csr

CONSTANTS
  MaxAccesses, MaxChanges,        \* bounds of a history
  PageTables,                     \* contents of the page tables at the start
  Ptes, PteAddrs,                 \* what software writes to them, and where
  SmpuCores, SmpuAccesses,
  SpmpTables, SpmpEntries,        \* entries at the start, entries written
  SpmpAccesses,                   \* <<first word, last word>>
  CsrContexts,
  FpRegisters,
  FpOperations, FpModes           \* instructions with their outcome, values of frm

VARIABLES
  part,      \* the unit
  arch,      \* of which core
  row,       \* the quarter of the CSR addresses
  before,    \* in part fp, whether the floating-point state changed since
             \* software last saved it
  hart       \* the unit's state

unitVars == <<part, arch, row, before, hart>>

none == <<>>

-----------------------------------------------------------------------------
(* Address translation.  Software writes page table entries and the status *)
(* bits, and fences before it relies on the change.                        *)

PteFlags == {"V", "R", "W", "X", "U", "A", "D"}
PteType == [flags : SUBSET PteFlags, ppn : Nat]

\* An entry that points to a table of the next level.
IsPointer(pte) == pte.flags \cap {"V", "R", "W", "X"} = {"V"}

\* A pointer names a page of the page tables.
SoundPte(pte) == pte \in PteType /\ (IsPointer(pte) => pte.ppn \in TablePages)

PteAddresses == TablePages \X (0 .. 2^IDXBITS - 1)

ASSUME MmuAssumption ==
  /\ LEVELS \in Nat \ {0} /\ IDXBITS \in Nat /\ EXT_BITS \in Nat /\ TLB_ENTRIES \in Nat \ {0}
  /\ 0 \in TablePages /\ TablePages \subseteq Nat
  /\ PteAddrs \subseteq PteAddresses
  /\ \A pte \in Ptes : SoundPte(pte)
  /\ \A mem \in PageTables :
       mem \in [PteAddresses -> PteType] /\ \A at \in PteAddresses : SoundPte(mem[at])

\* Powers of two are positive: a fact of arithmetic the provers do not know.
ASSUME MmuPowers == 2^IDXBITS > 0 /\ \A i \in 0 .. LEVELS - 1 : 2^(i * IDXBITS) > 0

NoAccess == [vpn |-> 0, type |-> "", mode |-> ""]

MmuHarts ==
  {[mem |-> mem, ptbase |-> 0, bare |-> FALSE, sum |-> FALSE, mxr |-> FALSE, tlb |-> FlushedTlb,
    result |-> FAULT, last |-> NoAccess, fence |-> FALSE, accesses |-> 0, changes |-> 0] :
     mem \in PageTables}

Accessed(m, vpn, type, mode) ==
  [Translate(m, vpn, type, mode) EXCEPT !.last = [vpn |-> vpn, type |-> type, mode |-> mode],
                                        !.accesses = @ + 1]

\* A refused access changes nothing, so what may follow it is explored from the
\* state before it.
MmuAccess(m) ==
  {Accessed(m, vpn, type, mode) :
     vpn \in IF m.fence \/ m.accesses >= MaxAccesses \/ (m.last # NoAccess /\ m.result = FAULT)
             THEN {} ELSE Vpns,
     type \in AccessTypes, mode \in MmuModes}

Change(m) == [m EXCEPT !.fence = TRUE, !.last = NoAccess, !.result = FAULT, !.changes = @ + 1]

PteWritten(m, at, pte) == [Change(m) EXCEPT !.mem[at] = pte]

MmuChange(m) ==
  IF m.changes >= MaxChanges THEN {}
  ELSE {PteWritten(m, at, pte) : at \in PteAddrs, pte \in Ptes}
       \cup {[Change(m) EXCEPT !.sum = ~@], [Change(m) EXCEPT !.mxr = ~@],
             [Change(m) EXCEPT !.bare = ~@]}

Fenced(m) == [FlushTlb(m) EXCEPT !.fence = FALSE, !.last = NoAccess, !.accesses = 0]

MmuFence(m) == IF m.fence THEN {Fenced(m)} ELSE {}

\* A leaf lets an access of mode and type pass.
Grants(m, f, type, mode) ==
  /\ "V" \in f /\ ("W" \in f => "R" \in f)
  /\ CASE type = "LOAD" -> f \cap ({"R"} \cup (IF m.mxr THEN {"X"} ELSE {})) # {}
       [] type = "STORE" -> "W" \in f
       [] type = "FETCH" -> "X" \in f
  /\ mode = "U" => "U" \in f
  /\ mode = "S" /\ "U" \in f => m.sum /\ type # "FETCH"

\* The entry that the tables of a path have for vpn at a level.
Entry(m, vpn, path, j) == m.mem[<<path[j], VpnField(vpn, j)>>]

\* What the architecture says of the tables: pointers down a path to an aligned
\* leaf of level i that grants the access.
Maps(m, vpn, type, mode, i, path) ==
  /\ path[LEVELS - 1] = m.ptbase
  /\ \A j \in i + 1 .. LEVELS - 1 :
       IsPointer(Entry(m, vpn, path, j)) /\ Entry(m, vpn, path, j).ppn = path[j - 1]
  /\ Grants(m, Entry(m, vpn, path, i).flags, type, mode)
  /\ Entry(m, vpn, path, i).ppn % 2^(i * IDXBITS) = 0

Paths == [0 .. LEVELS - 1 -> TablePages]

Mapped(m, vpn, type, mode) ==
  \E i \in 0 .. LEVELS - 1, path \in Paths : Maps(m, vpn, type, mode, i, path)

\* The tables map vpn to ppn, by a leaf that is marked accessed, and dirty too
\* for a store.
MapsTo(m, vpn, type, mode, ppn) ==
  \E i \in 0 .. LEVELS - 1, path \in Paths :
    /\ Maps(m, vpn, type, mode, i, path)
    /\ Touched(type) \subseteq Entry(m, vpn, path, i).flags
    /\ ppn = Entry(m, vpn, path, i).ppn + (vpn % 2^(i * IDXBITS))

\* Whatever was translated and cached before, in either mode and for any kind of
\* access, a translation is one the page tables give and a fault means that
\* they give none, given that software fences after a change (mmu.h).
TranslationExact ==
  part = "mmu" /\ hart.last # NoAccess =>
    LET a == hart.last
    IN IF hart.bare THEN hart.result = a.vpn
       ELSE IF hart.result = FAULT
       THEN CheckVaddrExtension(a.vpn) => ~Mapped(hart, a.vpn, a.type, a.mode)
       ELSE CheckVaddrExtension(a.vpn) /\ MapsTo(hart, a.vpn, a.type, a.mode, hart.result)

-----------------------------------------------------------------------------
(* SMPU.  Addresses of an access are in half words; the hart has checked   *)
(* that loads and stores are aligned, a fetch of a whole word may start at *)
(* any half.  No access wraps around the end of the address space.         *)

SmpuUnits == {"s", "vs", "h"}
SmpuAttributes == {"U", "R", "W", "X"}

SmpuRegionType ==
  {[addr |-> SmpuAddr(base, n), conf |-> SmpuConf(attr, size, paddr)] :
     base \in 0 .. 2^ADDR_BITS - 1, n \in 0 .. ADDR_BITS, attr \in SUBSET SmpuAttributes,
     size \in 0 .. 2^(ADDR_BITS - SMPU_ALIGN) - 1, paddr \in 0 .. 2^ADDR_BITS - 1}

ASSUME SmpuAssumption ==
  /\ ADDR_BITS \in Nat /\ SMPU_ALIGN \in 0 .. ADDR_BITS
  /\ SMPU_NAPOT_MIN \in 1 .. ADDR_BITS /\ SMPU_NAPOT_MAX \in SMPU_NAPOT_MIN .. ADDR_BITS
  /\ \A c \in SmpuCores :
       /\ c = [regions |-> c.regions, mask |-> c.mask, paged |-> c.paged,
               connected |-> c.connected, sum |-> c.sum, mxr |-> c.mxr]
       /\ c.regions \in [SmpuUnits -> Seq(SmpuRegionType)]
       /\ c.mask \in [SmpuUnits -> SUBSET Nat]
       /\ \A u \in SmpuUnits : c.mask[u] \subseteq DOMAIN c.regions[u]
  /\ \A acc \in SmpuAccesses :
       /\ acc = [addr |-> acc.addr, sz |-> acc.sz, type |-> acc.type, hlvx |-> acc.hlvx]
       /\ acc.addr \in Nat /\ acc.sz \in Nat \ {0} /\ acc.addr + acc.sz <= 2^ADDR_BITS
       /\ acc.type \in AccessTypes /\ (acc.hlvx => acc.type = "LOAD")

\* Facts of arithmetic, as above.
ASSUME SmpuPowers ==
  \A n \in 0 .. ADDR_BITS : 2^n > 0 /\ 2^ADDR_BITS = 2^n * 2^(ADDR_BITS - n)

Bytes(acc) == {(acc.addr + k) % 2^ADDR_BITS : k \in 0 .. acc.sz - 1}

Covers(r) ==
  IF r.addr.n # 0 THEN {r.addr.base + k : k \in 0 .. 2^r.addr.n - 1}
  ELSE {a \in 0 .. 2^ADDR_BITS - 1 : r.addr.base <= a /\ a <= (r.addr.base + GetSize(r.conf)) % 2^ADDR_BITS}

\* The rights of which one is enough for an access; with MXR a load may use X.
Needs(c, level, acc, mode) ==
  LET mxr == IF level = 1 /\ mode \in {"VS", "VU"} THEN "vs" ELSE "s"
  IN CASE acc.type = "FETCH" \/ acc.hlvx -> {"X"}
       [] acc.type = "STORE" -> {"W"}
       [] OTHER -> IF mxr \in c.mxr THEN {"R", "X"} ELSE {"R"}

\* What a shared region, one with W but not R, gives to user and supervisor.
SharedGrants(attr, right, user) ==
  \/ right = "R" /\ (user => attr # {"W", "X"})
  \/ right = "W" /\ attr = {"U", "W"}
  \/ right = "X" /\ "X" \in attr /\ (user \/ "U" \notin attr)

\* Whether a region with these attributes gives a mode a right.  At the first
\* level a supervisor needs SUM for a user region and never executes in it; at
\* the second vsum takes user regions from it, and makes regions shared.
GivesRight(c, level, attr, right, mode) ==
  LET user == mode \in {"U", "VU"}
      sum == (CASE level = 2 -> "h" [] level # 2 /\ mode \in {"VS", "VU"} -> "vs" [] OTHER -> "s")
             \in c.sum
  IN IF IsShared(attr) /\ (level = 1 \/ sum) THEN SharedGrants(attr, right, user)
     ELSE /\ right \in attr
          /\ user => "U" \in attr
          /\ ~user /\ "U" \in attr => IF level = 1 THEN sum /\ right # "X" ELSE ~sum

GrantedBy(c, level, r, acc, mode) ==
  \E right \in Needs(c, level, acc, mode) : GivesRight(c, level, r.conf.attr, right, mode)

\* The live regions of a unit that hold the whole access.
Holding(c, unit, acc) ==
  {i \in c.mask[unit] : /\ c.regions[unit][i].conf.attr \cap RWX # {}
                        /\ Bytes(acc) \subseteq Covers(c.regions[unit][i])}

\* Where a region leads an access.
LeadsTo(r, acc, addr) ==
  /\ r.addr.n = 0 => addr = acc.addr
  /\ r.addr.n # 0 => /\ addr % 2^r.addr.n = acc.addr % 2^r.addr.n
                     /\ addr \div 2^r.addr.n = r.conf.paddr \div 2^r.addr.n

\* No region restricts the access: the second level is for guests only, the
\* first level of a guest that is not connected lets all pass, and without any
\* region a supervisor's access passes.
Unrestricted(c, level, mode) ==
  \/ level = 2 /\ mode \in {"S", "U"}
  \/ Unit(level, mode) = "vs" /\ ~c.connected
  \/ c.mask[Unit(level, mode)] = {} /\ mode \in {"S", "VS"}

\* One live region alone holds the access and grants it.
Grantor(c, level, acc, mode, i) ==
  LET unit == Unit(level, mode)
  IN i \in c.mask[unit] /\ Holding(c, unit, acc) = {i} /\ GrantedBy(c, level, c.regions[unit][i], acc, mode)

\* A level passes an access on to addr.
Passes(c, level, acc, mode, addr) ==
  IF Unrestricted(c, level, mode) THEN addr = acc.addr
  ELSE \E i \in c.mask[Unit(level, mode)] :
         Grantor(c, level, acc, mode, i) /\ LeadsTo(c.regions[Unit(level, mode)][i], acc, addr)

\* A level has a reason to refuse an access.
Refuses(c, level, acc, mode) ==
  /\ ~Unrestricted(c, level, mode)
  /\ \A i \in c.mask[Unit(level, mode)] : ~Grantor(c, level, acc, mode, i)

SmpuExact(c, acc, mode) ==
  LET out == SmpuCheck(c, acc, mode)
      one == DoSmpuCheck(c, acc, 1, mode)
      onward == [acc EXCEPT !.addr = one.addr]
  IN /\ out.verdict = "pass" => /\ Passes(c, 1, acc, mode, one.addr)
                                /\ Passes(c, 2, onward, mode, out.addr)
     /\ out.verdict = "fault" => Refuses(c, 1, acc, mode) \/ Refuses(c, 2, onward, mode)

-----------------------------------------------------------------------------
(* SPMP.                                                                   *)

SpmpEntryType ==
  [a : {"OFF", "TOR", "NA4", "NAPOT"}, addr : 0 .. 2^WORD_BITS - 1, perm : SUBSET {"S", "R", "W", "X"},
   on : BOOLEAN]

ASSUME SpmpAssumption ==
  /\ WORD_BITS \in Nat
  /\ SpmpEntries \subseteq SpmpEntryType
  /\ SpmpTables \subseteq Seq(SpmpEntryType)
  /\ \A a \in SpmpAccesses : a = <<a[1], a[2]>> /\ a[1] \in Nat /\ a[2] \in Nat /\ a[1] <= a[2]

ASSUME SpmpPowers == \A n \in 0 .. WORD_BITS + 1 : 2^n > 0

\* Modes of the hart and of its loads and stores; MPRV is set in M-mode only
\* (Trap's MprvOnlyInMachine).
SpmpContexts ==
  {[prv |-> prv, mprv |-> FALSE, mpp |-> "U"] : prv \in SpmpModes}
  \cup {[prv |-> "M", mprv |-> TRUE, mpp |-> mpp] : mpp \in SpmpModes}

\* under is the mode of the hart and the SUM that each cached region was granted
\* under.
SpmpCores ==
  {[entries |-> table, sum |-> sum, prv |-> c.prv, mprv |-> c.mprv, mpp |-> c.mpp,
    cache |-> EmptyCache, granted |-> FALSE, last |-> <<>>, changes |-> 0,
    under |-> [m \in SpmpModes |-> [t \in AccessTypes |-> <<c.prv, sum>>]]] :
     table \in SpmpTables, sum \in BOOLEAN, c \in SpmpContexts}

SpmpAccessed(p, mode, first, last, type) ==
  LET q == DoSpmpCheck(p, mode, first, last, type)
  IN [q EXCEPT !.last = <<mode, first, last, type>>,
               !.under[mode][type] = IF q.cache = p.cache THEN @ ELSE <<p.prv, p.sum>>]

SpmpAccess(p) ==
  {SpmpAccessed(p, GetMemMode(p, type), a[1], a[2], type) :
     a \in IF p.granted \/ p.last = <<>> THEN SpmpAccesses ELSE {}, type \in AccessTypes}

SpmpWritten(p, i, e) == [WriteSpmp(p, i, e) EXCEPT !.last = <<>>, !.changes = @ + 1]

SumToggled(p) == [p EXCEPT !.sum = ~@, !.last = <<>>, !.changes = @ + 1]

\* A trap or a return, and a handler that sets MPRV and mpp.
ModeSwitched(p, c) ==
  [p EXCEPT !.prv = c.prv, !.mprv = c.mprv, !.mpp = c.mpp, !.last = <<>>, !.changes = @ + 1]

SpmpChange(p) ==
  IF p.changes >= MaxChanges THEN {}
  ELSE {SpmpWritten(p, i, e) : i \in DOMAIN p.entries, e \in SpmpEntries}
       \cup {ModeSwitched(p, c) : c \in SpmpContexts}
       \cup {SumToggled(p)}

Disjoint(p) ==
  \A i, j \in Live(p) : i # j => \/ Region(p, i)[2] <= Region(p, j)[1]
                                 \/ Region(p, j)[2] <= Region(p, i)[1]

\* The last access was decided by a region granted under another SUM or, by
\* MPRV, for another mode of the hart.
StaleHit(p) ==
  /\ CacheHit(p, p.last[1], p.last[2], p.last[3], p.last[4])
  /\ p.under[p.last[1]][p.last[4]] # <<p.prv, p.sum>>

CacheTransparent(p) ==
  p.last # <<>> /\ ~StaleHit(p) =>
    p.granted = (p.last[1] = "M" \/ Verdict(p, p.last[1], p.last[2], p.last[3], p.last[4]))

\* An access the SMPU lets pass lies to its last byte in exactly one live region
\* of each level that concerns it, and that region grants the mode what the
\* access does, a load R, a store W, a fetch X, and leads to its physical
\* address; one that faults has no such region at one of the levels (smpu.h).
\* The SPMP's cache of the last granted region never changes a verdict as long
\* as regions do not overlap, SUM is as it was when the region was cached, and
\* so is the mode of the hart, which MPRV tells from that of the access (spmp.h).
ProtectionExact ==
  /\ part = "smpu" =>
       \A acc \in SmpuAccesses, mode \in {"S", "U", "VS", "VU"} : SmpuExact(hart, acc, mode)
  /\ part = "spmp" /\ Disjoint(hart) => CacheTransparent(hart)

-----------------------------------------------------------------------------
(* CSR access.                                                             *)

Prvs == {"M", "S", "U", "VS", "VU"}

CsrContextType ==
  [prv : Prvs, vgein : Nat, vti : BOOLEAN, stce : SUBSET {"m", "h"}, tvm : BOOLEAN,
   injected : BOOLEAN, mcounteren : SUBSET (0 .. 31), scounteren : SUBSET (0 .. 31),
   select : Nat, mask : SUBSET Nat]

ASSUME CsrAssumption == CsrContexts \subseteq CsrContextType

\* Of one address: no assertion fails; a CSR that is not read-only by its
\* address is refused to a write with the exception a read of it meets, and
\* written where it is read from, except that MISA ignores writes and that a
\* locked SMPU entry is refused to writes alone.
CsrAgrees(c, addr) ==
  LET r == ReadCsr(c, addr)  w == WriteCsr(c, addr)
  IN /\ "assert" \notin {r.trap, w.trap}
     /\ CsrReadOnly(addr) => w.trap = "illegal"
     /\ ~CsrReadOnly(addr) =>
          \/ w.trap = r.trap /\ (w.cell = r.cell \/ addr = MISA_ADDR)
          \/ /\ r.trap = "" /\ r.cell.of \in {"s", "vs"} /\ Locked(c, r.cell.at)
             /\ w.trap = "illegal"

\* get_csr_value and set_csr_value, two switches that repeat each other's
\* checks and name the registers a second time, agree for every address,
\* privilege and selected indirect register: an instruction that reads and
\* writes never stops between the two, nor writes back elsewhere.
CsrChecksAgree == part = "csr" => \A addr \in 1024 * row .. 1024 * row + 1023 : CsrAgrees(hart, addr)

-----------------------------------------------------------------------------
(* Floating point.                                                         *)

FpGroupNames == {"load", "arithmetic", "minmax", "fused", "convert", "between", "sign", "move", "compare"}
FpFlags == {"NV", "DZ", "OF", "UF", "NX"}

ASSUME FpAssumption ==
  /\ FpRegisters \subseteq 0 .. 31
  /\ \A o \in FpOperations : /\ o.i.group \in FpGroupNames /\ o.i.p \in {"s", "d"}
                             /\ o.i.group = "between" => o.i.p = "d"
                             /\ o.i.rd \in FpRegisters /\ o.raised \subseteq FpFlags

FpHarts == {[fr |-> [r \in FpRegisters |-> [k |-> "d", v |-> Num(r % 2)]], x |-> Num(0), fs |-> "off",
             frm |-> 0, fflags |-> {}, sf |-> {}, trap |-> FALSE]}

\* One floating-point instruction; v is the value a load, move or arithmetic
\* operation produces and raised the flags SoftFloat raises.
FpStep ==
  /\ part = "fp"
  /\ \E o \in FpOperations :
       /\ hart' = ExecFp(arch, hart, o.i, o.v, o.raised)
       /\ before' = [changed |-> \/ before.changed
                                 \/ hart'.fflags # hart.fflags
                                 \/ hart'.fr # hart.fr /\ o.i.group # "load"]
  /\ UNCHANGED <<part, arch, row>>

\* Software saves the state and writes FS, frm and the flags.
FpSoftware ==
  /\ part = "fp"
  /\ \E fs \in {"off", "clean"}, frm \in FpModes :
       hart' = [hart EXCEPT !.fs = fs, !.frm = frm, !.fflags = {}]
  /\ before' = [changed |-> FALSE]
  /\ UNCHANGED <<part, arch, row>>

\* Floating-point instructions leave no SoftFloat flag for a later one to
\* report, and mark mstatus.FS dirty whenever registers or flags changed, or an
\* operating system that saves only dirty state loses them (FLW and FLD, which
\* the code leaves out, are exempt).
FpTracked ==
  part = "fp" => hart.sf = {} /\ (before.changed => hart.fs = "dirty")

-----------------------------------------------------------------------------

UnitsInit ==
  /\ \/ part = "csr" /\ row \in 0 .. 3 /\ hart \in CsrContexts
     \/ part = "mmu" /\ row = 0 /\ hart \in MmuHarts
     \/ part = "smpu" /\ row = 0 /\ hart \in SmpuCores
     \/ part = "spmp" /\ row = 0 /\ hart \in SpmpCores
     \/ part = "fp" /\ row = 0 /\ hart \in FpHarts
  /\ arch \in IF part = "fp" THEN {"RV32", "RV64"} ELSE {"RV32"}
  /\ before = IF part = "fp" THEN [changed |-> FALSE] ELSE none

MemoryStep ==
  /\ \/ part = "mmu" /\ hart' \in MmuAccess(hart)
     \/ part = "mmu" /\ hart' \in MmuChange(hart)
     \/ part = "mmu" /\ hart' \in MmuFence(hart)
     \/ part = "spmp" /\ hart' \in SpmpAccess(hart)
     \/ part = "spmp" /\ hart' \in SpmpChange(hart)
  /\ UNCHANGED <<part, arch, row, before>>

UnitsNext == MemoryStep \/ FpStep \/ FpSoftware

UnitsSpec == UnitsInit /\ [][UnitsNext]_unitVars

=============================================================================
