-------------------------------- MODULE Spmp --------------------------------
(***************************************************************************)
(* The S-mode physical memory protection: numbered entries over words of   *)
(* memory, and a cache of the last region each mode and kind of access was *)
(* granted.                                                                *)
(*                                                                         *)
(* Addresses are word numbers (the unit drops the two low bits) of         *)
(* WORD_BITS bits.  A core p has entries (a sequence of [a, perm, addr,    *)
(* on], perm a subset of {"S","R","W","X"}), sum, prv, mprv, mpp and cache.*)
(* Accesses of the V modes pass before anything is looked at and are left  *)
(* out.                                                                    *)
(***************************************************************************)
EXTENDS Integers, Sequences, FiniteSets

CONSTANT WORD_BITS

SpmpModes == {"M", "S", "U"}

NoRegion == <<>>

Matching(first, last, lo, hi) ==
  CASE first >= lo /\ last < hi -> "yes"
    [] ~(first >= lo /\ last < hi) /\ \E e \in {first, last} : e >= lo /\ e < hi -> "partial"
    [] OTHER -> "no"

LeastZero(v) == CHOOSE j \in 0 .. WORD_BITS :
                  (v \div 2^j) % 2 = 0 /\ \A k \in 0 .. j - 1 : (v \div 2^k) % 2 = 1

\* The words an entry names, as <<first, first behind>>.
Region(p, i) ==
  LET e == p.entries[i]
      size == 2^(LeastZero(e.addr) + 1)
  IN CASE e.a = "TOR" -> <<IF i = 1 THEN 0 ELSE p.entries[i - 1].addr % 2^WORD_BITS,
                           e.addr % 2^WORD_BITS>>
       [] e.a = "NAPOT" -> <<e.addr - (e.addr % size), e.addr - (e.addr % size) + size>>
       [] e.a = "NA4" -> <<e.addr % 2^WORD_BITS, (e.addr % 2^WORD_BITS) + 1>>

Live(p) == {i \in DOMAIN p.entries : p.entries[i].a # "OFF" /\ p.entries[i].on
                                     /\ Region(p, i)[1] < Region(p, i)[2]}

\* The entry that decides: <<>> when none matches, "partial" when it matches a part.
FindEntry(p, first, last) ==
  LET hit == {i \in Live(p) : Matching(first, last, Region(p, i)[1], Region(p, i)[2]) # "no"}
      i == CHOOSE i \in hit : \A j \in hit : i <= j
  IN IF hit = {} THEN <<>>
     ELSE <<Matching(first, last, Region(p, i)[1], Region(p, i)[2]), i>>

Rwx(perm, type) == CASE type = "FETCH" -> "X" \in perm [] type = "LOAD" -> "R" \in perm
                     [] type = "STORE" -> "W" \in perm

\* The mode here is the hart's own, whatever mode the access has.
SpmpAllowed(p, perm, type) ==
  LET rwx == perm \ {"S"}
  IN IF "S" \notin perm
     THEN CASE rwx = {"W", "X"} -> type # "FETCH"
            [] rwx = {"W"} -> IF p.prv = "S" THEN type # "FETCH" ELSE type = "LOAD"
            [] OTHER -> Rwx(perm, type) /\ (p.prv = "S" => p.sum /\ type # "FETCH")
     ELSE CASE rwx = {"R", "W", "X"} -> type = "LOAD"
            [] rwx = {"W", "X"} -> IF p.prv = "U" THEN type = "FETCH" ELSE type # "STORE"
            [] rwx = {"W"} -> type = "FETCH"
            [] OTHER -> p.prv # "U" /\ Rwx(perm, type)

\* The mode of an access.
GetMemMode(p, type) == IF type # "FETCH" /\ p.mprv THEN p.mpp ELSE p.prv

\* The verdict of the entries.
Verdict(p, mode, first, last, type) ==
  LET e == FindEntry(p, first, last)
  IN CASE e = <<>> -> mode = "S"
       [] e # <<>> /\ e[1] = "partial" -> FALSE
       [] OTHER -> SpmpAllowed(p, p.entries[e[2]].perm, type)

CacheHit(p, mode, first, last, type) ==
  LET r == p.cache[mode][type] IN r # NoRegion /\ first >= r[1] /\ last < r[2]

EmptyCache == [m \in SpmpModes |-> [t \in {"FETCH", "LOAD", "STORE"} |-> NoRegion]]

ClearSpmpCache(p) == [p EXCEPT !.cache = EmptyCache]

\* do_phy_address_check with satp bare: the new state, with the answer.
DoSpmpCheck(p, mode, first, last, type) ==
  LET e == FindEntry(p, first, last)
      granted == Verdict(p, mode, first, last, type)
  IN IF mode = "M" \/ CacheHit(p, mode, first, last, type) THEN [p EXCEPT !.granted = TRUE]
     ELSE IF granted /\ e # <<>>
     THEN [p EXCEPT !.granted = TRUE, !.cache[mode][type] = Region(p, e[2])]
     ELSE [p EXCEPT !.granted = granted]

\* A write that leaves the cache alone.
WriteSpmpKeeps(p, i, entry) == [p EXCEPT !.entries[i] = entry]

\* Writes of spmpcfg, spmpaddr and spmpswitch.
WriteSpmp(p, i, entry) == [ClearSpmpCache(p) EXCEPT !.entries[i] = entry]
=============================================================================
