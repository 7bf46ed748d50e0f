-------------------------------- MODULE Smpu --------------------------------
(***************************************************************************)
(* The S-mode memory protection unit: numbered regions that either protect *)
(* a range or translate a naturally aligned one, a first level for the     *)
(* supervisor or the running guest and a second level for guests.          *)
(*                                                                         *)
(* Addresses have ADDR_BITS bits.  Attributes are subsets of {"U","R","W", *)
(* "X"}; a converted attribute is what supervisor and user may do.  A core *)
(* c has mask and regions of the three units ("s", "vs", "h"), paged       *)
(* (the address spaces whose satp is not bare), connected (vgein is not 0),*)
(* sum (the modes that may touch user regions: "s" for mstatus.sum, "vs"   *)
(* for vsstatus.sum, "h" for hstatus.vsum) and mxr (a subset of {"s","vs"})*)
(***************************************************************************)
EXTENDS Integers, Sequences, FiniteSets

CONSTANTS ADDR_BITS, SMPU_ALIGN, SMPU_NAPOT_MIN, SMPU_NAPOT_MAX

RWX == {"R", "W", "X"}

AlignDown(a, n) == a - (a % 2^n)

\* icsr_smpuaddr::checked_write: a size of 0 protects, any other is clamped.
SmpuAddr(base, n) ==
  LET size == CASE n = 0 -> 0
                [] n \in 1 .. SMPU_NAPOT_MIN - 1 -> SMPU_NAPOT_MIN
                [] n > SMPU_NAPOT_MAX -> SMPU_NAPOT_MAX
                [] OTHER -> n
  IN [n |-> size, base |-> AlignDown(base, IF size = 0 THEN SMPU_ALIGN ELSE size)]

SmpuConf(attr, size, paddr) == [attr |-> attr, size |-> size, paddr |-> AlignDown(paddr, SMPU_NAPOT_MIN)]

GetSize(conf) == conf.size * 2^SMPU_ALIGN + 2^SMPU_ALIGN - 1

\* Which ends of the access a region holds.
TranslatedMatch(r, first, last) ==
  {e \in {first, last} : e \div 2^r.addr.n = r.addr.base \div 2^r.addr.n}

-----------------------------------------------------------------------------
(* Attributes.                                                             *)

Shared(attr) ==
  CASE attr = {"W"} -> [s |-> {"R"}, u |-> {"R"}]
    [] attr = {"U", "W"} -> [s |-> {"R", "W"}, u |-> {"R", "W"}]
    [] attr = {"W", "X"} -> [s |-> {"R", "X"}, u |-> {"X"}]
    [] attr = {"U", "W", "X"} -> [s |-> {"R"}, u |-> {"R", "X"}]

IsShared(attr) == "W" \in attr /\ "R" \notin attr

ConvertAttr(c, attr, mode) ==
  LET sum == (IF mode \in {"VS", "VU"} THEN "vs" ELSE "s") \in c.sum
      rwx == attr \cap RWX
  IN CASE IsShared(attr) -> Shared(attr)
       [] ~IsShared(attr) /\ "U" \notin attr -> [s |-> rwx, u |-> {}]
       [] OTHER -> [s |-> IF sum THEN rwx \cap {"R", "W"} ELSE {}, u |-> rwx]

ConvertAttrHs(c, attr) ==
  LET rwx == attr \cap RWX
  IN IF "h" \in c.sum
     THEN CASE IsShared(attr) -> Shared(attr)
            [] ~IsShared(attr) /\ "U" \in attr -> [s |-> {}, u |-> rwx]
            [] OTHER -> [s |-> rwx, u |-> {}]
     ELSE IF "U" \in attr THEN [s |-> rwx, u |-> rwx] ELSE [s |-> rwx, u |-> {}]

-----------------------------------------------------------------------------
(* The search.  Its result is a trap, or the attributes found (none is     *)
(* <<>>) and the address the access goes to.                               *)

Searching(addr) == [trap |-> "", attr |-> <<>>, addr |-> addr]

Found(c, s, r, level, mode, addr) ==
  IF r.conf.attr \cap RWX = {} THEN s
  ELSE IF s.attr # <<>> THEN [s EXCEPT !.trap = "multiple"]
  ELSE [s EXCEPT !.attr = IF level = 1 THEN ConvertAttr(c, r.conf.attr, mode)
                          ELSE ConvertAttrHs(c, r.conf.attr),
                 !.addr = addr]

Misaligned(s, type) == [s EXCEPT !.trap = IF type = "FETCH" THEN "runtime_error" ELSE "misaligned"]

\* A test of the access's first byte only.
OneRegionFirstByte(c, s, r, acc, level, mode) ==
  LET lo == r.addr.base
      hi == (lo + GetSize(r.conf)) % 2^ADDR_BITS
  IN IF s.trap = "" /\ r.addr.n = 0 /\ lo <= acc.addr /\ acc.addr <= hi
     THEN Found(c, s, r, level, mode, s.addr) ELSE s

OneRegion(c, s, r, acc, level, mode) ==
  LET first == acc.addr
      last == (acc.addr + acc.sz - 1) % 2^ADDR_BITS
      lo == r.addr.base
      hi == (lo + GetSize(r.conf)) % 2^ADDR_BITS
      in(e) == lo <= e /\ e <= hi
      hit == TranslatedMatch(r, first, last)
      phys == AlignDown(r.conf.paddr, r.addr.n) + (first % 2^r.addr.n)
  IN CASE s.trap # "" -> s
       [] s.trap = "" /\ r.addr.n # 0 ->
            IF hit = {} \/ r.conf.attr \cap RWX = {} THEN s
            ELSE IF hit = {first, last} \/ s.attr # <<>>
                 THEN Found(c, s, r, level, mode, phys)
                 ELSE [s EXCEPT !.trap = "runtime_error"]
       [] OTHER ->
            IF first >= lo /\ last <= hi THEN Found(c, s, r, level, mode, s.addr)
            ELSE IF in(first) \/ in(last) THEN Misaligned(s, acc.type) ELSE s

FindMatchingEntry(c, unit, acc, level, mode) ==
  LET after[k \in 0 .. Len(c.regions[unit])] ==
        IF k = 0 THEN Searching(acc.addr)
        ELSE IF k \in c.mask[unit]
        THEN OneRegion(c, after[k - 1], c.regions[unit][k], acc, level, mode)
        ELSE after[k - 1]
  IN after[Len(c.regions[unit])]

\* Mutant: VS-mode has the user's rights.
AllowedVsAsUser(c, attr, acc, mode, level) ==
  LET a == IF mode = "S" THEN attr.s ELSE attr.u
      mxr == (IF level = 1 /\ mode \in {"VS", "VU"} THEN "vs" ELSE "s") \in c.mxr
  IN CASE acc.type = "FETCH" \/ acc.hlvx -> "X" \in a
       [] acc.type = "LOAD" /\ ~acc.hlvx -> "R" \in a \/ (mxr /\ "X" \in a)
       [] OTHER -> "W" \in a

AllowedForSu(c, attr, acc, mode, level) ==
  LET a == IF mode \in {"S", "VS"} THEN attr.s ELSE attr.u
      mxr == (IF level = 1 /\ mode \in {"VS", "VU"} THEN "vs" ELSE "s") \in c.mxr
  IN CASE acc.type = "FETCH" \/ acc.hlvx -> "X" \in a
       [] acc.type = "LOAD" /\ ~acc.hlvx -> "R" \in a \/ (mxr /\ "X" \in a)
       [] OTHER -> "W" \in a

-----------------------------------------------------------------------------
(* do_phy_address_check.  "pass" lets the access through, "paged" leaves   *)
(* it to the page tables, anything else is the exception.                  *)

Outcome(verdict, addr) == [verdict |-> verdict, addr |-> addr]

Searched(c, unit, acc, level, mode) ==
  LET s == FindMatchingEntry(c, unit, acc, level, mode)
  IN CASE s.trap # "" -> Outcome(s.trap, s.addr)
       [] s.trap = "" /\ s.attr = <<>> -> Outcome("fault", s.addr)
       [] OTHER -> Outcome(IF AllowedForSu(c, s.attr, acc, mode, level) THEN "pass" ELSE "fault",
                           s.addr)

Unit(level, mode) == CASE level = 2 -> "h" [] level = 1 /\ mode \in {"VS", "VU"} -> "vs" [] OTHER -> "s"

DoSmpuCheck(c, acc, level, mode) ==
  LET unit == Unit(level, mode)
  IN CASE mode = "M" \/ (level = 2 /\ mode \in {"S", "U"}) -> Outcome("pass", acc.addr)
       [] ~(mode = "M" \/ (level = 2 /\ mode \in {"S", "U"})) /\ unit \in c.paged ->
            Outcome("paged", acc.addr)
       [] OTHER ->
            IF unit = "vs" /\ ~c.connected THEN Outcome("pass", acc.addr)
            ELSE IF c.mask[unit] # {} THEN Searched(c, unit, acc, level, mode)
            ELSE Outcome(IF mode \in {"S", "VS"} THEN "pass" ELSE "fault", acc.addr)

\* Both levels, the second with the address the first leaves.
SmpuCheck(c, acc, mode) ==
  LET one == DoSmpuCheck(c, acc, 1, mode)
      two == DoSmpuCheck(c, [acc EXCEPT !.addr = one.addr], 2, mode)
  IN IF one.verdict \notin {"pass", "paged"} THEN one
     ELSE IF two.verdict \notin {"pass", "paged"} THEN two
     ELSE Outcome(IF "paged" \in {one.verdict, two.verdict} THEN "paged" ELSE "pass", two.addr)
=============================================================================
