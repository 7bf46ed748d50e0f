-------------------------------- MODULE Mmu --------------------------------
(***************************************************************************)
(* Address translation: the page table walk, the flags it sets in the page *)
(* table, and the TLB in front of it.                                      *)
(*                                                                         *)
(* Addresses are page numbers.  A table is a page of 2^IDXBITS entries; a  *)
(* virtual page number has LEVELS * IDXBITS bits, and EXT_BITS above them  *)
(* (none in Sv32).  A hart m has mem (entries by page and index), ptbase,  *)
(* bare, sum, mxr, tlb and result (the page, or FAULT).                  *)
(***************************************************************************)
EXTENDS Integers

CONSTANTS LEVELS, IDXBITS, EXT_BITS, TLB_ENTRIES, TablePages

VPN_BITS == LEVELS * IDXBITS
Vpns == 0 .. 2^(VPN_BITS + EXT_BITS) - 1

MmuModes == {"U", "S"}
AccessTypes == {"FETCH", "LOAD", "STORE"}

\* The bits from the highest of the page number up are all the same.
CheckVaddrExtension(vpn) ==
  LET bits == vpn \div 2^(VPN_BITS - 1) IN bits = 0 \/ bits = 2^(EXT_BITS + 1) - 1

VpnField(vpn, i) == (vpn \div 2^(i * IDXBITS)) % 2^IDXBITS

PermitsType(m, f, type) ==
  CASE type = "FETCH" -> "X" \in f
    [] type = "LOAD" -> "R" \in f \/ (m.mxr /\ "X" \in f)
    [] type = "STORE" -> {"R", "W"} \subseteq f

PermitsMode(m, f, type, mode) ==
  IF "U" \in f THEN mode = "S" => type # "FETCH" /\ m.sum ELSE mode = "S"

SuperpageAligned(ppn, i) == ppn % 2^(i * IDXBITS) = 0

Touched(type) == IF type = "STORE" THEN {"A", "D"} ELSE {"A"}

FAULT == -1

Fault(m) == [m EXCEPT !.result = FAULT]

\* One level of the loop; page_fault_on_AD is false, so the flags are stored.
Leaf(m, at, i, vpn, type, mode) ==
  LET pte == m.mem[at]
  IN IF /\ PermitsType(m, pte.flags, type)
        /\ PermitsMode(m, pte.flags, type, mode)
        /\ SuperpageAligned(pte.ppn, i)
     THEN [m EXCEPT !.mem[at].flags = @ \cup Touched(type),
                    !.result = pte.ppn + (vpn % 2^(i * IDXBITS))]
     ELSE Fault(m)

\* Level by level, for every table a level may start from.
Walk(m, vpn, type, mode) ==
  LET level[i \in 0 .. LEVELS - 1] ==
        [base \in TablePages |->
           LET at == <<base, VpnField(vpn, i)>>
               f == m.mem[at].flags
           IN IF "V" \notin f \/ ("W" \in f /\ "R" \notin f) THEN Fault(m)
              ELSE IF "R" \notin f /\ "X" \notin f
              THEN IF i = 0 THEN Fault(m) ELSE level[i - 1][m.mem[at].ppn]
              ELSE Leaf(m, at, i, vpn, type, mode)]
  IN IF CheckVaddrExtension(vpn) THEN level[LEVELS - 1][m.ptbase] ELSE Fault(m)

NoEntry == [vpn |-> -1, ppn |-> -1]

TlbIdx(vpn) == vpn % TLB_ENTRIES

FlushedTlb ==
  [mode \in MmuModes |-> [type \in AccessTypes |-> [i \in 0 .. TLB_ENTRIES - 1 |-> NoEntry]]]

FlushTlb(m) == [m EXCEPT !.tlb = FlushedTlb]

TlbHit(m, vpn, type, mode) == m.tlb[mode][type][TlbIdx(vpn)].vpn = vpn

\* A TLB that does not tell loads from stores.
TranslateOneTlb(m, vpn, type, mode) ==
  IF m.bare \/ mode = "M" THEN [m EXCEPT !.result = vpn]
  ELSE IF TlbHit(m, vpn, "LOAD", mode)
  THEN [m EXCEPT !.result = m.tlb[mode]["LOAD"][TlbIdx(vpn)].ppn]
  ELSE LET w == Walk(m, vpn, type, mode)
       IN IF w.result = FAULT THEN w
          ELSE [w EXCEPT !.tlb[mode]["LOAD"][TlbIdx(vpn)] = [vpn |-> vpn, ppn |-> w.result]]

Translate(m, vpn, type, mode) ==
  IF m.bare \/ mode = "M" THEN [m EXCEPT !.result = vpn]
  ELSE IF TlbHit(m, vpn, type, mode)
  THEN [m EXCEPT !.result = m.tlb[mode][type][TlbIdx(vpn)].ppn]
  ELSE LET w == Walk(m, vpn, type, mode)
       IN IF w.result = FAULT THEN w
          ELSE [w EXCEPT !.tlb[mode][type][TlbIdx(vpn)] = [vpn |-> vpn, ppn |-> w.result]]
=============================================================================
