------------------------------ MODULE MCMemory ------------------------------
(***************************************************************************)
(* What the units of a hart are examined with: page tables of two levels   *)
(* with a two entry TLB, two SMPU regions, two SPMP entries, CSR contexts  *)
(* that differ in a few fields at a time, and floating-point instructions  *)
(* of every group.                                                         *)
(***************************************************************************)
EXTENDS Units

Pte(flags, ppn) == [flags |-> flags, ppn |-> ppn]

SamplePtes ==
  {Pte({}, 0), Pte({"V"}, 1), Pte({"V", "R", "W", "U"}, 2), Pte({"V", "X"}, 3),
   Pte({"V", "R", "X", "U", "A"}, 4), Pte({"V", "W"}, 5), Pte({"V", "R", "W", "A", "D"}, 6)}

SamplePteAddrs == {<<0, 0>>, <<1, 0>>}

SamplePageTables ==
  {[at \in PteAddresses |->
      CASE at = <<0, 0>> -> root [] at = <<0, 1>> -> Pte({"V", "R", "W", "U"}, 2)
        [] at = <<1, 0>> -> low [] OTHER -> Pte({"V", "R", "W"}, 7)] :
     root \in {Pte({"V"}, 1), Pte({"V", "R", "W", "X", "U"}, 4), Pte({"V", "X", "A"}, 3)},
     low \in {pte \in SamplePtes : "R" \in pte.flags \/ "X" \in pte.flags}}

-----------------------------------------------------------------------------

SmpuGeometries == {<<0, 0, 0, 0>>, <<8, 0, 1, 0>>, <<4, 0, 0, 0>>, <<14, 0, 1, 0>>, <<4, 2, 0, 8>>,
                   <<0, 3, 0, 8>>}
SmpuAttrs == {{}, {"R"}, {"R", "W"}, {"X"}, {"U", "R", "W", "X"}, {"U", "R"}, {"W"}, {"U", "W"},
              {"W", "X"}, {"U", "W", "X"}}

SmpuRegions(attrs) ==
  {[addr |-> SmpuAddr(g[1], g[2]), conf |-> SmpuConf(attr, g[3], g[4])] :
     g \in SmpuGeometries, attr \in attrs}

SmpuStatus ==
  {[sum |-> {}, mxr |-> {}, connected |-> TRUE, open |-> {}],
   [sum |-> {"s", "vs"}, mxr |-> {"s"}, connected |-> TRUE, open |-> {"h"}],
   [sum |-> {"h"}, mxr |-> {"vs"}, connected |-> TRUE, open |-> {}],
   [sum |-> {"vs"}, mxr |-> {}, connected |-> FALSE, open |-> {"s"}]}

SampleSmpuCores ==
  {[regions |-> [u \in {"s", "vs", "h"} |-> <<one, two>>],
    mask |-> [u \in {"s", "vs", "h"} |-> IF u \in status.open THEN {} ELSE live],
    paged |-> {}, connected |-> status.connected, sum |-> status.sum, mxr |-> status.mxr] :
     one \in SmpuRegions(SmpuAttrs), two \in SmpuRegions({{}, {"R", "W"}, {"U", "R"}}),
     live \in {{1}, {1, 2}}, status \in SmpuStatus}

SampleSmpuAccesses ==
  {[addr |-> a, sz |-> 2, type |-> "FETCH", hlvx |-> FALSE] : a \in {0, 1, 3, 4, 5, 7, 14}}
  \cup {[addr |-> a, sz |-> sz, type |-> t, hlvx |-> h] :
          a \in {0, 4, 6, 14}, sz \in {1, 2}, t \in {"LOAD"}, h \in BOOLEAN}
  \cup {[addr |-> a, sz |-> 2, type |-> "STORE", hlvx |-> FALSE] : a \in {0, 2, 4, 6, 14}}

-----------------------------------------------------------------------------

SpmpEntry(a, addr, perm) == [a |-> a, addr |-> addr, perm |-> perm, on |-> TRUE]

SampleSpmpEntries ==
  {SpmpEntry("OFF", 0, {}), SpmpEntry("NA4", 1, {"R"}), SpmpEntry("NAPOT", 1, {"R", "W"}),
   SpmpEntry("TOR", 3, {"S", "R", "X"}), SpmpEntry("NAPOT", 4, {"W"}), SpmpEntry("TOR", 6, {"R"})}

SampleSpmpTables == {<<one, two>> : one \in SampleSpmpEntries,
                                    two \in {e \in SampleSpmpEntries : e.addr > 3}}

SampleSpmpAccesses == {<<first, first + more>> : first \in 0 .. 5, more \in {0, 1}}

-----------------------------------------------------------------------------

SampleCsrContexts ==
  LET base == [prv |-> "M", vgein |-> 1, vti |-> FALSE, stce |-> {"m", "h"}, tvm |-> FALSE,
               injected |-> FALSE, mcounteren |-> 0 .. 31, scounteren |-> {0}, select |-> \h80,
               mask |-> {}]
  IN {[base EXCEPT !.prv = p, !.vgein = g, !.select = s] :
        p \in Prvs, g \in {0, 1}, s \in {\h30, \h3E, \h6D, \hFE, \h13C, \h180}}
     \cup {[base EXCEPT !.prv = p, !.vti = t, !.stce = e, !.tvm = m] :
             p \in Prvs, t \in BOOLEAN, e \in SUBSET {"m", "h"}, m \in BOOLEAN}
     \cup {[base EXCEPT !.prv = p, !.injected = i, !.mcounteren = c, !.select = s, !.mask = {1}] :
             p \in Prvs, i \in BOOLEAN, c \in {{}, {1}}, s \in {\h80, \h100}}

-----------------------------------------------------------------------------

FpGroups ==
  {[group |-> "load", name |-> "FL"], [group |-> "arithmetic", name |-> "FADD"],
   [group |-> "minmax", name |-> "FMIN"], [group |-> "fused", name |-> "FNMADD"],
   [group |-> "convert", name |-> "TO_INT"], [group |-> "convert", name |-> "TO_FP"],
   [group |-> "between", name |-> "FCVT"], [group |-> "sign", name |-> "FSGNJN"],
   [group |-> "move", name |-> "TO_FP"], [group |-> "move", name |-> "FCLASS"],
   [group |-> "compare", name |-> "FLT"]}

FpInstructions ==
  {[group |-> g.group, name |-> g.name, p |-> p, to |-> IF p = "d" THEN "s" ELSE "d", rm |-> rm,
    rd |-> rd, rs1 |-> 0, rs2 |-> 1, rs3 |-> 1] :
     g \in FpGroups, p \in {"s", "d"}, rm \in {0, 4, 7}, rd \in {0, 1}}

SampleFpOperations ==
  {o \in [i : FpInstructions, v : {Num(-1), NaN(0)}, raised : {{}, {"NX"}}] :
     /\ o.i.group # "arithmetic" => o.i.rm = 0
     /\ o.i.group \notin {"arithmetic", "compare", "sign"} => o.i.rd = 1
     /\ o.i.group \in {"sign", "load", "move"} => o.raised = {}
     /\ o.i.group = "between" => o.i.p = "d"
     /\ o.i.group \in {"compare", "sign", "minmax", "fused"} => o.v = NaN(0)}
=============================================================================
