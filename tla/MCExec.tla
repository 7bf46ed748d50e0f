------------------------------- MODULE MCExec -------------------------------
(***************************************************************************)
(* Single instructions of both cores, from harts that differ in the two    *)
(* source registers and in one thing the instruction depends on.           *)
(***************************************************************************)
EXTENDS Integers, Sequences

R32 == INSTANCE Exec WITH BYTE <- 1, XLEN <- 4, HasC <- FALSE
R64 == INSTANCE Exec64 WITH BYTE <- 1, XLEN <- 8, HasC <- FALSE

Width(arch) == IF arch = "RV32" THEN 4 ELSE 8

-----------------------------------------------------------------------------
(* Arithmetic against its definition.                                      *)

SampleB(arch) ==
  IF arch = "RV32" THEN 0 .. 15
  ELSE {0, 1, 2, 3, 7, 8, 9, 15, 16, 17, 100, 127, 128, 129, 240, 248, 254, 255}

SampleA(arch) == IF arch = "RV32" THEN 0 .. 15 ELSE SampleB("RV64") \cup {5, 77, 136, 200}

BaseExact(arch, a, b) ==
  LET w == Width(arch)
      mul(n) == IF arch = "RV32" THEN R32!Mul(n, a, b) ELSE R64!Mul64(n, a, b)
      div(n) == IF arch = "RV32" THEN R32!Div(n, a, b) ELSE R64!Div64(n, a, b)
      alu(n) == IF arch = "RV32" THEN R32!AluRegister(n, a, b) ELSE R64!AluRegister64(n, a, b)
      taken(n) == IF arch = "RV32" THEN R32!Taken(n, a, b) ELSE R64!Taken(n, a, b)
  IN /\ R32!ProductExact(a, b, mul("MUL"), mul("MULH"), mul("MULHU"), mul("MULHSU"), w)
     /\ R32!DivisionExact(a, b, div("DIV"), div("REM"), div("DIVU"), div("REMU"), w)
     /\ R32!ShiftExact(a, b, alu("SLL"), alu("SRL"), alu("SRA"), w)
     /\ taken("BEQ") = (alu("SUB") = 0) /\ taken("BNE") = ~taken("BEQ")
     /\ taken("BLT") = (alu("SLT") = 1) /\ taken("BGE") = ~taken("BLT")
     /\ taken("BLTU") = (alu("SLTU") = 1) /\ taken("BGEU") = ~taken("BLTU")
     /\ alu("OR") + alu("AND") = a + b /\ alu("OR") - alu("AND") = alu("XOR")

\* Word instructions see the lower halves only and sign extend.
WordExact(a, b) ==
  LET wa == a % 16  wb == b % 16
      low(n) == R64!AluWord(n, a, b) % 16
      md(n) == R64!MulDivWord(n, a, b)
  IN /\ \A n \in R64!AluWordNames : R64!AluWord(n, a, b) = R64!SExt(low(n), 4)
     /\ \A n \in R64!AluWordNames : R64!AluWord(n, a, b) = R64!AluWord(n, wa, wb)
     /\ \A n \in R64!MulDivWordNames : md(n) = R64!SExt(md(n) % 16, 4)
     /\ \A n \in {"ADD", "SUB", "SLL", "SRL", "SRA"} :
          low(CHOOSE m \in R64!AluWordNames : R64!WordOf(m) = n) = R32!AluRegister(n, wa, wb)
     /\ md("MULW") % 16 = R32!Mul("MUL", wa, wb)
     /\ R32!DivisionExact(wa, wb, md("DIVW") % 16, md("REMW") % 16, md("DIVUW") % 16,
                          md("REMUW") % 16, 4)

AmoExact(a, b) ==
  LET amo(n) == R32!AmoOf(n, a, b, 4)
      sg(n) == R32!Sg(n, 4)
  IN /\ {amo("AMOMIN"), amo("AMOMAX")} = {a, b} /\ sg(amo("AMOMIN")) <= sg(amo("AMOMAX"))
     /\ {amo("AMOMINU"), amo("AMOMAXU")} = {a, b} /\ amo("AMOMINU") <= amo("AMOMAXU")

-----------------------------------------------------------------------------
(* Harts and instructions.                                                 *)

Base(a, b) ==
  [regs |-> [r \in 0 .. 3 |-> CASE r = 1 -> a [] r = 2 -> b [] OTHER -> 0],
   mem |-> <<1, 0, 1, 1, 0, 1, 1, 0>>, pc |-> 4, last_pc |-> 0, readonly |-> FALSE,
   locked |-> FALSE, lr_addr |-> 4, csr |-> [kind |-> "writable", value |-> 5], trap |-> "",
   prv |-> "M", tvx |-> {}]

Harts(a, b) ==
  {Base(a, b), [Base(a, b) EXCEPT !.readonly = TRUE, !.locked = TRUE],
   [Base(a, b) EXCEPT !.locked = TRUE], [Base(a, b) EXCEPT !.csr.kind = "read-only"],
   [Base(a, b) EXCEPT !.csr.kind = "refused"], [Base(a, b) EXCEPT !.csr.kind = "locked"]}
  \cup {[Base(a, b) EXCEPT !.prv = p, !.tvx = t] :
          p \in {"S", "U", "VS", "VU"}, t \in {{}, {"TW", "TVM", "VTW", "VTVM", "HU"}}}

Registers == {<<3, 1, 2>>, <<1, 1, 2>>, <<2, 1, 2>>, <<0, 1, 2>>, <<3, 0, 2>>, <<1, 1, 1>>}

MemoryNames == R32!LoadNames \cup R32!StoreNames \cup R32!AmoNames \cup {"LR_W", "SC_W"}
PrivilegedNames == {"WFI", "SFENCE_VMA", "ECALL"} \cup DOMAIN R32!GuestNames

ImmediatesOf(name) ==
  CASE name \in R32!ImmediateNames -> {3, -1}
    [] name \in R32!ShiftNames -> {0, 3}
    [] name \in R32!LoadNames \cup R32!StoreNames \cup {"LD", "LWU", "SD"} -> {0, 1, -4}
    [] name \in R32!BranchNames \cup {"JAL", "JALR"} -> {2, 4, -4}
    [] name \in R64!AluWordImmediateNames -> {1}
    [] OTHER -> {0}

Instr(name, r, imm) == [name |-> name, rd |-> r[1], rs1 |-> r[2], rs2 |-> r[3], imm |-> imm]

\* What a hart that differs from Base in h's way can show.
Concerns(h, name) ==
  \/ h = Base(h.regs[1], h.regs[2])
  \/ h.locked /\ name \in MemoryNames \cup {"SD", "LR", "SC", "WFI"}
  \/ h.csr.kind # "writable" /\ name \in R32!CsrNames
  \/ h.prv # "M" /\ name \in PrivilegedNames

Names32 ==
  R32!ImmediateNames \cup R32!RegisterNames \cup R32!ShiftNames \cup R32!MulNames
  \cup R32!DivNames \cup R32!BranchNames \cup R32!CsrNames \cup MemoryNames
  \cup PrivilegedNames \cup {"LUI", "AUIPC", "JAL", "JALR", "FENCE", "UNDEF"}

Instructions32 ==
  UNION {{Instr(n, r, imm) : r \in Registers, imm \in ImmediatesOf(n)} : n \in Names32}

Names64 ==
  ((Names32 \cup {"LD", "LWU", "SD"} \cup R64!AluWordNames \cup R64!AluWordImmediateNames
    \cup R64!MulDivWordNames) \ (DOMAIN R32!GuestNames \cup R32!AmoNames \cup {"LR_W", "SC_W"}))

Instructions64 ==
  UNION {{Instr(n, r, imm) : r \in Registers, imm \in ImmediatesOf(n)} : n \in Names64}
  \cup {Instr(n, r, imm) : n \in R64!AtomicNames, r \in Registers, imm \in {4, 8}}

Step(arch, h, i) == IF arch = "RV32" THEN R32!RunStep(h, i, 4) ELSE R64!RunStep64(h, i, 4)

-----------------------------------------------------------------------------
(* What may be said of any instruction i that took hart b to hart h.       *)

\* A trap leaves memory, the CSR and the pc as the instruction found them, and
\* every register except in two cases the code has: SC announces its failure
\* before it tries the store, and a CSR is read into rd before its write is refused.
TrapIsPrecise(b, i, h) ==
  h.trap # "" =>
    /\ h.mem = b.mem /\ h.csr = b.csr /\ h.pc = b.pc
    /\ \A r \in 0 .. 3 : \/ h.regs[r] = b.regs[r]
                         \/ r = i.rd /\ i.name \in {"SC", "SC_W"}
                         \/ r = i.rd /\ i.name \in R32!CsrNames /\ b.csr.kind = "locked"

\* The destination plays no part: as into x3, which is no source.
NoAliasing(arch, b, i, h) ==
  LET fresh == Step(arch, [b EXCEPT !.regs[3] = b.regs[i.rd]], [i EXCEPT !.rd = 3])
  IN /\ <<h.mem, h.csr, h.pc, h.trap, h.locked>>
          = <<fresh.mem, fresh.csr, fresh.pc, fresh.trap, fresh.locked>>
     /\ \A r \in 0 .. 3 : h.regs[r] = CASE r = 0 -> 0
                                         [] r = i.rd /\ r # 0 -> fresh.regs[3]
                                         [] OTHER -> b.regs[r]
=============================================================================
