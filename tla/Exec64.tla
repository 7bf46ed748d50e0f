------------------------------- MODULE Exec64 -------------------------------
(***************************************************************************)
(* exec_step of the RV64 core (core/rv64/iss.cpp).  Where its code is that *)
(* of the RV32 core on wider registers the operator of Exec is used, with  *)
(* XLEN the width of an RV64 register.  It has no guests, reads CSRs       *)
(* without telling set_csr_value, and adds the word and double word        *)
(* instructions.                                                           *)
(***************************************************************************)
EXTENDS Exec

AluImmediate64(name, a, imm) == AluImmediate(name, a, imm)
AluRegister64(name, a, b) == AluRegister(name, a, b)
AluShift64(name, a, shamt) == AluShift(name, a, shamt)
Mul64(name, a, b) == Mul(name, a, b)
Div64(name, a, b) == DivOf(name, a, b, XLEN)
ExecUpper64(s, i) == ExecUpper(s, i)
ExecJump64(s, i) == ExecJump(s, i)
ExecBranch64(s, i) == ExecBranch(s, i)
ExecLoad64(s, i) == ExecLoad(s, i)
ExecStore64(s, i) == ExecStore(s, i)
ExecCsr64(s, i) == ExecCsr(s, i)

\* The word operations: on the lower half of the registers, the result sign
\* extended.  shamt_w has one bit less.
WordOf(name) ==
  [ADDW |-> "ADD", SUBW |-> "SUB", ADDIW |-> "ADD", SLLW |-> "SLL", SLLIW |-> "SLL",
   SRLW |-> "SRL", SRLIW |-> "SRL", SRAW |-> "SRA", SRAIW |-> "SRA"][name]

\* The sign is taken from the register, not from the word.
AluWordShifted(name, a, b) ==
  LET wa == Us(a, WORD)  n == b % WORD  f == WordOf(name)
  IN CASE f = "ADD" -> SExt(a + b, WORD)
       [] f = "SUB" -> SExt(a - b, WORD)
       [] f = "SLL" -> SExt(wa * 2^n, WORD)
       [] f = "SRL" -> SExt(wa \div 2^n, WORD)
       [] f = "SRA" -> SExt(Sg(a, XLEN) \div 2^n, WORD)
AluWord(name, a, b) ==
  LET wa == Us(a, WORD)  n == b % WORD  f == WordOf(name)
  IN CASE f = "ADD" -> SExt(a + b, WORD)
       [] f = "SUB" -> SExt(a - b, WORD)
       [] f = "SLL" -> SExt(wa * 2^n, WORD)
       [] f = "SRL" -> SExt(wa \div 2^n, WORD)
       [] f = "SRA" -> SExt(Sg(wa, WORD) \div 2^n, WORD)

MulDivWord(name, a, b) ==
  LET wa == Us(a, WORD)  wb == Us(b, WORD)
  IN CASE name = "MULW" -> SExt(Sg(a, XLEN) * Sg(b, XLEN), WORD)
       [] name = "DIVW" -> SExt(DivOf("DIV", wa, wb, WORD), WORD)
       [] name = "DIVUW" -> SExt(DivOf("DIVU", wa, wb, WORD), WORD)
       [] name = "REMW" -> SExt(DivOf("REM", wa, wb, WORD), WORD)
       [] name = "REMUW" -> SExt(DivOf("REMU", wa, wb, WORD), WORD)

\* LR_W, SC_W and the AMOs on words, then their double word forms.
ExecAtomicWord(s, i, operation) ==
  CASE operation = "LR" -> LoadReserved(s, i, 4)
    [] operation = "SC" -> StoreConditional(s, i, 4)
    [] operation \in AmoNames -> Amo(s, i, operation, 4)
ExecAtomicDouble(s, i, operation) ==
  CASE operation = "LR" -> LoadReserved(s, i, 8)
    [] operation = "SC" -> StoreConditional(s, i, 8)
    [] operation \in AmoNames -> Amo(s, i, operation, 8)

\* No guest levels; a level above M, S, U cannot occur.
ExecCall64(s) ==
  Raise(s, CASE s.prv = "M" -> "ecall M" [] s.prv = "S" -> "ecall S" [] s.prv = "U" -> "ecall U")

ExecWfi64(s) ==
  LET released == [s EXCEPT !.locked = FALSE]
  IN IF (s.prv = "S" /\ "TW" \in s.tvx) \/ s.prv = "U" THEN Raise(released, "illegal")
     ELSE released
ExecSfence64(s) == IF s.prv = "S" /\ "TVM" \in s.tvx THEN Raise(s, "illegal") ELSE s

AluWordNames == {"ADDW", "SUBW", "SLLW", "SRLW", "SRAW"}
AluWordImmediateNames == {"ADDIW", "SLLIW", "SRLIW", "SRAIW"}
MulDivWordNames == {"MULW", "DIVW", "DIVUW", "REMW", "REMUW"}
AtomicNames == AmoNames \cup {"LR", "SC"}

\* Atomics are named by operation, the number of bytes is i.imm.
Execute64(s, i) ==
  LET a == s.regs[i.rs1]  b == s.regs[i.rs2]
  IN CASE i.name \in ImmediateNames -> Write(s, i.rd, AluImmediate64(i.name, a, i.imm))
       [] i.name \in RegisterNames -> Write(s, i.rd, AluRegister64(i.name, a, b))
       [] i.name \in ShiftNames -> Write(s, i.rd, AluShift64(i.name, a, i.imm))
       [] i.name \in MulNames -> Write(s, i.rd, Mul64(i.name, a, b))
       [] i.name \in DivNames -> Write(s, i.rd, Div64(i.name, a, b))
       [] i.name \in AluWordNames -> Write(s, i.rd, AluWord(i.name, a, b))
       [] i.name \in AluWordImmediateNames -> Write(s, i.rd, AluWord(i.name, a, i.imm))
       [] i.name \in MulDivWordNames -> Write(s, i.rd, MulDivWord(i.name, a, b))
       [] i.name \in {"LUI", "AUIPC"} -> ExecUpper64(s, i)
       [] i.name \in {"JAL", "JALR"} -> ExecJump64(s, i)
       [] i.name \in BranchNames -> ExecBranch64(s, i)
       [] i.name \in LoadNames \cup {"LD", "LWU"} -> ExecLoad64(s, i)
       [] i.name \in StoreNames \cup {"SD"} -> ExecStore64(s, i)
       [] i.name \in CsrNames -> ExecCsr64(s, i)
       [] i.name \in AtomicNames /\ i.imm = 4 -> ExecAtomicWord(s, i, i.name)
       [] i.name \in AtomicNames /\ i.imm = 8 -> ExecAtomicDouble(s, i, i.name)
       [] i.name = "FENCE" -> s
       [] i.name = "ECALL" -> ExecCall64(s)
       [] i.name = "WFI" -> ExecWfi64(s)
       [] i.name = "SFENCE_VMA" -> ExecSfence64(s)
       [] i.name = "UNDEF" -> Raise(s, "illegal")

RunStep64(s, i, size) ==
  LET fetched == [s EXCEPT !.last_pc = s.pc, !.pc = Reg(s.pc + size), !.trap = ""]
      done == Execute64(fetched, i)
      left == IF done.trap = "" THEN done ELSE [done EXCEPT !.pc = done.last_pc]
  IN [left EXCEPT !.regs[0] = 0]
=============================================================================
