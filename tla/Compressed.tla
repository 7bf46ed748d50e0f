----------------------------- MODULE Compressed -----------------------------
(***************************************************************************)
(* Compressed instructions (core/common/instr.cpp): a 16-bit word is       *)
(* classified (decode_compressed) and replaced by the 32-bit word of the   *)
(* instruction it stands for (expand_compressed, InstructionFactory); the  *)
(* executing switch then takes registers and immediates from that word.    *)
(***************************************************************************)
EXTENDS Decode

\* BIT_SLICE, BIT_SINGLE_P1 and EXTRACT_SIGN_BIT
Slice(n, upper, lower) == (n \div 2^lower) % 2^(upper - lower + 1)
Bit(n, pos) == Slice(n, pos, pos)
SignBit(n, pos, newPos) == -(Bit(n, pos) * 2^newPos)

Quadrant(c) == Slice(c, 1, 0)
COpcode(c) == Slice(c, 15, 13)
CRd(c) == Slice(c, 11, 7)
CRdSmall(c) == Slice(c, 9, 7) + 8
CRs2(c) == Slice(c, 6, 2)
CRs2Small(c) == Slice(c, 4, 2) + 8
CImm(c) == Slice(c, 6, 2) + SignBit(c, 12, 5)
CUimm(c) == Slice(c, 6, 2) + 32 * Bit(c, 12)

C_ADDI4SPN_NZUIMM(n) ==
  16 * Slice(n, 12, 11) + 64 * Slice(n, 10, 7) + 4 * Bit(n, 6) + 8 * Bit(n, 5)
C_LW_UIMM(n) == 8 * Slice(n, 12, 10) + 4 * Bit(n, 6) + 64 * Bit(n, 5)
C_LD_UIMM(n) == 8 * Slice(n, 12, 10) + 64 * Slice(n, 6, 5)

\* Bit 6 copied to both places.
C_JAL_IMM_Copied(n) ==
  SignBit(n, 12, 11) + 16 * Bit(n, 11) + 256 * Slice(n, 10, 9) + 1024 * Bit(n, 8)
  + 64 * Bit(n, 6) + 128 * Bit(n, 6) + 2 * Slice(n, 5, 3) + 32 * Bit(n, 2)
C_JAL_IMM(n) ==
  SignBit(n, 12, 11) + 16 * Bit(n, 11) + 256 * Slice(n, 10, 9) + 1024 * Bit(n, 8)
  + 64 * Bit(n, 7) + 128 * Bit(n, 6) + 2 * Slice(n, 5, 3) + 32 * Bit(n, 2)
C_ADDI16SP_NZIMM(n) ==
  SignBit(n, 12, 9) + 16 * Bit(n, 6) + 64 * Bit(n, 5) + 128 * Slice(n, 4, 3)
  + 32 * Bit(n, 2)
\* in units of 2^12, the lowest bit it sets
C_LUI_NZIMM(n) == SignBit(n, 12, 5) + Slice(n, 6, 2)
C_BRANCH_IMM(n) ==
  SignBit(n, 12, 8) + 8 * Slice(n, 11, 10) + 64 * Slice(n, 6, 5)
  + 2 * Slice(n, 4, 3) + 32 * Bit(n, 2)
C_LWSP_UIMM(n) == 32 * Bit(n, 12) + 4 * Slice(n, 6, 4) + 64 * Slice(n, 3, 2)
C_SWSP_UIMM(n) == 4 * Slice(n, 12, 9) + 64 * Slice(n, 8, 7)
C_LDSP_UIMM(n) == 32 * Bit(n, 12) + 8 * Slice(n, 6, 5) + 64 * Slice(n, 4, 2)
C_SDSP_UIMM(n) == 8 * Slice(n, 12, 10) + 64 * Slice(n, 9, 7)

-----------------------------------------------------------------------------
(* InstructionFactory, one operator per format.                            *)

RWord(op, f3, f7, rd, rs1, rs2) ==
  [op |-> op, f3 |-> f3, f7 |-> f7, rd |-> rd, rs1 |-> rs1, rs2 |-> rs2]

IWord(op, f3, rd, rs1, imm) ==
  RWord(op, f3, Slice(imm % 4096, 11, 5), rd, rs1, imm % 32)

SWord(op, f3, rs1, rs2, imm) ==
  RWord(op, f3, Slice(imm % 4096, 11, 5), imm % 32, rs1, rs2)

\* shamt & 63: its highest bit falls into funct7
ShiftWord(f3, f7, rd, rs1, shamt) ==
  RWord(19, f3, f7 + shamt \div 32, rd, rs1, shamt % 32)

BWord(f3, rs1, rs2, imm) ==
  LET m == imm % 8192
  IN RWord(99, f3, 64 * Bit(m, 12) + Slice(m, 10, 5),
           2 * Slice(m, 4, 1) + Bit(m, 11), rs1, rs2)

JWord(rd, imm) ==
  LET m == imm % 2^21
  IN RWord(111, Slice(m, 14, 12), 64 * Bit(m, 20) + Slice(m, 10, 5), rd,
           Slice(m, 19, 15), 2 * Slice(m, 4, 1) + Bit(m, 11))

UWord(rd, imm20) ==
  LET m == imm20 % 2^20
  IN RWord(55, Slice(m, 2, 0), Slice(m, 19, 13), rd, Slice(m, 7, 3), Slice(m, 12, 8))

-----------------------------------------------------------------------------

DecodeQuadrant0(c, arch) ==
  CASE COpcode(c) = 0 -> IF c = 0 THEN "C_Illegal" ELSE "C_ADDI4SPN"
    [] COpcode(c) = 3 -> IF arch = "RV32" THEN "C_FLW" ELSE "C_LD"
    [] COpcode(c) = 7 -> IF arch = "RV32" THEN "C_FSW" ELSE "C_SD"
    [] OTHER -> Case(1 :> "C_FLD" @@ 2 :> "C_LW" @@ 4 :> "C_Reserved"
                     @@ 5 :> "C_FSD" @@ 6 :> "C_SW", COpcode(c))

DecodeQuadrant1(c, arch) ==
  CASE COpcode(c) = 0 -> IF c = 1 THEN "C_NOP" ELSE "C_ADDI"
    [] COpcode(c) = 1 -> IF arch = "RV32" THEN "C_JAL" ELSE "C_ADDIW"
    [] COpcode(c) = 3 -> IF CRd(c) = 2 THEN "C_ADDI16SP" ELSE "C_LUI"
    [] COpcode(c) = 4 ->
         CASE Slice(c, 11, 10) < 3 -> At(<<"C_SRLI", "C_SRAI", "C_ANDI">>, Slice(c, 11, 10))
           [] Slice(c, 11, 10) = 3 /\ Bit(c, 12) = 1 ->
                At(<<"C_SUBW", "C_ADDW", "C_Reserved", "C_Reserved">>, Slice(c, 6, 5))
           [] OTHER -> At(<<"C_SUB", "C_XOR", "C_OR", "C_AND">>, Slice(c, 6, 5))
    [] OTHER -> Case(2 :> "C_LI" @@ 5 :> "C_J" @@ 6 :> "C_BEQZ" @@ 7 :> "C_BNEZ", COpcode(c))

DecodeQuadrant2(c, arch) ==
  CASE COpcode(c) = 3 -> IF arch = "RV32" THEN "C_FLWSP" ELSE "C_LDSP"
    [] COpcode(c) = 7 -> IF arch = "RV32" THEN "C_FSWSP" ELSE "C_SDSP"
    [] COpcode(c) = 4 /\ Bit(c, 12) = 1 ->
         CASE CRd(c) = 0 -> "C_EBREAK"
           [] CRd(c) # 0 /\ CRs2(c) # 0 -> "C_ADD"
           [] OTHER -> "C_JALR"
    [] COpcode(c) = 4 /\ Bit(c, 12) = 0 -> IF CRs2(c) # 0 THEN "C_MV" ELSE "C_JR"
    [] OTHER -> Case(0 :> "C_SLLI" @@ 1 :> "C_FLDSP" @@ 2 :> "C_LWSP"
                     @@ 5 :> "C_FSDSP" @@ 6 :> "C_SWSP", COpcode(c))

DecodeCompressed(c, arch) ==
  CASE Quadrant(c) = 0 -> DecodeQuadrant0(c, arch)
    [] Quadrant(c) = 1 -> DecodeQuadrant1(c, arch)
    [] Quadrant(c) = 2 -> DecodeQuadrant2(c, arch)

\* Words expand_compressed answers with UNDEF.
Unexpanded(c, op, arch) ==
  \/ op \in {"C_Illegal", "C_Reserved"}
  \/ op = "C_ADDI4SPN" /\ C_ADDI4SPN_NZUIMM(c) = 0
  \/ op = "C_ADDI16SP" /\ C_ADDI16SP_NZIMM(c) = 0
  \/ op = "C_LUI" /\ C_LUI_NZIMM(c) = 0
  \/ op \in {"C_SLLI", "C_SRLI", "C_SRAI"} /\ arch = "RV32" /\ CUimm(c) > 31
  \/ op \in {"C_ADDIW", "C_LWSP", "C_LDSP", "C_JR"} /\ CRd(c) = 0

\* expand_compressed: the instruction's name and its word.
ExpandAlu(c, op) ==
  LET rd == CRd(c)  rds == CRdSmall(c)  rs2s == CRs2Small(c)
  IN CASE op = "C_NOP" -> <<"ADD", RWord(51, 0, 0, 0, 0, 0)>>
       [] op = "C_ADD" -> <<"ADD", RWord(51, 0, 0, rd, rd, CRs2(c))>>
       [] op = "C_MV" -> <<"ADD", RWord(51, 0, 0, rd, 0, CRs2(c))>>
       [] op = "C_AND" -> <<"AND", RWord(51, 7, 0, rds, rds, rs2s)>>
       [] op = "C_OR" -> <<"OR", RWord(51, 6, 0, rds, rds, rs2s)>>
       [] op = "C_XOR" -> <<"XOR", RWord(51, 4, 0, rds, rds, rs2s)>>
       [] op = "C_SUB" -> <<"SUB", RWord(51, 0, 32, rds, rds, rs2s)>>
       [] op = "C_ADDW" -> <<"ADDW", RWord(59, 0, 0, rds, rds, rs2s)>>
       [] op = "C_SUBW" -> <<"SUBW", RWord(59, 0, 32, rds, rds, rs2s)>>

ExpandImmediate(c, op) ==
  LET rd == CRd(c)  rds == CRdSmall(c)
  IN CASE op = "C_ADDI4SPN" -> <<"ADDI", IWord(19, 0, CRs2Small(c), 2, C_ADDI4SPN_NZUIMM(c))>>
       [] op = "C_ADDI" -> <<"ADDI", IWord(19, 0, rd, rd, CImm(c))>>
       [] op = "C_ADDIW" -> <<"ADDIW", IWord(19, 0, rd, rd, CImm(c))>>
       [] op = "C_LI" -> <<"ADDI", IWord(19, 0, rd, 0, CImm(c))>>
       [] op = "C_ADDI16SP" -> <<"ADDI", IWord(19, 0, 2, 2, C_ADDI16SP_NZIMM(c))>>
       [] op = "C_LUI" -> <<"LUI", UWord(rd, C_LUI_NZIMM(c))>>
       [] op = "C_SLLI" -> <<"SLLI", ShiftWord(1, 0, rd, rd, CUimm(c))>>
       [] op = "C_SRLI" -> <<"SRLI", ShiftWord(5, 0, rds, rds, CUimm(c))>>
       [] op = "C_SRAI" -> <<"SRAI", ShiftWord(5, 32, rds, rds, CUimm(c))>>
       [] op = "C_ANDI" -> <<"ANDI", IWord(19, 7, rds, rds, CImm(c))>>

ExpandMemory(c, op) ==
  LET rd == CRd(c)  rds == CRdSmall(c)  rs2 == CRs2(c)  rs2s == CRs2Small(c)
  IN CASE op = "C_LW" -> <<"LW", IWord(3, 2, rs2s, rds, C_LW_UIMM(c))>>
       [] op = "C_LD" -> <<"LD", IWord(3, 3, rs2s, rds, C_LD_UIMM(c))>>
       [] op = "C_FLW" -> <<"FLW", IWord(7, 2, rs2s, rds, C_LW_UIMM(c))>>
       [] op = "C_FLD" -> <<"FLD", IWord(7, 3, rs2s, rds, C_LD_UIMM(c))>>
       [] op = "C_SW" -> <<"SW", SWord(35, 2, rds, rs2s, C_LW_UIMM(c))>>
       [] op = "C_SD" -> <<"SD", SWord(35, 3, rds, rs2s, C_LD_UIMM(c))>>
       [] op = "C_FSW" -> <<"FSW", SWord(39, 2, rds, rs2s, C_LW_UIMM(c))>>
       [] op = "C_FSD" -> <<"FSD", SWord(39, 3, rds, rs2s, C_LD_UIMM(c))>>
       [] op = "C_LWSP" -> <<"LW", IWord(3, 2, rd, 2, C_LWSP_UIMM(c))>>
       [] op = "C_LDSP" -> <<"LD", IWord(3, 3, rd, 2, C_LDSP_UIMM(c))>>
       [] op = "C_FLWSP" -> <<"FLW", IWord(7, 2, rd, 2, C_LWSP_UIMM(c))>>
       [] op = "C_FLDSP" -> <<"FLD", IWord(7, 3, rd, 2, C_LDSP_UIMM(c))>>
       [] op = "C_SWSP" -> <<"SW", SWord(35, 2, 2, rs2, C_SWSP_UIMM(c))>>
       [] op = "C_SDSP" -> <<"SD", SWord(35, 3, 2, rs2, C_SDSP_UIMM(c))>>
       [] op = "C_FSWSP" -> <<"FSW", SWord(39, 2, 2, rs2, C_SWSP_UIMM(c))>>
       [] op = "C_FSDSP" -> <<"FSD", SWord(39, 3, 2, rs2, C_SDSP_UIMM(c))>>

ExpandJump(c, op) ==
  CASE op = "C_JAL" -> <<"JAL", JWord(1, C_JAL_IMM(c))>>
    [] op = "C_J" -> <<"JAL", JWord(0, C_JAL_IMM(c))>>
    [] op = "C_BEQZ" -> <<"BEQ", BWord(0, CRdSmall(c), 0, C_BRANCH_IMM(c))>>
    [] op = "C_BNEZ" -> <<"BNE", BWord(1, CRdSmall(c), 0, C_BRANCH_IMM(c))>>
    [] op = "C_EBREAK" -> <<"EBREAK", RWord(115, 0, 0, 0, 0, 1)>>
    [] op = "C_JR" -> <<"JALR", IWord(103, 0, 0, CRd(c), 0)>>
    [] op = "C_JALR" -> <<"JALR", IWord(103, 0, 1, CRd(c), 0)>>

CAlu == {"C_NOP", "C_ADD", "C_MV", "C_AND", "C_OR", "C_XOR", "C_SUB", "C_ADDW", "C_SUBW"}
CImmediate == {"C_ADDI4SPN", "C_ADDI", "C_ADDIW", "C_LI", "C_ADDI16SP", "C_LUI",
               "C_SLLI", "C_SRLI", "C_SRAI", "C_ANDI"}
CJump == {"C_JAL", "C_J", "C_BEQZ", "C_BNEZ", "C_EBREAK", "C_JR", "C_JALR"}

ExpandCompressed(c, arch) ==
  LET op == DecodeCompressed(c, arch)
  IN CASE Unexpanded(c, op, arch) -> <<UNDEF, <<>>>>
       [] ~Unexpanded(c, op, arch) /\ op \in CAlu -> ExpandAlu(c, op)
       [] ~Unexpanded(c, op, arch) /\ op \in CImmediate -> ExpandImmediate(c, op)
       [] ~Unexpanded(c, op, arch) /\ op \in CJump -> ExpandJump(c, op)
       [] OTHER -> ExpandMemory(c, op)

-----------------------------------------------------------------------------
(* Immediates of a 32-bit word, sign extended (instr.h).                   *)

Signed(n, bits) == IF n >= 2^(bits - 1) THEN n - 2^bits ELSE n

I_imm(w) == Signed(32 * w.f7 + w.rs2, 12)
S_imm(w) == Signed(32 * w.f7 + w.rd, 12)
B_imm(w) == Signed(4096 * Bit(w.f7, 6) + 2048 * Bit(w.rd, 0) + 32 * Slice(w.f7, 5, 0)
                   + 2 * Slice(w.rd, 4, 1), 13)
J_imm(w) == Signed(2^20 * Bit(w.f7, 6) + 2^15 * w.rs1 + 4096 * w.f3 + 2048 * Bit(w.rs2, 0)
                   + 32 * Slice(w.f7, 5, 0) + 2 * Slice(w.rs2, 4, 1), 21)
U_imm20(w) == Signed(2^13 * w.f7 + 256 * w.rs2 + 8 * w.rs1 + w.f3, 20)
Shamt(w) == 32 * Bit(w.f7, 0) + w.rs2

Imm(name, w) ==
  CASE name \in {"ADDI", "ADDIW", "ANDI", "LW", "LD", "FLW", "FLD", "JALR"} -> I_imm(w)
    [] name \in {"SW", "SD", "FSW", "FSD"} -> S_imm(w)
    [] name \in {"BEQ", "BNE"} -> B_imm(w)
    [] name = "JAL" -> J_imm(w)
    [] name = "LUI" -> U_imm20(w)
    [] name \in {"SLLI", "SRLI", "SRAI"} -> Shamt(w)
    [] OTHER -> 0
=============================================================================
