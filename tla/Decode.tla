------------------------------- MODULE Decode -------------------------------
(***************************************************************************)
(* Decoding of 32-bit instructions (core/common/instr.cpp).  Two tables    *)
(* describe an instruction: its mask and encoding, and its place in the    *)
(* nested switch of decode_normal, which selects a name by some fields and *)
(* then compares the word with that name's mask and encoding.              *)
(*                                                                         *)
(* A word is the record of its fields; immediates are the fields they      *)
(* occupy.                                                                 *)
(***************************************************************************)
EXTENDS Integers, Sequences, TLC

\* Field accessors; funct5, funct6 and funct2 are parts of funct7.
Field(w, f) ==
  CASE f = "f5" -> w.f7 \div 4
    [] f = "f6" -> w.f7 \div 2
    [] f = "f2" -> w.f7 % 4
    [] OTHER -> w[f]

\* Encodings: the fields an instruction's mask covers, with their values.
\* Fix gives instructions that agree in `common' their values of field f.
Fix(common, f, values) == [n \in DOMAIN values |-> common @@ (f :> values[n])]

\* RV32I.
EncodingsI ==
     Fix(<<>>, "op", [LUI |-> 55, AUIPC |-> 23, JAL |-> 111])
  @@ Fix([op |-> 99], "f3", [BEQ |-> 0, BNE |-> 1, BLT |-> 4, BGE |-> 5,
          BLTU |-> 6, BGEU |-> 7])
  @@ Fix([op |-> 3], "f3", [LB |-> 0, LH |-> 1, LW |-> 2, LBU |-> 4,
          LHU |-> 5])
  @@ Fix([op |-> 35], "f3", [SB |-> 0, SH |-> 1, SW |-> 2])
  @@ Fix([op |-> 19], "f3", [ADDI |-> 0, SLTI |-> 2, SLTIU |-> 3, XORI |-> 4,
          ORI |-> 6, ANDI |-> 7])
  @@ Fix([op |-> 19, f3 |-> 5], "f6", [SRLI |-> 0, SRAI |-> 16])
  @@ Fix([op |-> 51, f7 |-> 0], "f3", [ADD |-> 0, SLL |-> 1, SLT |-> 2,
          SLTU |-> 3, XOR |-> 4, SRL |-> 5, OR |-> 6, AND |-> 7])
  @@ Fix([op |-> 51, f7 |-> 32], "f3", [SUB |-> 0, SRA |-> 5])
  @@ Fix([op |-> 15], "f3", [FENCE |-> 0, FENCE_I |-> 1])
  @@ Fix([op |-> 115, f3 |-> 0, f7 |-> 0, rs1 |-> 0, rd |-> 0], "rs2", [
          ECALL |-> 0, EBREAK |-> 1])
  @@ Fix([op |-> 115], "f3", [CSRRW |-> 1, CSRRS |-> 2, CSRRC |-> 3,
          CSRRWI |-> 5, CSRRSI |-> 6, CSRRCI |-> 7])
  @@ [JALR |-> [op |-> 103, f3 |-> 0],
      SLLI |-> [op |-> 19, f3 |-> 1, f6 |-> 0]]

\* RV32M.
EncodingsM ==
     Fix([op |-> 51, f7 |-> 1], "f3", [MUL |-> 0, MULH |-> 1, MULHSU |-> 2,
          MULHU |-> 3, DIV |-> 4, DIVU |-> 5, REM |-> 6, REMU |-> 7])

\* RV32A and the privileged instructions.
EncodingsA ==
     Fix([op |-> 47, f3 |-> 2], "f5", [SC_W |-> 3, AMOSWAP_W |-> 1,
          AMOADD_W |-> 0, AMOXOR_W |-> 4, AMOAND_W |-> 12, AMOOR_W |-> 8,
          AMOMIN_W |-> 16, AMOMAX_W |-> 20, AMOMINU_W |-> 24,
          AMOMAXU_W |-> 28])
  @@ Fix([op |-> 115, f3 |-> 0, f7 |-> 8, rs1 |-> 0, rd |-> 0], "rs2", [
          SRET |-> 2, WFI |-> 5])
  @@ [LR_W |-> [op |-> 47, f3 |-> 2, f5 |-> 2, rs2 |-> 0],
      URET |-> [op |-> 115, f3 |-> 0, f7 |-> 0, rs2 |-> 2, rs1 |-> 0, rd |-> 0],
      MRET |-> [op |-> 115, f3 |-> 0, f7 |-> 24, rs2 |-> 2, rs1 |-> 0, rd |-> 0],
      SFENCE_VMA |-> [op |-> 115, f3 |-> 0, f7 |-> 9, rd |-> 0]]

\* The instructions RV64 adds.
EncodingsRV64 ==
     Fix([op |-> 3], "f3", [LWU |-> 6, LD |-> 3])
  @@ Fix([op |-> 27, f7 |-> 0], "f3", [SLLIW |-> 1, SRLIW |-> 5])
  @@ Fix([op |-> 59, f7 |-> 0], "f3", [ADDW |-> 0, SLLW |-> 1, SRLW |-> 5])
  @@ Fix([op |-> 59, f7 |-> 32], "f3", [SUBW |-> 0, SRAW |-> 5])
  @@ Fix([op |-> 59, f7 |-> 1], "f3", [MULW |-> 0, DIVW |-> 4, DIVUW |-> 5,
          REMW |-> 6, REMUW |-> 7])
  @@ Fix([op |-> 47, f3 |-> 3], "f5", [SC_D |-> 3, AMOSWAP_D |-> 1,
          AMOADD_D |-> 0, AMOXOR_D |-> 4, AMOAND_D |-> 12, AMOOR_D |-> 8,
          AMOMIN_D |-> 16, AMOMAX_D |-> 20, AMOMINU_D |-> 24,
          AMOMAXU_D |-> 28])
  @@ [SD |-> [op |-> 35, f3 |-> 3], ADDIW |-> [op |-> 27, f3 |-> 0],
      SRAIW |-> [op |-> 27, f3 |-> 5, f7 |-> 32],
      LR_D |-> [op |-> 47, f3 |-> 3, f5 |-> 2, rs2 |-> 0]]

\* Single precision.
EncodingsF ==
     Fix([f2 |-> 0], "op", [FMADD_S |-> 67, FMSUB_S |-> 71, FNMADD_S |-> 79,
          FNMSUB_S |-> 75])
  @@ Fix([op |-> 83], "f7", [FADD_S |-> 0, FSUB_S |-> 4, FMUL_S |-> 8,
          FDIV_S |-> 12])
  @@ Fix([op |-> 83, f7 |-> 16], "f3", [FSGNJ_S |-> 0, FSGNJN_S |-> 1,
          FSGNJX_S |-> 2])
  @@ Fix([op |-> 83, f7 |-> 20], "f3", [FMIN_S |-> 0, FMAX_S |-> 1])
  @@ Fix([op |-> 83, f7 |-> 96], "rs2", [FCVT_W_S |-> 0, FCVT_WU_S |-> 1,
          FCVT_L_S |-> 2, FCVT_LU_S |-> 3])
  @@ Fix([op |-> 83, f7 |-> 80], "f3", [FEQ_S |-> 2, FLT_S |-> 1, FLE_S |-> 0])
  @@ Fix([op |-> 83, f7 |-> 104], "rs2", [FCVT_S_W |-> 0, FCVT_S_WU |-> 1,
          FCVT_S_L |-> 2, FCVT_S_LU |-> 3])
  @@ [FLW |-> [op |-> 7, f3 |-> 2], FSW |-> [op |-> 39, f3 |-> 2],
      FSQRT_S |-> [op |-> 83, f7 |-> 44, rs2 |-> 0],
      FMV_X_W |-> [op |-> 83, f3 |-> 0, f7 |-> 112, rs2 |-> 0],
      FCLASS_S |-> [op |-> 83, f3 |-> 1, f7 |-> 112, rs2 |-> 0],
      FMV_W_X |-> [op |-> 83, f3 |-> 0, f7 |-> 120, rs2 |-> 0]]

\* Double precision.
EncodingsD ==
     Fix([f2 |-> 1], "op", [FMADD_D |-> 67, FMSUB_D |-> 71, FNMSUB_D |-> 75,
          FNMADD_D |-> 79])
  @@ Fix([op |-> 83], "f7", [FADD_D |-> 1, FSUB_D |-> 5, FMUL_D |-> 9,
          FDIV_D |-> 13])
  @@ Fix([op |-> 83, f7 |-> 17], "f3", [FSGNJ_D |-> 0, FSGNJN_D |-> 1,
          FSGNJX_D |-> 2])
  @@ Fix([op |-> 83, f7 |-> 21], "f3", [FMIN_D |-> 0, FMAX_D |-> 1])
  @@ Fix([op |-> 83, f7 |-> 81], "f3", [FEQ_D |-> 2, FLT_D |-> 1, FLE_D |-> 0])
  @@ Fix([op |-> 83, f7 |-> 97], "rs2", [FCVT_W_D |-> 0, FCVT_WU_D |-> 1,
          FCVT_L_D |-> 2, FCVT_LU_D |-> 3])
  @@ Fix([op |-> 83, f7 |-> 105], "rs2", [FCVT_D_W |-> 0, FCVT_D_WU |-> 1,
          FCVT_D_L |-> 2, FCVT_D_LU |-> 3])
  @@ [FLD |-> [op |-> 7, f3 |-> 3], FSD |-> [op |-> 39, f3 |-> 3],
      FSQRT_D |-> [op |-> 83, f7 |-> 45, rs2 |-> 0],
      FCVT_S_D |-> [op |-> 83, f7 |-> 32, rs2 |-> 1],
      FCVT_D_S |-> [op |-> 83, f7 |-> 33, rs2 |-> 0],
      FCLASS_D |-> [op |-> 83, f3 |-> 1, f7 |-> 113, rs2 |-> 0],
      FMV_X_D |-> [op |-> 83, f3 |-> 0, f7 |-> 113, rs2 |-> 0],
      FMV_D_X |-> [op |-> 83, f3 |-> 0, f7 |-> 121, rs2 |-> 0]]

\* The hypervisor extension.
EncodingsH ==
     Fix([op |-> 115, f3 |-> 4, f7 |-> 48], "rs2", [HLVB |-> 0, HLVBU |-> 1])
  @@ Fix([op |-> 115, f3 |-> 4, f7 |-> 50], "rs2", [HLVH |-> 0, HLVHU |-> 1,
          HLVXHU |-> 3])
  @@ Fix([op |-> 115, f3 |-> 4, f7 |-> 52], "rs2", [HLVW |-> 0, HLVXWU |-> 3])
  @@ Fix([op |-> 115, f3 |-> 4, rd |-> 0], "f7", [HSVB |-> 49, HSVH |-> 51,
          HSVW |-> 53])


Encodings == EncodingsI @@ EncodingsM @@ EncodingsA @@ EncodingsRV64
             @@ EncodingsF @@ EncodingsD @@ EncodingsH

\* SLLI_32, SRLI_32 and SRAI_32: one mask bit more on RV32.
Encoding(n, arch) ==
  IF arch = "RV32" /\ n \in {"SLLI", "SRLI", "SRAI"}
  THEN [op |-> Encodings[n].op, f3 |-> Encodings[n].f3, f7 |-> 2 * Encodings[n].f6]
  ELSE Encodings[n]

\* MATCH_AND_RETURN_INSTR: (data() & MASK) = ENCODING.
Matches(w, n, arch) ==
  \A f \in DOMAIN Encoding(n, arch) : Field(w, f) = Encoding(n, arch)[f]

-----------------------------------------------------------------------------
(* The switch.  A case list is a sequence indexed by the value of the      *)
(* field, or a function of it; a value without a case is UNDEF.            *)

UNDEF == "UNDEF"
At(names, v) == IF v + 1 \in DOMAIN names THEN names[v + 1] ELSE UNDEF
Case(cases, v) == IF v \in DOMAIN cases THEN cases[v] ELSE UNDEF

SwitchJumpsAndMemory(w) ==
  CASE w.op = 55 -> "LUI"
    [] w.op = 23 -> "AUIPC"
    [] w.op = 111 -> "JAL"
    [] w.op = 103 -> "JALR"
    [] w.op = 99 -> At(<<"BEQ", "BNE", UNDEF, UNDEF, "BLT", "BGE", "BLTU", "BGEU">>, w.f3)
    [] w.op = 3 -> At(<<"LB", "LH", "LW", "LD", "LBU", "LHU", "LWU">>, w.f3)
    [] w.op = 35 -> At(<<"SB", "SH", "SW", "SD">>, w.f3)

SwitchImmediate(w) ==
  CASE w.op = 19 /\ w.f3 = 5 -> Case(0 :> "SRLI" @@ 16 :> "SRAI", Field(w, "f6"))
    [] w.op = 19 /\ w.f3 # 5 ->
         At(<<"ADDI", "SLLI", "SLTI", "SLTIU", "XORI", UNDEF, "ORI", "ANDI">>, w.f3)
    [] w.op = 27 /\ w.f3 = 5 -> Case(0 :> "SRLIW" @@ 32 :> "SRAIW", w.f7)
    [] w.op = 27 /\ w.f3 # 5 -> At(<<"ADDIW", "SLLIW">>, w.f3)

SwitchRegister(w) ==
  CASE w.op = 51 /\ w.f7 = 0 ->
         At(<<"ADD", "SLL", "SLT", "SLTU", "XOR", "SRL", "OR", "AND">>, w.f3)
    [] w.op = 51 /\ w.f7 = 32 -> Case(0 :> "SUB" @@ 5 :> "SRA", w.f3)
    [] w.op = 51 /\ w.f7 = 1 ->
         At(<<"MUL", "MULH", "MULHSU", "MULHU", "DIV", "DIVU", "REM", "REMU">>, w.f3)
    [] w.op = 59 /\ w.f7 = 0 -> Case(0 :> "ADDW" @@ 1 :> "SLLW" @@ 5 :> "SRLW", w.f3)
    [] w.op = 59 /\ w.f7 = 32 -> Case(0 :> "SUBW" @@ 5 :> "SRAW", w.f3)
    [] w.op = 59 /\ w.f7 = 1 -> Case(0 :> "MULW" @@ 4 :> "DIVW" @@ 5 :> "DIVUW"
                                     @@ 6 :> "REMW" @@ 7 :> "REMUW", w.f3)
    [] OTHER -> UNDEF

\* funct12 without a case of its own goes to SFENCE_VMA, whose mask decides.
SwitchSystem(w) ==
  CASE w.op = 15 -> At(<<"FENCE", "FENCE_I">>, w.f3)
    [] w.op = 115 /\ w.f3 = 0 ->
         CASE w.f7 = 0 /\ w.rs2 \in 0 .. 2 -> At(<<"ECALL", "EBREAK", "URET">>, w.rs2)
           [] w.f7 = 8 /\ w.rs2 = 2 -> "SRET"
           [] w.f7 = 24 /\ w.rs2 = 2 -> "MRET"
           [] w.f7 = 8 /\ w.rs2 = 5 -> "WFI"
           [] OTHER -> "SFENCE_VMA"
    [] w.op = 115 /\ w.f3 = 4 ->
         CASE w.f7 = 48 -> At(<<"HLVB", "HLVBU">>, w.rs2)
           [] w.f7 = 50 -> At(<<"HLVH", "HLVHU", UNDEF, "HLVXHU">>, w.rs2)
           [] w.f7 = 52 -> At(<<"HLVW", UNDEF, UNDEF, "HLVXWU">>, w.rs2)
           [] OTHER -> Case(49 :> "HSVB" @@ 51 :> "HSVH" @@ 53 :> "HSVW", w.f7)
    [] w.op = 115 /\ w.f3 \notin {0, 4} ->
         At(<<UNDEF, "CSRRW", "CSRRS", "CSRRC", UNDEF, "CSRRWI", "CSRRSI", "CSRRCI">>, w.f3)

\* funct3 says double words; anything else is compared with the word's mask.
AmoDouble ==
  2 :> "LR_D" @@ 3 :> "SC_D" @@ 1 :> "AMOSWAP_D" @@ 0 :> "AMOADD_D" @@ 4 :> "AMOXOR_D"
  @@ 12 :> "AMOAND_D" @@ 8 :> "AMOOR_D" @@ 16 :> "AMOMIN_D" @@ 20 :> "AMOMAX_D"
  @@ 24 :> "AMOMINU_D" @@ 28 :> "AMOMAXU_D"
AmoWord ==
  2 :> "LR_W" @@ 3 :> "SC_W" @@ 1 :> "AMOSWAP_W" @@ 0 :> "AMOADD_W" @@ 4 :> "AMOXOR_W"
  @@ 12 :> "AMOAND_W" @@ 8 :> "AMOOR_W" @@ 16 :> "AMOMIN_W" @@ 20 :> "AMOMAX_W"
  @@ 24 :> "AMOMINU_W" @@ 28 :> "AMOMAXU_W"

\* funct3 is left to the mask.
SwitchAmoAnyWidth(w) == Case(AmoWord, Field(w, "f5"))
SwitchAmo(w) == Case(IF w.f3 = 3 THEN AmoDouble ELSE AmoWord, Field(w, "f5"))

\* FMV_X_W and FCLASS_S, like their doubles, leave rs2 to the mask.
SwitchFpRegister(w) ==
  CASE w.f7 = 80 -> At(<<"FLE_S", "FLT_S", "FEQ_S">>, w.f3)
    [] w.f7 = 81 -> At(<<"FLE_D", "FLT_D", "FEQ_D">>, w.f3)
    [] w.f7 = 16 -> At(<<"FSGNJ_S", "FSGNJN_S", "FSGNJX_S">>, w.f3)
    [] w.f7 = 17 -> At(<<"FSGNJ_D", "FSGNJN_D", "FSGNJX_D">>, w.f3)
    [] w.f7 = 20 -> At(<<"FMIN_S", "FMAX_S">>, w.f3)
    [] w.f7 = 21 -> At(<<"FMIN_D", "FMAX_D">>, w.f3)
    [] w.f7 = 112 -> At(<<"FMV_X_W", "FCLASS_S">>, w.f3)
    [] w.f7 = 113 -> At(<<"FMV_X_D", "FCLASS_D">>, w.f3)
    [] w.f7 = 96 -> At(<<"FCVT_W_S", "FCVT_WU_S", "FCVT_L_S", "FCVT_LU_S">>, w.rs2)
    [] w.f7 = 97 -> At(<<"FCVT_W_D", "FCVT_WU_D", "FCVT_L_D", "FCVT_LU_D">>, w.rs2)
    [] w.f7 = 104 -> At(<<"FCVT_S_W", "FCVT_S_WU", "FCVT_S_L", "FCVT_S_LU">>, w.rs2)
    [] w.f7 = 105 -> At(<<"FCVT_D_W", "FCVT_D_WU", "FCVT_D_L", "FCVT_D_LU">>, w.rs2)
    [] OTHER ->
         Case(0 :> "FADD_S" @@ 1 :> "FADD_D" @@ 4 :> "FSUB_S" @@ 5 :> "FSUB_D"
              @@ 8 :> "FMUL_S" @@ 9 :> "FMUL_D" @@ 12 :> "FDIV_S" @@ 13 :> "FDIV_D"
              @@ 32 :> "FCVT_S_D" @@ 33 :> "FCVT_D_S" @@ 44 :> "FSQRT_S"
              @@ 45 :> "FSQRT_D" @@ 120 :> "FMV_W_X" @@ 121 :> "FMV_D_X", w.f7)

SwitchFpMemoryAndFused(w) ==
  CASE w.op = 7 -> Case(2 :> "FLW" @@ 3 :> "FLD", w.f3)
    [] w.op = 39 -> Case(2 :> "FSW" @@ 3 :> "FSD", w.f3)
    [] w.op = 67 -> At(<<"FMADD_S", "FMADD_D">>, Field(w, "f2"))
    [] w.op = 71 -> At(<<"FMSUB_S", "FMSUB_D">>, Field(w, "f2"))
    [] w.op = 75 -> At(<<"FNMSUB_S", "FNMSUB_D">>, Field(w, "f2"))
    [] w.op = 79 -> At(<<"FNMADD_S", "FNMADD_D">>, Field(w, "f2"))

Switch(w) ==
  CASE w.op \in {55, 23, 111, 103, 99, 3, 35} -> SwitchJumpsAndMemory(w)
    [] w.op \in {19, 27} -> SwitchImmediate(w)
    [] w.op \in {51, 59} -> SwitchRegister(w)
    [] w.op \in {15, 115} -> SwitchSystem(w)
    [] w.op = 47 -> SwitchAmo(w)
    [] w.op = 83 -> SwitchFpRegister(w)
    [] w.op \in {7, 39, 67, 71, 75, 79} -> SwitchFpMemoryAndFused(w)
    [] OTHER -> UNDEF

DecodeNormal(w, arch) ==
  LET name == Switch(w)
  IN IF name # UNDEF /\ Matches(w, name, arch) THEN name ELSE UNDEF

-----------------------------------------------------------------------------

\* get_xtinst: the transformed instruction a trap reports, <<>> for none.
\* Loads lose their immediate and rs1 (set_xtinst_for_opld), stores too
\* (set_xtinst_for_opst), the others only rs1.
XtinstLoad(w) == [w EXCEPT !.f7 = 0, !.rs2 = 0, !.rs1 = 0]
XtinstStore(w) == [w EXCEPT !.f7 = 0, !.rs1 = 0, !.rd = 0]
XtinstOther(w) == [w EXCEPT !.rs1 = 0]

GetXtinst(w) ==
  CASE \/ w.op = 3 /\ w.f3 \in 0 .. 6
       \/ w.op = 7 /\ w.f3 \in {2, 3} -> XtinstLoad(w)
    [] \/ w.op = 35 /\ w.f3 \in 0 .. 3
       \/ w.op = 39 /\ w.f3 \in {2, 3} -> XtinstStore(w)
    [] \/ w.op = 47 /\ Field(w, "f5") \in DOMAIN AmoWord
       \/ w.op = 115 /\ w.f3 = 4 /\ \/ w.f7 = 48 /\ w.rs2 \in {0, 1}
                                    \/ w.f7 = 50 /\ w.rs2 \in {0, 1, 3}
                                    \/ w.f7 = 52 /\ w.rs2 \in {0, 3}
                                    \/ w.f7 \in {49, 51, 53} -> XtinstOther(w)
    [] OTHER -> <<>>
=============================================================================
