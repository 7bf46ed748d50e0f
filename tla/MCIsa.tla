------------------------------- MODULE MCIsa -------------------------------
(***************************************************************************)
(* The instruction set of both cores, piece by piece: `part' chooses what  *)
(* is examined.                                                            *)
(*   decode, compressed   every instruction word, row by row               *)
(*   arithmetic, floats   operators on every pair of sample values         *)
(*   exec                 one instruction from each of many harts          *)
(* and the units of a hart, as in Units.  In part exec `before' is the     *)
(* hart before the instruction and row whether it was executed; in the     *)
(* others row is the row of words or the first operand.                    *)
(***************************************************************************)
EXTENDS Compressed, MCExec, MCMemory

VARIABLE
  op         \* opcode or quadrant; the instruction executed in part exec

isaVars == <<unitVars, op>>

Opcodes == {3, 7, 15, 19, 23, 27, 35, 39, 47, 51, 55, 59, 67, 71, 75, 79, 83, 99, 103,
            111, 115, 11}

\* The instructions the table of encodings has for each opcode.
NamesOf == [o \in Opcodes |-> {n \in DOMAIN Encodings : Encodings[n].op = o}]

\* The fields that the encodings of each opcode look at.
FieldsOf == [o \in Opcodes |-> UNION {DOMAIN Encodings[n] : n \in NamesOf[o]}]

\* The rows: all values of funct7 where an encoding looks at it, else a few.
LastRow == [o \in Opcodes |-> IF FieldsOf[o] \cap {"f7", "f6", "f5"} # {} THEN 127 ELSE 7]

\* The words of a row: every funct3, and the registers that a mask looks at.
RowWords ==
  {[op |-> op, f7 |-> row, f3 |-> f3, rs2 |-> rs2, rs1 |-> rr[1], rd |-> rr[2]] :
     f3 \in 0 .. 7,
     rs2 \in IF "rs2" \in FieldsOf[op] THEN {0, 1, 2, 3, 5, 31} ELSE {1, 2},
     rr \in IF "rd" \in FieldsOf[op] THEN {<<0, 0>>, <<1, 0>>, <<0, 1>>} ELSE {<<1, 1>>}}

\* The nested switches of decode_normal reach the instruction name exactly for
\* the words its own mask and encoding accept, and no two encodings share a word.
SwitchFindsEncoding(w, name) ==
  LET legal == {n \in NamesOf[op] : Matches(w, n, arch)}
  IN {name} = IF legal = {} THEN {UNDEF} ELSE legal

\* The instructions that access memory at rs1.
MemoryAccesses ==
  {n \in DOMAIN Encodings :
     \/ Encodings[n].op \in {3, 7, 35, 39, 47}
     \/ Encodings[n].op = 115 /\ "f3" \in DOMAIN Encodings[n] /\ Encodings[n].f3 = 4}

\* get_xtinst, a second decoder with switches of its own, finds the same
\* instructions: exactly the ones that access memory have a transformed form,
\* and that form still decodes to the instruction it stands for.
XtinstDecodes(w, name) ==
  LET x == GetXtinst(w)
  IN name # UNDEF =>
       /\ x # <<>> <=> name \in MemoryAccesses
       /\ x # <<>> => DecodeNormal(x, arch) = name /\ x.rs1 = 0

WordsExact ==
  part = "decode" =>
    \A w \in RowWords :
      LET name == DecodeNormal(w, arch)
      IN SwitchFindsEncoding(w, name) /\ XtinstDecodes(w, name)

\* The immediates a compressed instruction can have: first, last, step.
Immediates(c) ==
  CASE c = "C_ADDI4SPN" -> <<4, 1020, 4>>
    [] c \in {"C_LW", "C_SW", "C_FLW", "C_FSW"} -> <<0, 124, 4>>
    [] c \in {"C_LD", "C_SD", "C_FLD", "C_FSD"} -> <<0, 248, 8>>
    [] c \in {"C_LWSP", "C_SWSP", "C_FLWSP", "C_FSWSP"} -> <<0, 252, 4>>
    [] c \in {"C_LDSP", "C_SDSP", "C_FLDSP", "C_FSDSP"} -> <<0, 504, 8>>
    [] c \in {"C_ADDI", "C_ADDIW", "C_LI", "C_ANDI", "C_LUI"} -> <<-32, 31, 1>>
    [] c = "C_ADDI16SP" -> <<-512, 496, 16>>
    [] c \in {"C_JAL", "C_J"} -> <<-2048, 2046, 2>>
    [] c \in {"C_BEQZ", "C_BNEZ"} -> <<-256, 254, 2>>
    [] c \in {"C_SLLI", "C_SRLI", "C_SRAI"} -> <<0, IF arch = "RV32" THEN 31 ELSE 63, 1>>
    [] OTHER -> <<0, 0, 1>>

CompressedWords == {op + 4 * k + 8192 * row : k \in 0 .. 2047}

\* Expanding a compressed instruction is exact: the expanded word decodes to the
\* instruction decode_and_expand_compressed names (except C.ADDIW, whose word
\* is ADDI's), no two compressed words expand to the same instruction, and the
\* immediates scattered over the 16 bits come out as the whole range the
\* instruction has, each value once.
CompressedExact ==
  part = "compressed" =>
    LET all == {[word |-> c, kind |-> DecodeCompressed(c, arch), as |-> ExpandCompressed(c, arch)] :
                  c \in CompressedWords}
        legal == {x \in all : x.as[1] # UNDEF}
        single == {x \in legal : x.kind # "C_EBREAK"}
    IN /\ \A x \in legal :
            DecodeNormal(x.as[2], arch) = IF x.as[1] = "ADDIW" THEN "ADDI" ELSE x.as[1]
       /\ Cardinality({x.as : x \in single}) = Cardinality(single)
       /\ \A k \in {x.kind : x \in legal} :
            {Imm(x.as[1], x.as[2]) : x \in {y \in legal : y.kind = k}} =
              {i \in Immediates(k)[1] .. Immediates(k)[2] :
                 /\ (i - Immediates(k)[1]) % Immediates(k)[3] = 0
                 /\ k \in {"C_ADDI16SP", "C_LUI"} => i # 0}

\* Decoding is exact, of whole words, of the words traps report and of
\* compressed ones (instr.cpp): the switches, the tables of masks and the
\* immediates agree with each other for every instruction.
DecodeExact == WordsExact /\ CompressedExact

IntegersExact ==
  part = "arithmetic" =>
    \A b \in SampleB(arch) :
      /\ BaseExact(arch, row, b)
      /\ arch = "RV32" => AmoExact(row, b)
      /\ arch = "RV64" => WordExact(row, b)

Floats == {Num(n) : n \in -2 .. 2} \cup {[s |-> 1, m |-> 0], NaN(0), NaN(1)}
Small(v) == ~IsNaN(v) /\ v.m < 2

FloatsExact ==
  part = "floats" =>
    \A a \in Floats, b \in Floats :
      /\ LET lo == MinMax("FMIN", a, b)  hi == MinMax("FMAX", a, b)
         IN /\ ~IsNaN(a) /\ ~IsNaN(b) => /\ {lo, hi} = {a, b}
                                         /\ Value(lo) <= Value(hi)
                                         /\ Value(lo) = Value(hi) => lo.s >= hi.s
            /\ IsNaN(a) /\ ~IsNaN(b) => lo = b /\ hi = b
            /\ ~IsNaN(a) /\ IsNaN(b) => lo = b /\ hi = b
            /\ IsNaN(a) /\ IsNaN(b) => lo = DefaultNaN /\ hi = DefaultNaN
      /\ Sign("FSGNJ", a, a) = a /\ Sign("FSGNJN", a, a) = Neg(a)
      /\ Sign("FSGNJX", Sign("FSGNJX", a, b), b) = a
      /\ \A c \in Floats :
           Small(a) /\ Small(b) /\ Small(c) =>
             LET x == Value(a) * Value(b)
             IN /\ Value(Fused("FMADD", a, b, c)) = x + Value(c)
                /\ Value(Fused("FMSUB", a, b, c)) = x - Value(c)
                /\ Value(Fused("FNMADD", a, b, c)) = -x - Value(c)
                /\ Value(Fused("FNMSUB", a, b, c)) = Value(c) - x

\* The operators of exec_step compute what the instructions mean, at every edge
\* of the integers: both halves of a product of any signedness, division by
\* zero and of the least integer by -1, remainders, shifts by the width, word
\* results sign extended, branches and comparisons and AMOs that agree with
\* each other; and of the floats: signed zeros in FMIN, FMAX and the sign
\* injections, the signs of the four fused products.  NaNs in FMIN and FMAX:
\* two of them give the default NaN and one in rs1 the number in rs2; one in
\* rs2 is returned as it is, where the instructions mean the number in rs1
\* (rs1_smaller and rs1_greater are false and rs2 is the other choice).
ArithmeticExact == IntegersExact /\ FloatsExact

\* An instruction takes effect as a whole or traps as a whole, reads its
\* sources before it writes a destination that is one of them, and x0 stays 0
\* (exec_step, run_step); floating-point state is tracked.
ExecPrecise ==
  /\ part = "exec" /\ row = 1 =>
       TrapIsPrecise(before, op, hart) /\ NoAliasing(arch, before, op, hart)
  /\ FpTracked

Init ==
  \/ UnitsInit /\ op = 0
  \/ /\ arch \in {"RV32", "RV64"} /\ before = none
     /\ \/ part = "decode" /\ op \in Opcodes /\ row = 0 /\ hart = none
        \/ part = "compressed" /\ op \in 0 .. 2 /\ row = 0 /\ hart = none
        \/ part = "arithmetic" /\ op = 0 /\ row \in SampleA(arch) /\ hart = none
        \/ part = "floats" /\ op = 0 /\ row = 0 /\ hart = none
        \/ part = "exec" /\ op = 0 /\ row = 0
           /\ hart \in UNION {Harts(a, b) : a \in {0, 1, 4, 8, 15}, b \in {0, 3, 8, 15}}
           /\ (arch = "RV64" => hart.prv \notin {"VS", "VU"})

NextRow ==
  /\ \/ part = "decode" /\ row < LastRow[op]
     \/ part = "compressed" /\ row < 7
  /\ row' = row + 1
  /\ UNCHANGED <<part, arch, op, before, hart>>

Exec ==
  /\ part = "exec" /\ row = 0
  /\ op' \in IF arch = "RV32" THEN Instructions32 ELSE Instructions64
  /\ Concerns(hart, op'.name)
  /\ before' = hart /\ hart' = Step(arch, hart, op') /\ row' = 1
  /\ UNCHANGED <<part, arch>>

UnitStep == UnitsNext /\ UNCHANGED op

Next == UnitStep \/ NextRow \/ Exec

Spec == Init /\ [][Next]_isaVars
=============================================================================
