-------------------------------- MODULE Exec --------------------------------
(***************************************************************************)
(* exec_step of the RV32 core (core/rv32/iss.cpp): what an instruction     *)
(* does with the integer registers, the pc, memory and a CSR, and where it *)
(* traps.  The operators take the hart before the instruction and give the *)
(* hart after it:                                                          *)
(*   regs, mem     registers and memory; mem is a sequence of bytes        *)
(*   pc, last_pc   the next and the executed instruction                   *)
(*   readonly      memory can be read and not written                      *)
(*   locked, lr_addr   the bus lock held since LR and its address          *)
(*   csr           the CSR that CSR instructions name                      *)
(*   trap          the exception raised, "" for none                       *)
(*                                                                         *)
(* Widths shrink together: a byte has BYTE bits, a word four bytes, and a  *)
(* register XLEN bits.                                                     *)
(***************************************************************************)
EXTENDS Arith, Sequences, Bitwise

CONSTANTS
  BYTE,      \* bits of a byte
  HasC       \* misa.has_C_extension()

WORD == 4 * BYTE
Bool(b) == IF b THEN 1 ELSE 0

Write(s, r, v) == [s EXCEPT !.regs[r] = v]
Raise(s, cause) == [s EXCEPT !.trap = cause]

-----------------------------------------------------------------------------
(* Arithmetic.                                                             *)

AluImmediate(name, a, imm) ==
  CASE name = "ADDI" -> Reg(a + imm)
    [] name = "SLTI" -> Bool(Sg(a, XLEN) < imm)
    [] name = "SLTIU" -> Bool(a < Reg(imm))
    [] name = "XORI" -> a ^^ Reg(imm)
    [] name = "ORI" -> a | Reg(imm)
    [] name = "ANDI" -> a & Reg(imm)

AluRegister(name, a, b) ==
  CASE name = "ADD" -> Reg(a + b)
    [] name = "SUB" -> Reg(a - b)
    [] name = "SLL" -> ShiftLeft(a, RegShamt(b))
    [] name = "SLT" -> Bool(Sg(a, XLEN) < Sg(b, XLEN))
    [] name = "SLTU" -> Bool(a < b)
    [] name = "SRL" -> ShiftRight(a, RegShamt(b))
    [] name = "SRA" -> ShiftRightA(a, RegShamt(b))
    [] name = "XOR" -> a ^^ b
    [] name = "OR" -> a | b
    [] name = "AND" -> a & b

AluShift(name, a, shamt) ==
  CASE name = "SLLI" -> ShiftLeft(a, shamt)
    [] name = "SRLI" -> ShiftRight(a, shamt)
    [] name = "SRAI" -> ShiftRightA(a, shamt)

\* The operations the AMO instructions pass to execute_amo, on words of the
\* given width.
AmoOf(name, a, b, bits) ==
  LET less == Sg(a, bits) < Sg(b, bits)
  IN CASE name = "AMOSWAP" -> b
       [] name = "AMOADD" -> Us(a + b, bits)
       [] name = "AMOXOR" -> a ^^ b
       [] name = "AMOAND" -> a & b
       [] name = "AMOOR" -> a | b
       [] name = "AMOMIN" -> IF less THEN a ELSE b
       [] name = "AMOMINU" -> IF a < b THEN a ELSE b
       [] name = "AMOMAX" -> IF less THEN b ELSE a
       [] name = "AMOMAXU" -> IF a < b THEN b ELSE a

-----------------------------------------------------------------------------
(* Memory: an access outside mem is refused by the bus or by protection.   *)

Accessible(s, addr, n, kind) == addr + n <= Len(s.mem) /\ (kind = "store" => ~s.readonly)

Load(s, addr, n) ==
  LET Value[k \in 0 .. n] ==
        IF k = 0 THEN 0 ELSE s.mem[addr + k] * 2^(BYTE * (k - 1)) + Value[k - 1]
  IN Value[n]

Store(s, addr, n, v) ==
  [s EXCEPT !.mem = [k \in DOMAIN s.mem |->
     IF k \in addr + 1 .. addr + n THEN Us(v \div 2^(BYTE * (k - 1 - addr)), BYTE)
     ELSE s.mem[k]]]

\* trap_check_addr_alignment<n, isLoad>, then load_x or store_x
Checked(s, addr, n, kind, after) ==
  IF addr % n # 0 THEN Raise(s, kind \o " misaligned")
  ELSE IF ~Accessible(s, addr, n, kind) THEN Raise(s, kind \o " fault")
  ELSE after

Bytes(name) ==
  CASE name \in {"LB", "LBU", "SB"} -> 1
    [] name \in {"LH", "LHU", "SH"} -> 2
    [] name \in {"LW", "LWU", "SW"} -> 4
    [] name \in {"LD", "SD"} -> 8

ExecLoad(s, i) ==
  LET addr == Reg(s.regs[i.rs1] + i.imm)
      n == Bytes(i.name)
      v == Load(s, addr, n)
  IN Checked(s, addr, n, "load",
       Write(s, i.rd, IF i.name \in {"LBU", "LHU", "LWU"} THEN v ELSE SExt(v, n * BYTE)))

ExecStore(s, i) ==
  LET addr == Reg(s.regs[i.rs1] + i.imm)
      n == Bytes(i.name)
  IN Checked(s, addr, n, "store", Store(s, addr, n, s.regs[i.rs2]))

-----------------------------------------------------------------------------
(* Control flow.  A raised trap leaves pc to prepare_trap.                 *)

\* pc' then trap_check_pc_alignment
Jump(s, target) ==
  IF target % 4 # 0 /\ ~HasC THEN Raise(s, "fetch misaligned") ELSE [s EXCEPT !.pc = target]

\* The link register is written only when the check has passed.
ExecJump(s, i) ==
  LET target == IF i.name = "JAL" THEN Reg(s.last_pc + i.imm)
                ELSE LET t == Reg(s.regs[i.rs1] + i.imm) IN t - (t % 2)
      jumped == Jump(s, target)
  IN IF jumped.trap # "" THEN jumped ELSE Write(jumped, i.rd, s.pc)

ExecUpper(s, i) == Write(s, i.rd, IF i.name = "LUI" THEN Reg(i.imm) ELSE Reg(s.last_pc + i.imm))

Taken(name, a, b) ==
  CASE name = "BEQ" -> a = b
    [] name = "BNE" -> a # b
    [] name = "BLT" -> Sg(a, XLEN) < Sg(b, XLEN)
    [] name = "BGE" -> Sg(a, XLEN) >= Sg(b, XLEN)
    [] name = "BLTU" -> a < b
    [] name = "BGEU" -> a >= b

ExecBranch(s, i) ==
  IF Taken(i.name, s.regs[i.rs1], s.regs[i.rs2]) THEN Jump(s, Reg(s.last_pc + i.imm)) ELSE s

-----------------------------------------------------------------------------
(* CSR instructions.  The CSR is readable and writable, read-only, one     *)
(* whose access get_csr_value and set_csr_value refuse, or a locked one    *)
(* (an SMPU entry) that only set_csr_value refuses: rd is written by then. *)

\* CSRRW and CSRRWI read only when rd is not x0; the others write only when
\* rs1 is not x0, or zimm (held in field rs1) is not 0.
IsImmediate(name) == name \in {"CSRRWI", "CSRRSI", "CSRRCI"}
CsrWrites(i) == i.name \in {"CSRRW", "CSRRWI"} \/ i.rs1 # 0
CsrReads(i) == i.name \notin {"CSRRW", "CSRRWI"} \/ i.rd # 0

CsrValue(name, old, operand) ==
  CASE name \in {"CSRRW", "CSRRWI"} -> operand
    [] name \in {"CSRRS", "CSRRSI"} -> old | operand
    [] name \in {"CSRRC", "CSRRCI"} -> old & Reg(-1 - operand)

\* rd is written first, and rs1 read after it.
ExecCsrLate(s, i) ==
  LET read == IF i.rd # 0 THEN Write(s, i.rd, s.csr.value) ELSE s
      operand == IF IsImmediate(i.name) THEN i.rs1 ELSE read.regs[i.rs1]
  IN IF \/ s.csr.kind = "read-only" /\ CsrWrites(i)
        \/ s.csr.kind = "refused" /\ (CsrReads(i) \/ CsrWrites(i))
     THEN Raise(s, "illegal")
     ELSE IF s.csr.kind = "locked" /\ CsrWrites(i) THEN Raise(read, "illegal")
     ELSE IF CsrWrites(i) THEN [read EXCEPT !.csr.value = CsrValue(i.name, s.csr.value, operand)]
          ELSE read
ExecCsr(s, i) ==
  LET read == IF i.rd # 0 THEN Write(s, i.rd, s.csr.value) ELSE s
      operand == IF IsImmediate(i.name) THEN i.rs1 ELSE s.regs[i.rs1]
  IN IF \/ s.csr.kind = "read-only" /\ CsrWrites(i)
        \/ s.csr.kind = "refused" /\ (CsrReads(i) \/ CsrWrites(i))
     THEN Raise(s, "illegal")
     ELSE IF s.csr.kind = "locked" /\ CsrWrites(i) THEN Raise(read, "illegal")
     ELSE IF CsrWrites(i) THEN [read EXCEPT !.csr.value = CsrValue(i.name, s.csr.value, operand)]
          ELSE read

-----------------------------------------------------------------------------
(* Atomics: the bus lock of one hart (BusLock models the others).          *)

LoadReserved(s, i, n) ==
  LET addr == s.regs[i.rs1]
      locks == [s EXCEPT !.locked = TRUE, !.lr_addr = addr]
  IN IF addr % n # 0 THEN Raise(s, "load misaligned")
     ELSE IF ~Accessible(s, addr, n, "load") THEN Raise(locks, "load fault")
     ELSE Write(locks, i.rd, SExt(Load(s, addr, n), n * BYTE))

\* rd is 1 before the store is tried; a store drops the lock
StoreConditional(s, i, n) ==
  LET addr == s.regs[i.rs1]
      failed == Write(s, i.rd, 1)
  IN CASE addr % n # 0 -> Raise(s, "store misaligned")
       [] addr % n = 0 /\ ~s.locked -> failed
       [] addr % n = 0 /\ s.locked /\ addr # s.lr_addr -> [failed EXCEPT !.locked = FALSE]
       [] addr % n = 0 /\ s.locked /\ addr = s.lr_addr ->
            IF ~Accessible(s, addr, n, "store") THEN Raise(failed, "store fault")
            ELSE [Store(Write(s, i.rd, 0), addr, n, s.regs[i.rs2]) EXCEPT !.locked = FALSE]

\* execute_amo: rd last; a fault of the load is reported as one of the store.
Amo(s, i, operation, n) ==
  LET addr == s.regs[i.rs1]
      old == Load(s, addr, n)
      new == AmoOf(operation, old, Us(s.regs[i.rs2], n * BYTE), n * BYTE)
  IN IF addr % n # 0 THEN Raise(s, "store misaligned")
     ELSE IF ~Accessible(s, addr, n, "store") THEN Raise([s EXCEPT !.locked = TRUE], "store fault")
     ELSE Write([Store(s, addr, n, new) EXCEPT !.locked = FALSE], i.rd, SExt(old, n * BYTE))

-----------------------------------------------------------------------------
(* Privileged instructions, as far as they trap; s.tvx is the set of the   *)
(* fields among TW, TVM (mstatus), VTW, VTVM, HU (hstatus) that are 1.     *)

ExecCall(s) ==
  Raise(s, CASE s.prv = "M" -> "ecall M" [] s.prv = "S" -> "ecall S"
             [] s.prv = "VS" -> "ecall VS" [] s.prv \in {"U", "VU"} -> "ecall U")

\* WFI drops the reservation even when it traps.
ExecWfi(s) ==
  LET released == [s EXCEPT !.locked = FALSE]
  IN CASE s.prv = "S" /\ "TW" \in s.tvx -> Raise(released, "illegal")
       [] s.prv = "VS" /\ "VTW" \in s.tvx -> Raise(released, "virtual")
       [] s.prv = "U" -> Raise(released, "illegal")
       [] OTHER -> released

ExecSfence(s) ==
  CASE s.prv = "S" /\ "TVM" \in s.tvx -> Raise(s, "illegal")
    [] s.prv = "VS" /\ "VTVM" \in s.tvx -> Raise(s, "virtual")
    [] OTHER -> s

\* hs_inst_check_access, of the loads and stores with guest privilege
GuestAccess(s, after) ==
  CASE s.prv \in {"VS", "VU"} -> Raise(s, "virtual")
    [] s.prv = "U" /\ "HU" \notin s.tvx -> Raise(s, "illegal")
    [] OTHER -> after

\* The load or store an HLV or HSV performs, with an immediate of 0.
GuestNames ==
  [HLVB |-> "LB", HLVBU |-> "LBU", HLVH |-> "LH", HLVHU |-> "LHU", HLVW |-> "LW",
   HLVXHU |-> "LHU", HLVXWU |-> "LW", HSVB |-> "SB", HSVH |-> "SH", HSVW |-> "SW"]

ExecGuest(s, i) ==
  LET access == [i EXCEPT !.name = GuestNames[i.name], !.imm = 0]
  IN GuestAccess(s, IF access.name \in {"SB", "SH", "SW"} THEN ExecStore(s, access)
                    ELSE ExecLoad(s, access))

-----------------------------------------------------------------------------

ImmediateNames == {"ADDI", "SLTI", "SLTIU", "XORI", "ORI", "ANDI"}
RegisterNames == {"ADD", "SUB", "SLL", "SLT", "SLTU", "SRL", "SRA", "XOR", "OR", "AND"}
ShiftNames == {"SLLI", "SRLI", "SRAI"}
LoadNames == {"LB", "LH", "LW", "LBU", "LHU"}
StoreNames == {"SB", "SH", "SW"}
BranchNames == {"BEQ", "BNE", "BLT", "BGE", "BLTU", "BGEU"}
CsrNames == {"CSRRW", "CSRRS", "CSRRC", "CSRRWI", "CSRRSI", "CSRRCI"}
MulNames == {"MUL", "MULH", "MULHU", "MULHSU"}
DivNames == {"DIV", "DIVU", "REM", "REMU"}
AmoNames == {"AMOSWAP", "AMOADD", "AMOXOR", "AMOAND", "AMOOR", "AMOMIN", "AMOMINU",
             "AMOMAX", "AMOMAXU"}

\* The switch of exec_step; RV64 instructions are illegal on this core.
Execute(s, i) ==
  LET a == s.regs[i.rs1]  b == s.regs[i.rs2]
  IN CASE i.name \in ImmediateNames -> Write(s, i.rd, AluImmediate(i.name, a, i.imm))
       [] i.name \in RegisterNames -> Write(s, i.rd, AluRegister(i.name, a, b))
       [] i.name \in ShiftNames -> Write(s, i.rd, AluShift(i.name, a, i.imm))
       [] i.name \in MulNames -> Write(s, i.rd, Mul(i.name, a, b))
       [] i.name \in DivNames -> Write(s, i.rd, Div(i.name, a, b))
       [] i.name \in {"LUI", "AUIPC"} -> ExecUpper(s, i)
       [] i.name \in {"JAL", "JALR"} -> ExecJump(s, i)
       [] i.name \in BranchNames -> ExecBranch(s, i)
       [] i.name \in LoadNames -> ExecLoad(s, i)
       [] i.name \in StoreNames -> ExecStore(s, i)
       [] i.name \in CsrNames -> ExecCsr(s, i)
       [] i.name = "LR_W" -> LoadReserved(s, i, 4)
       [] i.name = "SC_W" -> StoreConditional(s, i, 4)
       [] i.name \in AmoNames -> Amo(s, i, i.name, 4)
       [] i.name \in DOMAIN GuestNames -> ExecGuest(s, i)
       [] i.name = "FENCE" -> s
       [] i.name = "ECALL" -> ExecCall(s)
       [] i.name = "WFI" -> ExecWfi(s)
       [] i.name = "SFENCE_VMA" -> ExecSfence(s)
       [] i.name = "UNDEF" -> Raise(s, "illegal")

\* exec_step and the end of run_step: fetch moves pc, prepare_trap moves it
\* back, x0 is reset whatever was written to it.
RunStep(s, i, size) ==
  LET fetched == [s EXCEPT !.last_pc = s.pc, !.pc = Reg(s.pc + size), !.trap = ""]
      done == Execute(fetched, i)
      left == IF done.trap = "" THEN done ELSE [done EXCEPT !.pc = done.last_pc]
  IN [left EXCEPT !.regs[0] = 0]
=============================================================================
