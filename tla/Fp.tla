--------------------------------- MODULE Fp ---------------------------------
(***************************************************************************)
(* Floating point instructions of both cores (core/rv32/iss.cpp,           *)
(* core/rv64/iss.cpp, core/common/fp.h): which of them check mstatus.FS    *)
(* and the rounding mode, how single precision values are boxed in double  *)
(* precision registers, where softfloat's exception flags go and when the  *)
(* state is marked dirty.  Softfloat's rounding is left out: a float is a  *)
(* sign with a small magnitude or NaN, large enough to tell the operands   *)
(* of an operation apart.                                                  *)
(*                                                                         *)
(* The state f of the floating point unit:                                 *)
(*   fr       registers: precision "s" (boxed) or "d", and value           *)
(*   x        an integer register                                          *)
(*   fs       mstatus.FS: "off", "clean", "dirty"                          *)
(*   frm, fflags   fields of fcsr                                          *)
(*   sf       softfloat_exceptionFlags                                     *)
(*   trap     whether the instruction was illegal                          *)
(***************************************************************************)
EXTENDS Integers

NaNMagnitude == 9
NaN(s) == [s |-> s, m |-> NaNMagnitude]
DefaultNaN == NaN(0)
Num(n) == [s |-> IF n < 0 THEN 1 ELSE 0, m |-> IF n < 0 THEN -n ELSE n]
IsNaN(v) == v.m = NaNMagnitude
Value(v) == IF v.s = 1 THEN -v.m ELSE v.m
Neg(v) == [v EXCEPT !.s = 1 - v.s]

\* FpRegs: f32(idx) and f64(idx).  The upper half of a boxed single is all
\* ones, a NaN to double precision.
ReadFp(r, p) ==
  IF r.k = p THEN r.v ELSE IF p = "s" THEN DefaultNaN ELSE NaN(1)
WriteFp(f, rd, v, p) == [f EXCEPT !.fr[rd] = [k |-> p, v |-> v]]

-----------------------------------------------------------------------------

\* fp_require_not_off
Illegal(f) == [f EXCEPT !.trap = TRUE]
Prepare(f, after) == IF f.fs = "off" THEN Illegal(f) ELSE after

\* fp_setup_rm: RMM is refused with the reserved modes
RMM == 4
DYN == 7
SetupRm(f, rm, after) ==
  IF (IF rm = DYN THEN f.frm ELSE rm) >= RMM THEN Illegal(f) ELSE after

SetDirty(f) == [f EXCEPT !.fs = "dirty"]

\* fp_update_exception_flags
UpdateFlags(f) ==
  IF f.sf = {} THEN f
  ELSE [SetDirty(f) EXCEPT !.fflags = f.fflags \cup f.sf, !.sf = {}]

Finish(f) == UpdateFlags(SetDirty(f))

\* softfloat computes, and may raise flags
Soft(f, raised) == [f EXCEPT !.sf = f.sf \cup raised]

-----------------------------------------------------------------------------
(* One operator per group of instructions; p is the precision, v a result  *)
(* softfloat gives and raised the flags it sets.                           *)

\* FLW, FLD: neither FS nor the dirty state is touched.
FpLoad(f, i, p, v) == WriteFp(f, i.rd, v, p)

FpArithmetic(f, i, p, v, raised) ==
  Prepare(f, SetupRm(f, i.rm, Finish(WriteFp(Soft(f, raised), i.rd, v, p))))

\* f32_lt_quiet, f32_eq: false when one is NaN; zeros are equal
Less(a, b) == ~IsNaN(a) /\ ~IsNaN(b) /\ Value(a) < Value(b)
Equal(a, b) == ~IsNaN(a) /\ ~IsNaN(b) /\ Value(a) = Value(b)

\* The sign of zero is not looked at.
MinMaxPlain(name, a, b) ==
  IF IsNaN(a) /\ IsNaN(b) THEN DefaultNaN
  ELSE IF name = "FMIN" THEN IF Less(a, b) THEN a ELSE b
  ELSE IF Less(b, a) THEN a ELSE b
MinMax(name, a, b) ==
  IF IsNaN(a) /\ IsNaN(b) THEN DefaultNaN
  ELSE IF name = "FMIN" THEN IF Less(a, b) \/ (Equal(a, b) /\ a.s = 1) THEN a ELSE b
  ELSE IF Less(b, a) \/ (Equal(b, a) /\ b.s = 1) THEN a ELSE b

FpMinMax(f, i, p, raised) ==
  Prepare(f, Finish(WriteFp(Soft(f, raised), i.rd,
    MinMax(i.name, ReadFp(f.fr[i.rs1], p), ReadFp(f.fr[i.rs2], p)), p)))

\* f32_mulAdd; magnitudes saturate
MaxMagnitude == 2
MulAdd(a, b, c) ==
  IF IsNaN(a) \/ IsNaN(b) \/ IsNaN(c) THEN DefaultNaN
  ELSE LET v == Num(Value(a) * Value(b) + Value(c))
       IN IF v.m > MaxMagnitude THEN [v EXCEPT !.m = MaxMagnitude] ELSE v

Fused(name, a, b, c) ==
  CASE name = "FMADD" -> MulAdd(a, b, c)
    [] name = "FMSUB" -> MulAdd(a, b, Neg(c))
    [] name = "FNMADD" -> MulAdd(Neg(a), b, Neg(c))
    [] name = "FNMSUB" -> MulAdd(Neg(a), b, c)

FpFused(f, i, p, raised) ==
  LET r(n) == ReadFp(f.fr[n], p)
  IN Prepare(f, SetupRm(f, i.rm, Finish(WriteFp(Soft(f, raised), i.rd,
       Fused(i.name, r(i.rs1), r(i.rs2), r(i.rs3)), p))))

\* FCVT: to an integer register, from one, and between precisions.
FpConvert(f, i, p, v, raised) ==
  Prepare(f, SetupRm(f, i.rm, Finish(
    IF i.name = "TO_INT" THEN [Soft(f, raised) EXCEPT !.x = v]
    ELSE WriteFp(Soft(f, raised), i.rd, v, p))))

Sign(name, a, b) ==
  [a EXCEPT !.s = CASE name = "FSGNJ" -> b.s [] name = "FSGNJN" -> 1 - b.s
                    [] name = "FSGNJX" -> (a.s + b.s) % 2]

FpSign(f, i, p) ==
  Prepare(f, SetDirty(WriteFp(f, i.rd,
    Sign(i.name, ReadFp(f.fr[i.rs1], p), ReadFp(f.fr[i.rs2], p)), p)))

\* FMV_W_X; FMV_X_W and FCLASS only read.
FpMove(f, i, p, v) ==
  Prepare(f, IF i.name = "TO_FP" THEN SetDirty(WriteFp(f, i.rd, v, p)) ELSE [f EXCEPT !.x = v])

\* FEQ, FLT, FLE: the flags, and dirty only with them.
FpCompareKeeps(f, i, p, raised) ==
  LET a == ReadFp(f.fr[i.rs1], p)  b == ReadFp(f.fr[i.rs2], p)
      holds == CASE i.name = "FEQ" -> Equal(a, b) [] i.name = "FLT" -> Less(a, b)
                 [] i.name = "FLE" -> Less(a, b) \/ Equal(a, b)
  IN Prepare(f, [Soft(f, raised) EXCEPT !.x = Num(IF holds THEN 1 ELSE 0)])
FpCompare(f, i, p, raised) ==
  LET a == ReadFp(f.fr[i.rs1], p)  b == ReadFp(f.fr[i.rs2], p)
      holds == CASE i.name = "FEQ" -> Equal(a, b) [] i.name = "FLT" -> Less(a, b)
                 [] i.name = "FLE" -> Less(a, b) \/ Equal(a, b)
  IN Prepare(f, UpdateFlags([Soft(f, raised) EXCEPT !.x = Num(IF holds THEN 1 ELSE 0)]))

-----------------------------------------------------------------------------
(* Double precision has the same code, and so has the RV64 core.           *)

FpLoadD(f, i, v) == FpLoad(f, i, "d", v)
FpArithmeticD(f, i, v, raised) == FpArithmetic(f, i, "d", v, raised)
FpMinMaxD(f, i, raised) == FpMinMax(f, i, "d", raised)
FpFusedD(f, i, raised) == FpFused(f, i, "d", raised)
FpSignD(f, i) == FpSign(f, i, "d")
FpCompareD(f, i, raised) == FpCompare(f, i, "d", raised)
FpConvertD(f, i, v, raised) == FpConvert(f, i, "d", v, raised)

\* FCVT_S_D and FCVT_D_S
FpBetween(f, i, v, raised) == FpConvert(f, i, i.to, v, raised)

\* The operation of the RV64 core's switch that computes in one precision.
FpCompute64(f, i, p, v, raised) ==
  CASE i.group = "load" -> FpLoad(f, i, p, v)
    [] i.group = "arithmetic" -> FpArithmetic(f, i, p, v, raised)
    [] i.group = "minmax" -> FpMinMax(f, i, p, raised)
    [] i.group = "fused" -> FpFused(f, i, p, raised)

FpSingle64(f, i, v, raised) ==
  CASE i.group = "convert" -> FpConvert(f, i, "s", v, raised)
    [] i.group = "sign" -> FpSign(f, i, "s")
    [] i.group = "move" -> FpMove(f, i, "s", v)
    [] i.group = "compare" -> FpCompare(f, i, "s", raised)
    [] OTHER -> FpCompute64(f, i, "s", v, raised)

FpComputeD64(f, i, v, raised) == FpCompute64(f, i, "d", v, raised)

FpDouble64(f, i, v, raised) ==
  CASE i.group = "convert" -> FpConvert(f, i, "d", v, raised)
    [] i.group = "between" -> FpConvert(f, i, i.to, v, raised)
    [] i.group = "sign" -> FpSign(f, i, "d")
    [] i.group = "move" -> FpMove(f, i, "d", v)
    [] i.group = "compare" -> FpCompare(f, i, "d", raised)
    [] OTHER -> FpComputeD64(f, i, v, raised)

-----------------------------------------------------------------------------
(* The RV32 switch.                                                        *)

FpSingle32(f, i, v, raised) ==
  CASE i.group = "load" -> FpLoad(f, i, "s", v)
    [] i.group = "arithmetic" -> FpArithmetic(f, i, "s", v, raised)
    [] i.group = "minmax" -> FpMinMax(f, i, "s", raised)
    [] i.group = "fused" -> FpFused(f, i, "s", raised)
    [] i.group = "convert" -> FpConvert(f, i, "s", v, raised)
    [] i.group = "sign" -> FpSign(f, i, "s")
    [] i.group = "move" -> FpMove(f, i, "s", v)
    [] i.group = "compare" -> FpCompare(f, i, "s", raised)

FpDouble32(f, i, v, raised) ==
  CASE i.group = "load" -> FpLoadD(f, i, v)
    [] i.group = "arithmetic" -> FpArithmeticD(f, i, v, raised)
    [] i.group = "minmax" -> FpMinMaxD(f, i, raised)
    [] i.group = "fused" -> FpFusedD(f, i, raised)
    [] i.group = "convert" -> FpConvertD(f, i, v, raised)
    [] i.group = "sign" -> FpSignD(f, i)
    [] i.group = "compare" -> FpCompareD(f, i, raised)
    [] i.group = "between" -> FpBetween(f, i, v, raised)
    [] i.group = "move" -> IF i.name = "TO_FP" THEN Illegal(f) ELSE FpMove(f, i, "d", v)

ExecFp(arch, f, i, v, raised) ==
  LET g == [f EXCEPT !.trap = FALSE]
  IN CASE arch = "RV32" /\ i.p = "s" -> FpSingle32(g, i, v, raised)
       [] arch = "RV32" /\ i.p = "d" -> FpDouble32(g, i, v, raised)
       [] arch = "RV64" /\ i.p = "s" -> FpSingle64(g, i, v, raised)
       [] arch = "RV64" /\ i.p = "d" -> FpDouble64(g, i, v, raised)
=============================================================================
