-------------------------------- MODULE Arith --------------------------------
(***************************************************************************)
(* The arithmetic of exec_step: shifts, products and divisions of          *)
(* registers of XLEN bits.  Values are kept unsigned.  Signed overflow of  *)
(* int32_t is undefined in C++ and wraps in what compilers produce.        *)
(***************************************************************************)
EXTENDS Integers

CONSTANT XLEN      \* bits of a register

Sg(n, bits) == IF n >= 2^(bits - 1) THEN n - 2^bits ELSE n
Us(n, bits) == n % 2^bits
Reg(n) == Us(n, XLEN)
SExt(n, bits) == Reg(Sg(Us(n, bits), bits))

RegShamt(v) == v % XLEN
ShiftLeft(a, n) == Reg(a * 2^n)
ShiftRight(a, n) == a \div 2^n
ShiftRightA(a, n) == Reg(Sg(a, XLEN) \div 2^n)

\* The double-width product is taken modulo 2^(2 * XLEN).
High(product) == Us(product, 2 * XLEN) \div 2^XLEN

\* Both factors signed.
MulSigned(name, a, b) ==
  LET sa == Sg(a, XLEN)  sb == Sg(b, XLEN)
  IN CASE name = "MUL" -> Reg(sa * sb)
       [] name \in {"MULH", "MULHSU"} -> High(sa * sb)
       [] name = "MULHU" -> High(a * b)
Mul(name, a, b) ==
  LET sa == Sg(a, XLEN)  sb == Sg(b, XLEN)
  IN CASE name = "MUL" -> Reg(sa * sb)
       [] name = "MULH" -> High(sa * sb)
       [] name = "MULHU" -> High(a * b)
       [] name = "MULHSU" -> High(sa * b)

\* Division of C++: towards zero, the remainder has the dividend's sign.
Abs(n) == IF n < 0 THEN -n ELSE n
Quotient(a, b) == IF (a < 0) = (b < 0) THEN Abs(a) \div Abs(b) ELSE -(Abs(a) \div Abs(b))
Remainder(a, b) == a - b * Quotient(a, b)

\* a and b of the given width; results of that width
DivOf(name, a, b, bits) ==
  LET sa == Sg(a, bits)  sb == Sg(b, bits)
      overflow == sa = -(2^(bits - 1)) /\ sb = -1
  IN CASE name = "DIV" -> IF b = 0 THEN Us(-1, bits)
                          ELSE IF overflow THEN a ELSE Us(Quotient(sa, sb), bits)
       [] name = "DIVU" -> IF b = 0 THEN Us(-1, bits) ELSE a \div b
       [] name = "REM" -> IF b = 0 THEN a
                          ELSE IF overflow THEN 0 ELSE Us(Remainder(sa, sb), bits)
       [] name = "REMU" -> IF b = 0 THEN a ELSE a % b

Div(name, a, b) == DivOf(name, a, b, XLEN)

-----------------------------------------------------------------------------
(* What the results mean.                                                  *)

\* The halves of the three products, the lower one is common to them.
ProductExact(a, b, low, high, highU, highSU, bits) ==
  LET sa == Sg(a, bits)  sb == Sg(b, bits)
  IN /\ Sg(high, bits) * 2^bits + low = sa * sb
     /\ highU * 2^bits + low = a * b
     /\ Sg(highSU, bits) * 2^bits + low = sa * b

\* q and r of the signed or unsigned division of a by b.
IsDivision(a, b, q, r) ==
  /\ a = b * q + r
  /\ Abs(r) < Abs(b)
  /\ r # 0 => (r < 0) = (a < 0)

DivisionExact(a, b, q, r, uq, ur, bits) ==
  LET sa == Sg(a, bits)  sb == Sg(b, bits)
      overflow == sa = -(2^(bits - 1)) /\ sb = -1
  IN /\ b = 0 => q = 2^bits - 1 /\ uq = 2^bits - 1 /\ r = a /\ ur = a
     /\ b # 0 => IsDivision(a, b, uq, ur)
     /\ b # 0 /\ ~overflow => IsDivision(sa, sb, Sg(q, bits), Sg(r, bits))
     /\ overflow => q = a /\ r = 0

\* Shifts are products and quotients with a power of two.
ShiftExact(a, b, left, right, rightA, bits) ==
  LET n == 2^(b % bits)  sa == Sg(a, bits)
  IN /\ left \in 0 .. 2^bits - 1 /\ (left - a * n) % 2^bits = 0
     /\ right * n <= a /\ a < (right + 1) * n
     /\ Sg(rightA, bits) * n <= sa /\ sa < (Sg(rightA, bits) + 1) * n
=============================================================================
