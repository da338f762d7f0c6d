----------------------------- MODULE FixedPoint -----------------------------
(***************************************************************************)
(* threads/fixed_point.h of project 3: numbers with 14 bits after the      *)
(* point, kept in an int.  The products and quotients of two of them are   *)
(* formed in 64 bits there; here they are formed in two halves, with the   *)
(* same result (Mlfqs_proofs), so that they fit in 32.                     *)
(***************************************************************************)
EXTENDS Integers

F == 16384

\* C's division truncates toward zero.
Quot(x, y) == IF x >= 0 THEN x \div y ELSE -((-x) \div y)

IntToFp(n)        == n * F
RoundTowardZero(x) == Quot(x, F)
FpAddInt(x, n)    == x + n * F

\* fp_mul_fp(), for 0 <= x: x times the whole part of y and x times the rest.
MulNat(x, y) == x * (y \div F) + (x * (y % F)) \div F
FpMulFp(x, y) == IF y >= 0 THEN MulNat(x, y) ELSE -MulNat(x, -y)

\* fp_div_fp(), for 0 <= x and 0 < y: seven bits of the quotient, then seven.
Half == 128
FpDivFp(x, y) ==
  ((x * Half) \div y) * Half + (((x * Half) % y) * Half) \div y
=============================================================================
