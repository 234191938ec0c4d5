----------------------------- MODULE FixedPoint -----------------------------
(***************************************************************************)
(* The arithmetic of FixedPoint/FixedPoint.hpp.  A number is the integer   *)
(* the class keeps, a count of units; Shift units are the number 1.  The   *)
(* integers are unbounded, as boost's cpp_int is.                          *)
(***************************************************************************)
EXTENDS Integers

CONSTANTS Shift,     \* 10^resolution
          CutOff(_)  \* whether cpp_dec_float's inverse of a count of units is below
                     \* the exact one, as 0.333... is below 1 / 3
ASSUME ShiftAssumption == Shift \in Nat /\ Shift > 1

Abs(x) == IF x < 0 THEN -x ELSE x
Sign(x) == IF x < 0 THEN -1 ELSE 1

\* Mutant: the quotient rounded down.
TruncDown(n, d) == (Sign(d) * n) \div Abs(d)

\* Integer division as in C++, towards zero, d # 0.
Trunc(n, d) == Sign(n) * Sign(d) * (Abs(n) \div Abs(d))

\* The number n / d; what is below a unit is cut off.
FpMake(n, d) == Trunc(n * Shift, d)
One == Shift

FpPlus(x, y) == x + y
FpMinus(x, y) == x - y
FpNeg(x) == -x

FpTimes(x, y) == Trunc(x * y, Shift)

\* n / d, d # 0, in cpp_dec_float and cut off to a unit.  The type multiplies
\* by the inverse of d, which it has to far more digits than n and d have: the
\* product loses a unit just where the quotient is whole and the inverse is
\* below the exact one.
DecQuotient(n, d) ==
  LET q == Trunc(n, d)
  IN IF n # 0 /\ q * d = n /\ CutOff(d) THEN q - Sign(q) ELSE q

FpOver(x, y) == DecQuotient(x * Shift, y)
FpInv(x) == DecQuotient(Shift * Shift, x)

\* The remainder has the sign of x.
FpMod(x, y) == x - y * Trunc(x, y)

\* Numbers one unit apart are equal, and still one is less than the other.
FpEq(x, y) == Abs(x - y) <= 1
FpLess(x, y) == x < y

\* std::round of the number to an integer number: halves away from zero.
FpRound(x) == Sign(x) * ((2 * Abs(x) + Shift) \div (2 * Shift)) * Shift

-----------------------------------------------------------------------------
\* Products, quotients, inverses and remainders are exact up to one unit, are
\* cut off towards zero whatever the signs, and a remainder keeps the sign of x.
\* A product is less than a unit off; a quotient may be a whole one: 6 / 3 is a
\* unit less than 2.
WithinOneUnit(x, y) ==
  /\ Abs(FpTimes(x, y) * Shift - x * y) < Shift
  /\ Abs(FpTimes(x, y)) * Shift <= Abs(x * y)
  /\ y # 0 => /\ Abs(FpOver(x, y) * y - x * Shift) <= Abs(y)
              /\ Abs(FpOver(x, y) * y) <= Abs(x * Shift)
              /\ Abs(FpInv(y) * y - Shift * Shift) <= Abs(y)
              /\ Abs(FpInv(y) * y) <= Shift * Shift
              /\ Abs(FpMod(x, y)) < Abs(y) /\ FpMod(x, y) * x >= 0
=============================================================================
