----------------------------- MODULE PrimeField -----------------------------
(***************************************************************************)
(* The arithmetic of PrimeField/PrimeField.hpp: residues of a prime P with *)
(* P = 4 * Q + 1 and Q odd, as 2^64 - 59 is.  An element is the integer    *)
(* the class keeps; it is below P except for the negation of zero.         *)
(***************************************************************************)
EXTENDS Integers

CONSTANTS P,     \* PrimeField::p
          Q,     \* P - 1 = Q * 2^2, the constant Q of modsqrt
          RootC  \* the constant c of modsqrt: 2^Q, and 2 is no square

ASSUME FieldAssumption ==
  /\ P \in Nat /\ Q \in Nat /\ P = 4 * Q + 1 /\ Q % 2 = 1
  /\ \A d \in 2..(P - 1) : P % d # 0
  /\ RootC \in 1..(P - 1) /\ (RootC * RootC) % P = P - 1

Field == 0..(P - 1)

\* The constructor from an integer between 0 and P; it refuses all others.
PfMake(v) == v % P

PfPlus(x, y) == (x + y) % P
PfMinus(x, y) == (x + (P - y)) % P
PfTimes(x, y) == (x * y) % P

\* Unary minus does not reduce: the negation of 0 is P.
PfNeg(x) == P - x

\* modpow for every base and exponent.
Modpows[ab \in Nat \X Nat] ==
  LET a == ab[1]  b == ab[2]
  IN IF b = 0 THEN 1
     ELSE ((IF b % 2 = 1 THEN a ELSE 1) * Modpows[<<(a * a) % P, b \div 2>>]) % P
modpow(a, b) == Modpows[<<a, b>>]

\* getInv; 0 has no inverse and is its own.
Inverses == [x \in 0..P |-> modpow(x, P - 2)]
PfInv(x) == Inverses[x]
PfOver(x, y) == PfTimes(x, PfInv(y))

\* Whether a is a square: 0 is.
Legendre(a) == modpow(a, P \div 2) # P - 1

\* modsqrt of a square n # 0, by Tonelli and Shanks with S = 2.  Then the loop
\* is entered only with t = -1, for one round with i = 1 and b = c.
modsqrt(n) ==
  LET R == modpow(n, (Q + 1) \div 2)
      root == IF modpow(n, Q) = 1 THEN R ELSE (R * RootC) % P
  IN IF root <= P \div 2 THEN root ELSE P - root

-----------------------------------------------------------------------------
\* getInv, / and modsqrt invert multiplication and squaring for every element
\* but zero, modsqrt returns the smaller root, and Legendre tells squares.
InverseAndRoot(x) ==
  /\ x # 0 => PfTimes(x, PfInv(x)) = 1 /\ PfTimes(PfOver(1, x), x) = 1
  /\ x # 0 => LET n == PfTimes(x, x) IN modsqrt(n) \in {x, P - x} /\ 2 * modsqrt(n) < P
  /\ Legendre(x) <=> \E y \in Field : PfTimes(y, y) = x

\* The one element out of range, the negation of 0, behaves as 0 in every
\* operation but the comparison of values: it is never equal to 0.
NegationOfZeroOnlyLooksDifferent(x) ==
  /\ \A y \in Field :
       /\ PfPlus(y, PfNeg(x)) = PfMinus(y, x)
       /\ PfTimes(y, PfNeg(x)) = PfMinus(0, PfTimes(y, x))
       /\ PfMinus(y, PfNeg(x)) = PfPlus(y, x)
  /\ PfNeg(x) \in Field <=> x # 0
=============================================================================
