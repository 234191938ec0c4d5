---------------------------- MODULE CompareField ----------------------------
(***************************************************************************)
(* The comparison protocols over a prime field, second half of             *)
(* Share/Compare.cpp.  A shared value is written as the value it opens to: *)
(* module Share is checked to compute, on shares, the operation of the     *)
(* field on values.  Bit vectors have L bits, the highest first, L =       *)
(* Lambda^2 and 2^L > P.  The random numbers a protocol draws are          *)
(* arguments: rnd for subRNS, in every multi-input gate the same ones, and *)
(* rbits for the bits of subRBVS.                                          *)
(***************************************************************************)
EXTENDS PrimeField, Functions

CONSTANTS L, Lambda,  \* PrimeField::l and lambda
          NParties,   \* n_parties
          OrCoef,     \* f_65_or_coefficient, L + 1 numbers, the constant first
          AndCoef     \* f_65_and_coefficient

\* The powers of 2.
Pow2[n \in Nat] == IF n = 0 THEN 1 ELSE 2 * Pow2[n - 1]

Poly(coef, v) == PfMake(FoldFunction(+, 0, [k \in 1..(L + 1) |-> coef[k] * modpow(v, k - 1)]))

\* The tables are what they are made for: 0 at 1 and 1 at 2..L+1, and 1 at L+1
\* and 0 at 1..L.
ASSUME TableAssumption ==
  /\ Lambda \in Nat /\ Lambda > 0 /\ L = Lambda * Lambda
  /\ L + 1 < P /\ Pow2[L] > P /\ NParties \in 1..(P - 1)
  /\ OrCoef \in [1..(L + 1) -> Field] /\ AndCoef \in [1..(L + 1) -> Field]
  /\ \A v \in 1..(L + 1) : Poly(OrCoef, v) = (IF v = 1 THEN 0 ELSE 1)
  /\ \A v \in 1..(L + 1) : Poly(AndCoef, v) = (IF v = L + 1 THEN 1 ELSE 0)

BitVectors == [1..L -> {0, 1}]

\* The masks of a gate, two draws of subRNS for every input.  A gate is right only
\* for masks that are not 0; the code does not test it, as 0 is drawn with
\* probability 1 / P.
Draws == [1..L -> [b : 1..(P - 1), bd : 1..(P - 1)]]

\* The value of a bit vector as an integer.
Value(bits) == FoldFunction(+, 0, [k \in 1..L |-> bits[k] * Pow2[L - k]])

\* BStoSC: the value as an element of the field.
BStoSC(bits) == PfMake(Value(bits))

\* PFtoBS: the bits of v, each shared out by SP.
PFtoBS(v) == [k \in 1..L |-> (v \div Pow2[L - k]) % 2]

\* The sum of the elements of a sequence.
FieldSum(s) == FoldFunction(PfPlus, 0, s)

\* subRBS: r, drawn again while it is 0, over the smaller root of its square.
subRBS(r) == PfTimes(PfInv(2), PfPlus(PfTimes(PfInv(modsqrt(PfTimes(r, r))), r), 1))

\* The products of the first 0, 1, ... L of the numbers.
Running(c) == LET prod[k \in 0..L] == IF k = 0 THEN 1 ELSE PfTimes(prod[k - 1], c[k]) IN prod

\* Steps 3 to 7 of the multi-input gates: the powers A^1 .. A^L, from opened
\* numbers c[k] that the random b hide.  The code does not exclude b * b' = 0,
\* for which Draws leaves no room.
Powers(A, rnd) ==
  LET binv(k) == PfTimes(PfInv(PfTimes(rnd[k].b, rnd[k].bd)), rnd[k].bd)
      before(k) == IF k = 1 THEN PfTimes(NParties, PfInv(NParties)) ELSE rnd[k - 1].b
      c == [k \in 1..L |-> PfTimes(PfTimes(A, binv(k)), before(k))]
  IN [k \in 1..L |-> PfTimes(Running(c)[k], rnd[k].b)]

\* f65Or, f65And: the polynomial, from the powers.
Evaluate(coef, powers) == PfPlus(FieldSum([k \in 1..L |-> PfTimes(coef[k + 1], powers[k])]), coef[1])

subUnboundedFanInOr(a, rnd) == Evaluate(OrCoef, Powers(PfPlus(FieldSum(a), 1), rnd))

subUnboundedFanInAnd(a, rnd) == Evaluate(AndCoef, Powers(PfPlus(FieldSum(a), 1), rnd))

\* The first n of the elements, and zeros.
subPadding0(a, n) == [k \in 1..L |-> IF k <= n THEN a[k] ELSE 0]

Block == 1..Lambda
InBlock(k, j) == (k - 1) * Lambda + j

\* Step 1 of subPrefixOr: the disjunction of each block of Lambda elements.
OrOfBlocks(a, rnd) ==
  [k \in Block |->
     subUnboundedFanInOr([j \in 1..L |-> IF j <= Lambda THEN a[InBlock(k, j)] ELSE 0], rnd)]

\* The disjunctions of the first one, two, ... Lambda of the elements.
OrOfPrefixes(v, rnd) == [k \in Block |-> subUnboundedFanInOr(subPadding0(v, k), rnd)]

\* From the disjunctions x of the blocks and y of their prefixes: f marks the
\* first block that is not 0, whose prefixes b0 are put in its place; the blocks
\* behind it are all 1.
PrefixFrom(a, x, y, rnd) ==
  LET f == [k \in Block |-> IF k = 1 THEN x[1] ELSE PfMinus(y[k], y[k - 1])]
      b0 == OrOfPrefixes([j \in Block |-> FieldSum([k \in Block |-> PfTimes(f[k], a[InBlock(k, j)])])], rnd)
  IN [n \in 1..L |-> LET k == (n - 1) \div Lambda + 1
                         j == ((n - 1) % Lambda) + 1
                     IN PfPlus(PfTimes(f[k], b0[j]), PfMinus(y[k], f[k]))]

\* The disjunction of a[1] .. a[k] for every k.
subPrefixOr(a, rnd) ==
  LET x == OrOfBlocks(a, rnd) IN PrefixFrom(a, x, OrOfPrefixes(x, rnd), rnd)

\* The bit of b at the first place where the prefixes d turn to 1.
BitAtFirst(d, b) ==
  FieldSum([k \in 1..L |-> PfTimes(IF k = 1 THEN d[1] ELSE PfMinus(d[k], d[k - 1]), b[k])])

\* 1 if a < b as integers, 0 if not: b's bit at the first place they differ.
subBitwiseLessThan(a, b, rnd) ==
  LET differ == [k \in 1..L |-> PfMinus(PfPlus(a[k], b[k]), PfTimes(2, PfTimes(a[k], b[k])))]
  IN BitAtFirst(subPrefixOr(differ, rnd), b)

\* 1 - (u + v), exclusive or, of two bits.
SameBit(u, v) == PfMinus(1, PfPlus(PfTimes(u, PfMinus(1, v)), PfTimes(PfMinus(1, u), v)))

\* Mutant: the parity of c is not looked at.
subHalfLessThanEven(a, rbits, rnd) ==
  LET c == PfPlus(PfTimes(2, a), BStoSC(rbits))
  IN SameBit(subBitwiseLessThan(PFtoBS(c), rbits, rnd), rbits[L])

\* [a < p/2]: 2 a is even as an integer unless it wraps, and c = 2 a + r is
\* opened; it wrapped if c < r.
subHalfLessThan(a, rbits, rnd) ==
  LET c == PfPlus(PfTimes(2, a), BStoSC(rbits))
      low == IF c % 2 = 0 THEN rbits[L] ELSE PfMinus(1, rbits[L])
  IN SameBit(subBitwiseLessThan(PFtoBS(c), rbits, rnd), low)

\* [c1 < a < c2] for constants c1 < c2: c = a + r is opened and r, not a, is
\* compared with two bounds; for c between c1 and c2 with those that it must not
\* lie between.
intervalTest(c1, a, c2, rbits, rnd) ==
  LET c == PfPlus(a, BStoSC(rbits))
      between == c1 < c /\ c < c2
      r_low == IF between THEN PfMinus(PfMinus(c, c1), 1) ELSE PfMinus(c, c2)
      r_high == IF between THEN PfPlus(PfMinus(c, c2), 1) ELSE PfMinus(c, c1)
      Outcome(inside) == IF between THEN PfMinus(1, inside) ELSE inside
  IN Outcome(PfTimes(subBitwiseLessThan(PFtoBS(r_low), rbits, rnd),
                     subBitwiseLessThan(rbits, PFtoBS(r_high), rnd)))

\* Step 2 of comparisonTest, from w = [a < p/2], x = [b < p/2], y = [a - b < p/2].
LessByHalves(w, x, y) ==
  LET xy == PfTimes(x, y)
  IN PfPlus(PfMinus(PfMinus(PfPlus(PfTimes(w, PfMinus(PfPlus(x, y), PfTimes(2, xy))), 1), y), x), xy)

\* [a < b]; r holds the random bits of three comparisons.
comparisonTest(a, b, r, rnd) ==
  LessByHalves(subHalfLessThan(a, r[1], rnd), subHalfLessThan(b, r[2], rnd),
               subHalfLessThan(PfMinus(a, b), r[3], rnd))

\* [a = b]: c = a - b + r is opened, and equal to r bit by bit.
equalityTest(a, b, rbits, rnd) ==
  LET c == PFtoBS(PfPlus(PfMinus(a, b), BStoSC(rbits)))
  IN subUnboundedFanInAnd([k \in 1..L |-> IF c[k] = 1 THEN rbits[k] ELSE PfMinus(1, rbits[k])], rnd)

\* Fp2Pf: a fixed-point number moved up by half the field; the constructor of
\* PrimeField refuses what is then outside.
Fp2Pf(fp) == PfMake(fp + P \div 2)
=============================================================================
