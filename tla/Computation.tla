---------------------------- MODULE Computation -----------------------------
(***************************************************************************)
(* The arithmetic of the computation containers put together and set       *)
(* against reference definitions: numbers, shared numbers, tables, and the *)
(* comparisons of both kinds.  A behaviour is either a comparison of       *)
(* module Compare or a single case, an input of one of the pure            *)
(* operations.                                                             *)
(***************************************************************************)
EXTENDS Compare, CompareField, ValueTable

CONSTANTS Cases,  \* [kind, ...], the fields as the property of the kind needs
          NewtonSteps  \* the iterations of sqrt

VARIABLE case

pf == INSTANCE Share WITH Zero <- 0, One <- 1, Plus <- PfPlus, Minus <- PfMinus,
        Times <- PfTimes, Over <- PfOver, Neg <- PfNeg, Inv <- PfInv

\* The cases of shared numbers: any shares of the parties, and a triple whose
\* third number is the product of the others.  The triples of fixed-point
\* numbers come as integers: every share of them is a whole number, and so are
\* the random numbers that mask, at least 1 under an inverse.
PfCase(k) ==
  /\ {k.s, k.t, k.r, k.triple.a, k.triple.b, k.triple.c} \subseteq [Parties -> Field]
  /\ k.c \in Field
  /\ pf!recons(k.triple.c) = PfTimes(pf!recons(k.triple.a), pf!recons(k.triple.b))

FpCase(k) ==
  /\ {k.s, k.t, k.r, k.triple.a, k.triple.b, k.triple.c} \subseteq [Parties -> Int]
  /\ k.c \in Int
  /\ \A p \in Parties : /\ k.triple.a[p] % Shift = 0 /\ k.triple.b[p] % Shift = 0
                        /\ k.r[p] % Shift = 0 /\ k.r[p] > 0
  /\ sh!recons(k.triple.c) * Shift = sh!recons(k.triple.a) * sh!recons(k.triple.b)

ModCase(k) ==
  /\ k.s \in [Parties -> Int] /\ k.k \in [Parties -> Int] /\ k.c \in Nat /\ k.c > 0
  /\ \A p \in Parties : k.k[p] % Shift = 0

\* The random bits of subRBVS that stand for a number of the field.  The code leaves
\* the test for r < p out, since nearly all vectors pass it.
ProperBits == {b \in BitVectors : Value(b) < P}

\* The cases of the comparisons over the field: numbers that Fp2Pf accepts, and
\* an interval of field elements.
PairCase(k) ==
  /\ k.x \in Int /\ k.y \in Int /\ k.x + P \div 2 \in Field /\ k.y + P \div 2 \in Field
  /\ \A n \in 1..3 : k.r[n] \in ProperBits
  /\ k.rnd \in Draws
IntervalCase(k) ==
  k.a \in Field /\ k.c1 \in Field /\ k.c2 \in Field /\ k.c1 < k.c2 /\ k.rnd \in Draws

ASSUME CasesAssumption ==
  \A k \in Cases :
    /\ k.kind = "field" => k.x \in Field /\ k.rnd \in Draws
    /\ k.kind = "fixed" => k.x \in Int /\ k.y \in Int
    /\ k.kind = "pf" => PfCase(k)
    /\ k.kind = "fp" => FpCase(k)
    /\ k.kind = "mod" => ModCase(k)
    /\ k.kind = "bits" => k.a \in BitVectors /\ k.others \subseteq BitVectors /\ k.rnd \in Draws
    /\ k.kind = "pair" => PairCase(k)
    /\ k.kind = "interval" => IntervalCase(k)

\* The joins take from the comparison of shares what it is shown to tell apart.
ASSUME ShareResAssumption == ShareRes = Resolution

NoCase == [kind |-> "comparison"]
NoInput == [op |-> "none", left |-> All(0), right |-> All(0)]

ComputationInit ==
  \/ Init /\ case = NoCase
  \/ /\ case \in Cases
     /\ input = NoInput /\ x = All(0) /\ y = All(0) /\ z = All(0)
     /\ i = 0 /\ verdicts = << >> /\ pc = "done"

ComputationNext == Next /\ UNCHANGED case
ComputationSpec == ComputationInit /\ [][ComputationNext]_<<vars, case>>

-----------------------------------------------------------------------------
\* getInv, / and modsqrt of PrimeField invert multiplication and squaring for
\* every element but 0, and legendre tells the squares from the others.
FieldInverses == case.kind = "field" => InverseAndRoot(case.x)

\* PrimeField's unary minus leaves the range for 0 only, and the result cannot
\* be told from 0 by any operation but ==.
NegationOfZero == case.kind = "field" => NegationOfZeroOnlyLooksDifferent(case.x)

\* FixedPoint's *, /, getInv and % are within a unit of the exact value, cut off
\* towards zero for every combination of signs and wherever the decimal inverse
\* of the divisor is cut off.
FixedPointIsExact == case.kind = "fixed" => WithinOneUnit(case.x, case.y)

\* The numbers under the shares: the operators of PrimeField and FixedPoint are
\* those of the field and, within a unit, of the rationals.
NumbersAreRight == FieldInverses /\ NegationOfZero /\ FixedPointIsExact

\* A constant enters a shared number once, not once for every party, in every
\* operation between shares and constants, for both kinds of numbers, and for
\* vectors as for single shares.
ConstantsEnterOnce ==
  /\ case.kind = "pf" =>
       LET s == case.s  a == pf!recons(s)  c == case.c
       IN /\ pf!recons(pf!AddConst(s, c)) = PfPlus(a, c)
          /\ pf!recons(pf!SubConst(s, c)) = PfMinus(a, c)
          /\ pf!recons(pf!ConstSub(c, s)) = PfMinus(c, a)
          /\ pf!recons(pf!MulConst(s, c)) = PfTimes(a, c)
          /\ pf!recons(pf!getConstantShare(c)) = c
          /\ pf!recons(pf!VecAddConst(<<case.t, s>>, c)[2]) = PfPlus(a, c)
          /\ pf!recons(pf!VecSubConst(<<case.t, s>>, c)[2]) = PfMinus(a, c)
          /\ pf!recons(pf!ConstSubVec(c, <<case.t, s>>)[2]) = PfMinus(c, a)
  /\ case.kind = "fp" =>
       LET s == case.s  a == sh!recons(s)  c == case.c  n == Cardinality(Parties)
       IN /\ sh!recons(sh!AddConst(s, c)) = a + c
          /\ sh!recons(sh!ConstSub(c, s)) = c - a
          /\ Abs(sh!recons(sh!MulConst(s, c)) - FpTimes(a, c)) <= n
          /\ c # 0 => Abs(sh!recons(sh!DivConst(s, c)) - FpOver(a, c)) <= n + 1
          /\ c # 0 => Abs(sh!recons(sh!VecDivConst(<<s>>, c)[1]) - FpTimes(a, FpInv(c))) <= n

\* The product of two shared numbers opens to their product whatever the
\* shares and whatever the triple, exactly over the field and within a unit for
\* fixed-point numbers, one at a time or all in one message.
ProductsOpenRight ==
  /\ case.kind = "pf" =>
       LET a == pf!recons(case.s)  b == pf!recons(case.t)
           v == pf!VecMul(<<case.s, case.t>>, <<case.t, case.t>>, <<case.triple, case.triple>>)
       IN /\ pf!recons(pf!MulShare(case.s, case.t, case.triple)) = PfTimes(a, b)
          /\ pf!recons(v[1]) = PfTimes(a, b) /\ pf!recons(v[2]) = PfTimes(b, b)
          /\ pf!recons(pf!SubShare(v[1], pf!Negate(v[2]))) = PfPlus(PfTimes(a, b), PfTimes(b, b))
          /\ pf!recons(pf!VecSub(pf!VecAdd(v, v), v)[2]) = PfTimes(b, b)
  /\ case.kind = "fp" =>
       LET a == sh!recons(case.s)  b == sh!recons(case.t)
           v == sh!VecMul(<<case.s, case.t>>, <<case.t, case.t>>, <<case.triple, case.triple>>)
       IN /\ Abs(sh!recons(sh!MulShare(case.s, case.t, case.triple)) * Shift - a * b) < Shift
          /\ Abs(sh!recons(v[1]) * Shift - a * b) < Shift
          /\ Abs(sh!recons(v[2]) * Shift - b * b) < Shift

\* The shared inverse and quotient: exact over the field unless the mask is 0.
\* For fixed-point numbers the mask is lost precision: the inverse is right up
\* to as many units as the mask is large.
QuotientsOpenRight ==
  /\ case.kind = "pf" =>
       LET a == pf!recons(case.s)  b == pf!recons(case.t)  r == case.r
       IN b # 0 /\ pf!recons(r) # 0 =>
            /\ PfTimes(pf!recons(pf!DivShare(case.s, case.t, r, r, case.triple)), b) = a
            /\ PfTimes(pf!recons(pf!ConstDiv(case.c, case.t, r, r, case.triple)), b) = case.c
            /\ PfTimes(pf!recons(pf!ConstDivVec(case.c, <<case.s, case.t>>, r, r, case.triple)[2]), b)
                 = case.c
  /\ case.kind = "fp" =>
       LET a == sh!recons(case.s)  mask == sh!recons(case.r)
       IN Abs(a) >= One =>
            Abs(FpTimes(sh!recons(sh!getInv(case.s, case.r, case.r, case.triple)), a) - One)
              <= FpTimes(Trunc(mask, Shift) + 1, Abs(a))

\* Share % number, for a positive number: the remainder, rounded to a whole
\* number, whatever the mask k; it may be rounded up to the modulus.
ModIsRight ==
  case.kind = "mod" =>
    ShareMod(case.s, case.c, case.k) = FpRound(sh!recons(case.s) % case.c)

\* What the operators of Share.hpp open to, for every way to share the arguments,
\* every triple and every mask: they compute on the hidden numbers what they
\* say, although what is opened on the way, masked, costs precision.
ArithmeticOpensRight ==
  ConstantsEnterOnce /\ ProductsOpenRight /\ QuotientsOpenRight /\ ModIsRight

\* The iteration of sqrt ends up at the root, as near as the masks allow.
RootOpensRight ==
  case.kind = "root" =>
    LET a == sh!recons(case.s)
        root == sh!recons(sh!sqrt(case.s, NewtonSteps, case.r, case.r, case.triple))
    IN Abs(FpTimes(root, root) - a) <= case.tolerance

-----------------------------------------------------------------------------
Bit(b) == IF b THEN 1 ELSE 0

\* The bit subRBS makes of a random element is 0 or 1, each for half of them.
RandomBitsAreBits ==
  case.kind = "field" /\ case.x # 0 => subRBS(case.x) = Bit(2 * case.x < P)

\* The many-input gates and the prefix are right for every vector and every
\* draw of masks that are not 0.
GatesAreRight ==
  case.kind = "bits" =>
    /\ subUnboundedFanInOr(case.a, case.rnd) = Bit(\E k \in 1..L : case.a[k] = 1)
    /\ subUnboundedFanInAnd(case.a, case.rnd) = Bit(\A k \in 1..L : case.a[k] = 1)
    /\ subPrefixOr(case.a, case.rnd) = [n \in 1..L |-> Bit(\E k \in 1..n : case.a[k] = 1)]

\* Comparing bit by bit is comparing the integers.
BitwiseIsRight ==
  case.kind = "bits" =>
    \A b \in case.others : subBitwiseLessThan(case.a, b, case.rnd) = Bit(Value(case.a) < Value(b))

\* subHalfLessThan tells whether 2 a wraps, whatever r hides it.
HalfIsRight ==
  case.kind = "field" =>
    \A r \in ProperBits : subHalfLessThan(case.x, r, case.rnd) = Bit(2 * case.x < P)

\* Numbers compared in the field: for fixed-point numbers that Fp2Pf accepts,
\* comparisonTest is < and equalityTest is =, for negative numbers too.
FieldComparisonsAreRight ==
  case.kind = "pair" =>
    LET a == Fp2Pf(case.x)  b == Fp2Pf(case.y)
    IN /\ comparisonTest(a, b, case.r, case.rnd) = Bit(case.x < case.y)
       /\ \A r \in ProperBits : equalityTest(a, b, r, case.rnd) = Bit(case.x = case.y)

\* intervalTest is right unless the opened number is one of the two at which
\* the bounds of r wrap, c1 and c2 - 1.
IntervalIsRight ==
  case.kind = "interval" =>
    \A r \in ProperBits :
      PfPlus(case.a, BStoSC(r)) \notin {case.c1, case.c2 - 1} =>
        intervalTest(case.c1, case.a, case.c2, r, case.rnd) = Bit(case.c1 < case.a /\ case.a < case.c2)

\* The protocols of the second half of Compare.cpp, from the random bit up to the
\* interval test, agree with the order of the integers, for every random number
\* that is not excluded above.
FieldProtocolsAreRight ==
  /\ RandomBitsAreBits /\ GatesAreRight /\ BitwiseIsRight
  /\ HalfIsRight /\ FieldComparisonsAreRight /\ IntervalIsRight

-----------------------------------------------------------------------------
\* hjoin puts rows with equal ids side by side, each row of the left table with
\* the one of the right table that the map of its ids finds, and loses or repeats
\* none.
Hjoin == case.kind = "join" => HjoinIsRight(case.t, case.u, case.idx, case.tgt)

\* vjoin keeps the columns both tables have, in the left table's order, and every
\* row of the left table followed by the rows of the right one with new ids.
Vjoin == case.kind = "join" => VjoinIsRight(case.t, case.u, case.idx, case.tgt)

\* hjoinShare, the merge that opens no id, never joins rows whose ids differ by the
\* resolution of the comparison, and over sorted ids that are equal or clearly
\* different it joins the rows hjoin joins.
ShareJoin == case.kind = "join" => ShareJoinIsRight(case.t, case.u, case.idx, case.tgt)

\* A chain of joins keeps joining on the id column, unless a vertical join has
\* dropped a column in front of it: parseRead goes on with the first index.
ChainOfJoins ==
  case.kind = "chain" => ChainJoinsOnTheSameColumn(case.values, case.join, case.index)

\* Two parties whose databases return the pieces of a table in different orders
\* read the same rows in the same order.
ReadShare == case.kind = "read" => PartiesReadTheSame(case.mine, case.other)

\* The table a job works on is the join that was asked for, the same rows in the
\* same order at every party, for repeated, missing and unsorted ids, and for
\* nearly equal ones as far as the map and the comparison of shares tell them apart.
TablesAreRight == Hjoin /\ Vjoin /\ ShareJoin /\ ChainOfJoins /\ ReadShare
=============================================================================
