------------------------------- MODULE Compare -------------------------------
(***************************************************************************)
(* Comparison and rounding of shared fixed-point numbers: LTZ, the         *)
(* operators < and == of Share/Compare.cpp and getFloor of Share/Share.hpp.*)
(* All of them take the low bits of a shared integer off, one in a round;  *)
(* a round masks the number with a shared random bit and a random even     *)
(* number and opens the sum.  The parties meet in every opened value, so a *)
(* round is one step of all of them.  Shares are cut off to units at every *)
(* party on its own, which is where the results become inexact.            *)
(***************************************************************************)
EXTENDS FixedPoint, Sequences, FiniteSets

CONSTANTS Parties, SP,
          K, M,      \* k and m: the rounds of LTZ, the bits after the point
          BitDraws,  \* random numbers tried for a bit, [Parties -> Int]
          Masks,     \* random numbers tried for a mask, [Parties -> Nat]
          Inputs     \* [op, left, right]: see Init

ASSUME CompareAssumption ==
  /\ IsFiniteSet(Parties) /\ SP \in Parties /\ K \in Nat /\ M \in 0..K
  /\ \A r \in BitDraws : \E p \in Parties : r[p] # 0

sh == INSTANCE Share WITH Zero <- 0, One <- One, Plus <- FpPlus, Minus <- FpMinus,
        Times <- FpTimes, Over <- FpOver, Neg <- FpNeg, Inv <- FpInv

VARIABLES
  input,    \* the operation and its arguments
  x, y, z,  \* the variables of LTZ and getFloor, shared
  i,        \* rounds done
  verdicts, \* the answers of the comparisons made so far
  pc        \* "rounds", "done", or "exit" after std::exit

vars == <<input, x, y, z, i, verdicts, pc>>

Num(n) == FpMake(n, 1)
All(c) == [p \in Parties |-> c]
Half == FpMake(1, 2)

\* A triple of whole numbers; which one is immaterial to what is opened.
Triple == [a |-> All(Num(1)), b |-> All(Num(1)), c |-> All(Num(Cardinality(Parties)))]

\* The integer square root, two bits at a time.
Isqrt[n \in Nat] ==
  IF n = 0 THEN 0
  ELSE LET h == 2 * Isqrt[n \div 4] IN IF (h + 1) * (h + 1) <= n THEN h + 1 ELSE h

\* T(std::sqrt(n)), cut off to a unit.
FpSqrt(n) == Isqrt[n * Shift]

\* getRandBitShare, for the draw r; a draw whose square opens to 0 is repeated.
Square(r) == sh!recons(sh!MulShare(r, r, Triple))
getRandBitShare(r) ==
  sh!MulConst(sh!AddConst(sh!MulConst(r, FpOver(One, FpSqrt(Square(r)))), One), Half)

\* Mutant: the opened sum is cut off, not rounded.
getLSBShareCut(v, r0, mask) ==
  LET t == sh!recons(sh!AddShare(sh!AddShare(v, r0), sh!MulConst(mask, Num(2))))
      c == FpMod(Trunc(t, Shift) * Shift, Num(2))
  IN sh!SubShare(sh!AddConst(r0, c), sh!MulConst(r0, FpTimes(Num(2), c)))

\* The lowest bit of v: v + r0 + 2 mask is opened, and its parity, exclusive or
\* r0, is the bit.
getLSBShare(v, r0, mask) ==
  LET t == sh!recons(sh!AddShare(sh!AddShare(v, r0), sh!MulConst(mask, Num(2))))
      c == FpMod(FpRound(t), Num(2))
  IN sh!SubShare(sh!AddConst(r0, c), sh!MulConst(r0, FpTimes(Num(2), c)))

\* Share % number, right > 0: k * right - left is opened, for a random whole k,
\* and the remainder of its negation is rounded to a whole number.
ShareMod(left, right, k) ==
  FpRound((-sh!recons(sh!SubShare(sh!MulConst(k, right), left))) % right)

\* What the operators < hand to LTZ.  A constant on the left is first made a
\* share, by every party: boost derives c < s from s > c, and that from the
\* comparison of two shares.
Difference(in, turn) ==
  CASE in.op \in {"less", "floor"} -> sh!SubShare(in.left, in.right)
    [] in.op = "lessConst" -> sh!SubConst(in.left, in.right)
    [] in.op = "equal" -> IF turn = 1 THEN sh!SubShare(in.left, in.right)
                          ELSE sh!SubShare(in.right, in.left)
    [] in.op = "equalConst" -> IF turn = 1 THEN sh!SubConst(in.left, in.right)
                               ELSE sh!SubShare(All(in.right), in.left)

\* The start of LTZ and of getFloor, for the shared number s.
Start(s) ==
  LET scaled == sh!MulConst(s, Num(2^M))
  IN /\ x' = scaled
     /\ y' = sh!AddConst(scaled, Num(2^K))
     /\ z' = All(0) /\ i' = 0 /\ pc' = "rounds"

Init ==
  /\ input \in Inputs
  /\ LET scaled == sh!MulConst(Difference(input, 1), Num(2^M))
     IN x = scaled /\ y = sh!AddConst(scaled, Num(2^K))
  /\ z = All(0) /\ i = 0 /\ verdicts = << >> /\ pc = "rounds"

Rounds == IF input.op = "floor" THEN M ELSE K

\* One round of LTZ or getFloor.
Round ==
  /\ pc = "rounds" /\ i < Rounds
  /\ \E r \in BitDraws, mask \in Masks :
       LET rr == [p \in Parties |-> Num(r[p])]
           b == getLSBShare(y, getRandBitShare(rr), [p \in Parties |-> Num(mask[p])])
       IN /\ Square(rr) # 0
          /\ z' = sh!AddShare(z, sh!MulConst(b, Num(2^i)))
          /\ y' = sh!MulConst(sh!SubShare(y, b), Half)
  /\ i' = i + 1
  /\ UNCHANGED <<input, x, verdicts, pc>>

\* What == makes of its two comparisons.
Equal == verdicts = <<FALSE, FALSE>>

\* What LTZ and getFloor return, opened.
Ltz == sh!recons(sh!DivConst(sh!SubShare(z, x), Num(2^K)))
Floor == sh!recons(sh!SubConst(y, Num(2^(K - M))))

\* The operators < open what LTZ returns and decide, or end the process when
\* it is between 0.05 and 0.95; == makes two comparisons.
Decide ==
  /\ pc = "rounds" /\ i = K /\ input.op # "floor"
  /\ \/ /\ Ltz > FpMake(95, 100) \/ Ltz < FpMake(5, 100)
        /\ verdicts' = Append(verdicts, Ltz > FpMake(95, 100))
        /\ IF input.op \in {"equal", "equalConst"} /\ verdicts = << >>
           THEN Start(Difference(input, 2))
           ELSE pc' = "done" /\ UNCHANGED <<x, y, z, i>>
     \/ /\ Ltz \in FpMake(5, 100)..FpMake(95, 100)
        /\ pc' = "exit" /\ UNCHANGED <<x, y, z, i, verdicts>>
  /\ UNCHANGED input

ReturnFloor ==
  /\ pc = "rounds" /\ i = M /\ input.op = "floor"
  /\ pc' = "done"
  /\ UNCHANGED <<input, x, y, z, i, verdicts>>

Finished == pc # "rounds" /\ UNCHANGED vars

Next == Round \/ Decide \/ ReturnFloor \/ Finished
Spec == Init /\ [][Next]_vars

-----------------------------------------------------------------------------
\* The arguments as numbers.
Left == sh!recons(input.left)
Right == IF input.op \in {"lessConst", "equalConst"} THEN input.right
         ELSE sh!recons(input.right)

\* What the comparison tells apart: half a unit of the last bit kept, and what
\* the cutting off of the shares adds to it.
Slack == Cardinality(Parties) * (K + 1)
Resolution == Trunc(Shift, 2^(M + 1)) + Slack

\* The errors of the shares never push what LTZ returns into the band where
\* the operators end the process.
NeverUndecided == pc # "exit"

\* < is right about numbers that differ by more than the resolution and never
\* calls a number less than an equal one, whatever masks are drawn and however
\* the numbers are shared.
LessIsRight ==
  pc = "done" /\ input.op \in {"less", "lessConst"} =>
    /\ Left <= Right - Resolution => verdicts[1]
    /\ Left >= Right => ~ verdicts[1]

\* The same of == between two shares.
EqualIsRight ==
  pc = "done" /\ input.op = "equal" =>
    /\ Abs(Left - Right) >= Resolution => ~ Equal
    /\ Left = Right => Equal

\* getFloor is the largest whole number not above the argument, up to the
\* resolution, unless the argument is that close below the next one.
FloorIsRight ==
  pc = "done" /\ input.op = "floor" =>
    \E n \in {Left - Right, Left - Right + Resolution} :
      Abs(Floor - (n \div Shift) * Shift) <= Resolution

\* The comparisons and getFloor are right and never end the process: for numbers
\* of either sign, for differences that K bits hold and for larger ones, however
\* the numbers are shared, whatever bits and masks are drawn, and although every
\* party cuts its own share off in every round.
ComparisonsAreRight == NeverUndecided /\ LessIsRight /\ EqualIsRight /\ FloorIsRight

\* "[left == right] <=> [not (left < right)] and [not (right < left)]", when
\* right is a constant.
EqualConstIsRight ==
  pc = "done" /\ input.op = "equalConst" =>
    /\ Abs(Left - Right) >= Resolution => ~ Equal
    /\ Left = Right => Equal
=============================================================================
