-------------------------------- MODULE Share --------------------------------
(***************************************************************************)
(* Additively shared values, Share/Share.hpp.  A shared value is written   *)
(* as the function from the parties to the value of type SV each of them   *)
(* holds; an operation that every party carries out on its own share, or   *)
(* that opens values in between, is a function of such functions.  SV is   *)
(* FixedPoint or PrimeField: the operations of SV are parameters, as SV is *)
(* of the class template.  Random numbers and triples are arguments.       *)
(***************************************************************************)
EXTENDS Sequences, Functions

CONSTANTS Parties, SP, Zero, One,
          Plus(_, _), Minus(_, _), Times(_, _), Over(_, _), Neg(_), Inv(_)

\* open followed by recons: every party sends its share to all and adds up.
recons(s) == FoldFunction(Plus, Zero, s)

Negate(s) == [p \in Parties |-> Neg(s[p])]
AddShare(s, t) == [p \in Parties |-> Plus(s[p], t[p])]
SubShare(s, t) == [p \in Parties |-> Minus(s[p], t[p])]

\* A constant is added and subtracted by SP alone, and scales every share.
AddConst(s, c) == [s EXCEPT ![SP] = Plus(@, c)]
SubConst(s, c) == [s EXCEPT ![SP] = Minus(@, c)]
MulConst(s, c) == [p \in Parties |-> Times(s[p], c)]
DivConst(s, c) == [p \in Parties |-> Over(s[p], c)]
ConstSub(c, s) == AddConst(Negate(s), c)
getConstantShare(c) == AddConst([p \in Parties |-> Zero], c)

\* Mutant: the factors of the triple are taken the wrong way round.
MulShareCrossed(x, y, t) ==
  LET d == recons(SubShare(x, t.a))
      e == recons(SubShare(y, t.b))
  IN AddConst(AddShare(AddShare(t.c, MulConst(t.a, d)), MulConst(t.b, e)), Times(d, e))

\* Share * Share with the triple t = [a, b, c], c = a * b: d = x - a and
\* e = y - b are opened, and the product is c + d b + e a + d e.
MulShare(x, y, t) ==
  LET d == recons(SubShare(x, t.a))
      e == recons(SubShare(y, t.b))
  IN AddConst(AddShare(AddShare(t.c, MulConst(t.b, d)), MulConst(t.a, e)), Times(d, e))

\* Mutant: SP keeps the secret as its share.
sharizeKeep(secret, r) == [p \in Parties |-> IF p = SP THEN secret ELSE r[p]]

\* SP draws r[p] for every other party p and keeps the difference.
sharize(secret, r) ==
  [p \in Parties |->
     IF p = SP THEN Minus(secret, recons([r EXCEPT ![SP] = Zero])) ELSE r[p]]

\* The inverse of s: u = s * r is opened to SP only, which shares 1 / u out with
\* the random numbers rs.  Here and below one triple t serves every product.
getInv(s, r, rs, t) == MulShare(sharize(Inv(recons(MulShare(s, r, t))), rs), r, t)
DivShare(x, y, r, rs, t) == MulShare(x, getInv(y, r, rs, t), t)
ConstDiv(c, s, r, rs, t) == MulConst(getInv(s, r, rs, t), c)

\* The square root of s > 0 by n steps of Newton's iteration.
sqrt(s, n, r, rs, t) ==
  LET x[k \in 0..n] ==
        DivConst(IF k = 0 THEN AddConst(s, One)
                 ELSE AddShare(x[k - 1], DivShare(s, x[k - 1], r, rs, t)), Plus(One, One))
  IN x[n]

-----------------------------------------------------------------------------
(* Vectors of shares.  An operation on two vectors refuses them unless they *)
(* are equally long.                                                        *)

VecAddConst(v, c) == [i \in DOMAIN v |-> AddConst(v[i], c)]
VecSubConst(v, c) == VecAddConst(v, Neg(c))
getAdditiveInvVec(v) == [i \in DOMAIN v |-> Negate(v[i])]
ConstSubVec(c, v) == VecAddConst(getAdditiveInvVec(v), c)
VecMulConst(v, c) == [i \in DOMAIN v |-> MulConst(v[i], c)]
VecDivConst(v, c) == VecMulConst(v, Inv(c))
getMultiplicativeInvVec(v, r, rs, t) == [i \in DOMAIN v |-> ConstDiv(One, v[i], r, rs, t)]
ConstDivVec(c, v, r, rs, t) == VecMulConst(getMultiplicativeInvVec(v, r, rs, t), c)
VecAdd(v, w) == [i \in DOMAIN v |-> AddShare(v[i], w[i])]
VecSub(v, w) == [i \in DOMAIN v |-> SubShare(v[i], w[i])]

\* All products at once: the n differences d and then the n differences e are
\* opened as one vector of 2 n values.
VecMul(v, w, t) ==
  LET n == Len(v)
      de == [i \in 1..(2 * n) |-> IF i <= n THEN SubShare(v[i], t[i].a)
                                  ELSE SubShare(w[i - n], t[i - n].b)]
      rec == [i \in DOMAIN de |-> recons(de[i])]
  IN [i \in 1..n |-> AddConst(AddShare(AddShare(t[i].c, MulConst(t[i].b, rec[i])),
                                       MulConst(t[i].a, rec[n + i])),
                              Times(rec[i], rec[n + i]))]
=============================================================================
