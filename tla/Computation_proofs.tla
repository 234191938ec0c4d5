------------------------- MODULE Computation_proofs --------------------------
(***************************************************************************)
(* Proofs about the arithmetic, for any number of parties, any shares, any *)
(* resolution and any prime.  What a loop or a fold computes is proved by  *)
(* the least counterexample: a set of numbers, or of finite sets, that is  *)
(* not empty has a least member.                                           *)
(***************************************************************************)
EXTENDS Computation, FiniteSetTheorems, TLAPS

-----------------------------------------------------------------------------
(* Induction and recursion                                                  *)

LEMMA LeastNumber ==
  ASSUME NEW Bad \in SUBSET Nat, Bad # {}
  PROVE \E n \in Bad : \A m \in Nat : m < n => m \notin Bad
<1>1. PICK n \in Bad : \A m \in Bad : <<m, n>> \notin OpToRel(<, Nat)
  BY NatLessThanWellFounded, WFMin
<1>2. ASSUME NEW m \in Nat, m < n PROVE m \notin Bad
  BY <1>1, <1>2 DEF OpToRel
<1> QED BY <1>2

LEMMA LeastSet ==
  ASSUME NEW S, IsFiniteSet(S), NEW Bad \in SUBSET (SUBSET S), Bad # {}
  PROVE \E T \in Bad : \A U \in SUBSET T : U # T => U \notin Bad
<1>1. IsWellFoundedOn(StrictSubsetOrdering(S), SUBSET S)
  BY FS_StrictSubsetOrderingWellFounded, FS_FiniteSubsetsOfFinite
<1>2. PICK T \in Bad : \A U \in Bad : <<U, T>> \notin StrictSubsetOrdering(S)
  BY <1>1, WFMin
<1>3. ASSUME NEW U \in SUBSET T, U # T PROVE U \notin Bad
  BY <1>2, <1>3 DEF StrictSubsetOrdering
<1> QED BY <1>3

\* A function on the numbers may be defined from its value at 0 and a step.
Iterates(h, V, base, step) ==
  h \in [Nat -> V] /\ h[0] = base /\ \A n \in Nat : h[n + 1] = step[<<n, h[n]>>]

LEMMA Recursion ==
  ASSUME NEW V, NEW base \in V, NEW step \in [Nat \X V -> V]
  PROVE \E h : Iterates(h, V, base, step)
<1> DEFINE UpTo(n, h) == /\ h \in [0..n -> V] /\ h[0] = base
                         /\ \A k \in Nat : k < n => h[k + 1] = step[<<k, h[k]>>]
           Bad == {n \in Nat : ~ \E h : UpTo(n, h)}
<1>1. ASSUME NEW n \in Nat PROVE \E h : UpTo(n, h)
  <2> SUFFICES ASSUME Bad # {} PROVE FALSE
    OBVIOUS
  <2>1. PICK m \in Bad : \A k \in Nat : k < m => k \notin Bad
    <3> HIDE DEF Bad
    <3>1. Bad \in SUBSET Nat
      BY DEF Bad
    <3> QED BY <3>1, LeastNumber
  <2>2. m # 0
    <3>1. UpTo(0, [k \in 0..0 |-> base])
      OBVIOUS
    <3> QED BY <3>1
  <2>3. m \in Nat /\ m - 1 \in Nat /\ m - 1 < m
    BY <2>2
  <2>4. PICK h : UpTo(m - 1, h)
    BY <2>1, <2>3
  <2> DEFINE g == [k \in 0..m |-> IF k = m THEN step[<<m - 1, h[m - 1]>>] ELSE h[k]]
  <2>5. UpTo(m, g)
    <3>1. h[m - 1] \in V /\ step[<<m - 1, h[m - 1]>>] \in V
      BY <2>3, <2>4
    <3>2. g \in [0..m -> V] /\ g[0] = base
      BY <2>2, <2>3, <2>4, <3>1
    <3>3. ASSUME NEW k \in Nat, k < m PROVE g[k + 1] = step[<<k, g[k]>>]
      <4>1. CASE k = m - 1
        <5>1. k + 1 = m /\ k \in 0..m /\ k # m
          BY <2>3, <4>1
        <5>2. g[m] = step[<<m - 1, h[m - 1]>>] /\ g[k] = h[k]
          BY <2>3, <5>1
        <5> QED BY <4>1, <5>1, <5>2
      <4>2. CASE k < m - 1
        <5>1. g[k + 1] = h[k + 1] /\ g[k] = h[k]
          BY <2>3, <4>2
        <5> QED BY <2>4, <4>2, <5>1
      <4> QED BY <2>3, <3>3, <4>1, <4>2
    <3> HIDE DEF g
    <3> QED BY <3>2, <3>3
  <2> QED BY <2>5
<1>2. ASSUME NEW m \in Nat, NEW g, UpTo(m, g), NEW n \in Nat, NEW h, UpTo(n, h), m <= n
      PROVE g[m] = h[m]
  <2> DEFINE Off == {k \in Nat : k <= m /\ g[k] # h[k]}
  <2> SUFFICES ASSUME Off # {} PROVE FALSE
    OBVIOUS
  <2>1. PICK k \in Off : \A l \in Nat : l < k => l \notin Off
    <3> HIDE DEF Off
    <3>1. Off \in SUBSET Nat
      BY DEF Off
    <3> QED BY <3>1, LeastNumber
  <2>2. k # 0
    BY <1>2
  <2>3. k - 1 \in Nat /\ k - 1 < m /\ k - 1 < n /\ k - 1 < k /\ (k - 1) + 1 = k
    BY <2>2, <1>2
  <2>4. g[k - 1] = h[k - 1]
    BY <2>1, <2>3
  <2>5. g[(k - 1) + 1] = step[<<k - 1, g[k - 1]>>] /\ h[(k - 1) + 1] = step[<<k - 1, h[k - 1]>>]
    BY <1>2, <2>3
  <2> QED BY <2>3, <2>4, <2>5
<1> DEFINE At(n) == CHOOSE h : UpTo(n, h)
           all == [n \in Nat |-> At(n)[n]]
<1>3. ASSUME NEW n \in Nat PROVE UpTo(n, At(n))
  BY <1>1
<1>4. all \in [Nat -> V] /\ all[0] = base
  <2>1. ASSUME NEW n \in Nat PROVE At(n)[n] \in V
    <3> HIDE DEF At
    <3> QED BY <1>3
  <2>2. At(0)[0] = base
    <3> HIDE DEF At
    <3> QED BY <1>3
  <2> HIDE DEF At
  <2> QED BY <2>1, <2>2
<1>5. ASSUME NEW n \in Nat PROVE all[n + 1] = step[<<n, all[n]>>]
  <2>1. n + 1 \in Nat /\ n <= n + 1 /\ n < n + 1
    OBVIOUS
  <2>2. UpTo(n, At(n)) /\ UpTo(n + 1, At(n + 1))
    BY <1>3, <2>1
  <2>3. At(n + 1)[n] = At(n)[n]
    <3> HIDE DEF At, UpTo
    <3> QED BY <1>2, <2>1, <2>2
  <2>4. At(n + 1)[n + 1] = step[<<n, At(n + 1)[n]>>]
    BY <2>1, <2>2
  <2> HIDE DEF At
  <2> QED BY <2>1, <2>3, <2>4
<1> HIDE DEF all
<1> QED BY <1>4, <1>5 DEF Iterates

\* Induction over the numbers, and over the subsets of a finite set in the
\* order in which a fold takes their members.
LEMMA NumberInduction ==
  ASSUME NEW Good, 0 \in Good, \A n \in Nat : n \in Good => n + 1 \in Good
  PROVE Nat \subseteq Good
<1> DEFINE Bad == {n \in Nat : n \notin Good}
<1> SUFFICES ASSUME Bad # {} PROVE FALSE
  OBVIOUS
<1>1. PICK n \in Bad : \A m \in Nat : m < n => m \notin Bad
  <2> HIDE DEF Bad
  <2>1. Bad \in SUBSET Nat
    BY DEF Bad
  <2> QED BY <2>1, LeastNumber
<1>2. n \in Nat /\ n # 0
  OBVIOUS
<1>3. n - 1 \in Nat /\ n - 1 < n /\ (n - 1) + 1 = n
  BY <1>2
<1>4. n - 1 \in Good
  BY <1>1, <1>3
<1>5. (n - 1) + 1 \in Good
  BY <1>3, <1>4
<1> QED BY <1>3, <1>5

LEMMA StrongInduction ==
  ASSUME NEW Good, \A n \in Nat : (\A m \in Nat : m < n => m \in Good) => n \in Good
  PROVE Nat \subseteq Good
<1> DEFINE Bad == {n \in Nat : n \notin Good}
<1> SUFFICES ASSUME Bad # {} PROVE FALSE
  OBVIOUS
<1>1. PICK n \in Bad : \A m \in Nat : m < n => m \notin Bad
  <2> HIDE DEF Bad
  <2>1. Bad \in SUBSET Nat
    BY DEF Bad
  <2> QED BY <2>1, LeastNumber
<1> QED BY <1>1

\* The member of T that a fold takes first.
Pick(T) == CHOOSE e \in T : TRUE

LEMMA SetInduction ==
  ASSUME NEW D, IsFiniteSet(D), NEW Good, {} \in Good,
         \A T \in SUBSET D : T # {} /\ Pick(T) \in T /\ T \ {Pick(T)} \in Good => T \in Good
  PROVE SUBSET D \subseteq Good
<1> DEFINE Bad == {T \in SUBSET D : T \notin Good}
<1> SUFFICES ASSUME Bad # {} PROVE FALSE
  OBVIOUS
<1>1. PICK T \in Bad : \A U \in SUBSET T : U # T => U \notin Bad
  <2> HIDE DEF Bad
  <2>1. Bad \in SUBSET (SUBSET D)
    BY DEF Bad
  <2> QED BY <2>1, LeastSet
<1>2. T \in SUBSET D /\ T # {} /\ T \notin Good
  OBVIOUS
<1>3. Pick(T) \in T
  BY <1>2 DEF Pick
<1>4. T \ {Pick(T)} \in SUBSET T /\ T \ {Pick(T)} # T /\ T \ {Pick(T)} \in SUBSET D
  BY <1>2, <1>3
<1>5. T \ {Pick(T)} \in Good
  BY <1>1, <1>4
<1> QED BY <1>2, <1>3, <1>5

-----------------------------------------------------------------------------
(* Folds over the members of a finite set                                   *)

LEMMA PickFacts ==
  ASSUME NEW D, IsFiniteSet(D), NEW T \in SUBSET D, T # {}
  PROVE /\ Pick(T) \in T /\ Pick(T) \in D
        /\ T \ {Pick(T)} \in SUBSET D
        /\ Cardinality(T \ {Pick(T)}) \in Nat
        /\ Cardinality(T) = Cardinality(T \ {Pick(T)}) + 1
<1>1. Pick(T) \in T
  BY DEF Pick
<1>2. IsFiniteSet(T)
  BY FS_Subset
<1>3. IsFiniteSet(T \ {Pick(T)}) /\ Cardinality(T \ {Pick(T)}) = Cardinality(T) - 1
  BY <1>1, <1>2, FS_RemoveElement
<1>4. Cardinality(T) \in Nat /\ Cardinality(T \ {Pick(T)}) \in Nat
  BY <1>2, <1>3, FS_CardinalityType
<1> QED BY <1>1, <1>3, <1>4

\* g is what a fold of f with op makes of every subset of D.
IsFold(g, D, V, base, op, f) ==
  /\ g \in [SUBSET D -> V]
  /\ \A T \in SUBSET D :
       g[T] = IF T = {} THEN base ELSE op[<<f[Pick(T)], g[T \ {Pick(T)}]>>]

LEMMA FoldExists ==
  ASSUME NEW D, IsFiniteSet(D), NEW V, NEW base \in V, NEW op \in [V \X V -> V],
         NEW f \in [D -> V]
  PROVE \E g : IsFold(g, D, V, base, op, f)
<1> DEFINE W == [SUBSET D -> V]
           Deeper(h) == [T \in SUBSET D |->
                        IF T = {} THEN base ELSE op[<<f[Pick(T)], h[T \ {Pick(T)}]>>]]
           first == [T \in SUBSET D |-> base]
           step == [nh \in Nat \X W |-> Deeper(nh[2])]
<1>1. ASSUME NEW h \in W PROVE Deeper(h) \in W
  <2>1. ASSUME NEW T \in SUBSET D, T # {} PROVE op[<<f[Pick(T)], h[T \ {Pick(T)}]>>] \in V
    <3>1. Pick(T) \in D /\ T \ {Pick(T)} \in SUBSET D
      BY <2>1, PickFacts
    <3> QED BY <3>1
  <2> QED BY <2>1
<1>2. first \in W /\ step \in [Nat \X W -> W]
  <2> HIDE DEF Deeper
  <2>1. first \in W
    OBVIOUS
  <2>2. ASSUME NEW nh \in Nat \X W PROVE Deeper(nh[2]) \in W
    <3> HIDE DEF W
    <3>1. nh[2] \in W
      OBVIOUS
    <3> QED BY <3>1, <1>1
  <2>3. step \in [Nat \X W -> W]
    <3> HIDE DEF W
    <3> QED BY <2>2
  <2> QED BY <2>1, <2>3
<1>a. PICK h : Iterates(h, W, first, step)
  <2> HIDE DEF W, first, step
  <2> QED BY <1>2, Recursion
<1>3. h \in [Nat -> W] /\ h[0] = first /\ \A n \in Nat : h[n + 1] = step[<<n, h[n]>>]
  <2> HIDE DEF W, first, step
  <2> QED BY <1>a DEF Iterates
<1>4. ASSUME NEW n \in Nat PROVE h[n] \in W /\ h[n + 1] = Deeper(h[n])
  <2> HIDE DEF W, Deeper, first
  <2>1. h[n] \in W /\ <<n, h[n]>> \in Nat \X W
    BY <1>3
  <2> QED BY <1>3, <2>1
<1> DEFINE g == [T \in SUBSET D |-> h[Cardinality(T)][T]]
<1>5. ASSUME NEW T \in SUBSET D PROVE Cardinality(T) \in Nat
  BY FS_Subset, FS_CardinalityType
<1>6. g \in W
  <2> HIDE DEF Deeper
  <2> QED BY <1>4, <1>5
<1>7. ASSUME NEW T \in SUBSET D
      PROVE g[T] = IF T = {} THEN base ELSE op[<<f[Pick(T)], g[T \ {Pick(T)}]>>]
  <2>1. CASE T = {}
    <3>1. Cardinality(T) = 0
      BY <2>1, FS_EmptySet
    <3>2. g[T] = first[T]
      BY <1>3, <3>1
    <3> QED BY <2>1, <3>2
  <2>2. CASE T # {}
    <3> DEFINE n == Cardinality(T \ {Pick(T)})
    <3>1. n \in Nat /\ Cardinality(T) = n + 1 /\ T \ {Pick(T)} \in SUBSET D
      BY <2>2, PickFacts
    <3>2. h[n + 1] = Deeper(h[n])
      BY <1>4, <3>1
    <3>3. g[T] = Deeper(h[n])[T]
      BY <3>1, <3>2
    <3>4. g[T \ {Pick(T)}] = h[n][T \ {Pick(T)}]
      BY <3>1
    <3> HIDE DEF g, n
    <3> QED BY <2>2, <3>3, <3>4
  <2> QED BY <2>1, <2>2
<1> HIDE DEF g
<1> QED BY <1>6, <1>7 DEF IsFold

-----------------------------------------------------------------------------
(* Sums of integers                                                         *)

SumStep(f, g) ==
  [T \in SUBSET DOMAIN f |-> IF T = {} THEN 0 ELSE f[Pick(T)] + g[T \ {Pick(T)}]]

\* The sums of f over the subsets of its domain, and over all of it.
SumUp(f) ==
  LET g[T \in SUBSET DOMAIN f] == IF T = {} THEN 0 ELSE f[Pick(T)] + g[T \ {Pick(T)}] IN g
Total(f) == SumUp(f)[DOMAIN f]

LEMMA SumUpFacts ==
  ASSUME NEW D, IsFiniteSet(D), NEW f \in [D -> Int]
  PROVE /\ SumUp(f)[{}] = 0
        /\ \A T \in SUBSET D :
             T # {} => SumUp(f)[T] = f[Pick(T)] + SumUp(f)[T \ {Pick(T)}]
        /\ \A T \in SUBSET D : SumUp(f)[T] \in Int
<1> DEFINE op == [pr \in Int \X Int |-> pr[1] + pr[2]]
<1>1. PICK g : IsFold(g, D, Int, 0, op, f)
  <2>1. op \in [Int \X Int -> Int]
    OBVIOUS
  <2> HIDE DEF op
  <2> QED BY <2>1, FoldExists
<1>2. g = SumStep(f, g)
  <2>1. /\ g \in [SUBSET D -> Int]
        /\ \A T \in SUBSET D :
             g[T] = IF T = {} THEN 0 ELSE op[<<f[Pick(T)], g[T \ {Pick(T)}]>>]
    <3> HIDE DEF op
    <3> QED BY <1>1 DEF IsFold
  <2>2. ASSUME NEW T \in SUBSET D, T # {} PROVE g[T] = f[Pick(T)] + g[T \ {Pick(T)}]
    <3>1. Pick(T) \in D /\ T \ {Pick(T)} \in SUBSET D
      BY <2>2, PickFacts
    <3>2. f[Pick(T)] \in Int /\ g[T \ {Pick(T)}] \in Int
      BY <2>1, <3>1
    <3> QED BY <2>1, <2>2, <3>2
  <2>3. DOMAIN f = D
    OBVIOUS
  <2> HIDE DEF op
  <2> QED BY <2>1, <2>2, <2>3 DEF SumStep
<1>3. SumUp(f) = SumStep(f, SumUp(f))
  BY <1>2 DEF SumUp, SumStep
<1>4. /\ SumUp(f)[{}] = 0
      /\ \A T \in SUBSET D :
           T # {} => SumUp(f)[T] = f[Pick(T)] + SumUp(f)[T \ {Pick(T)}]
  <2>1. DOMAIN f = D
    OBVIOUS
  <2>2. ASSUME NEW T \in SUBSET D
        PROVE SumUp(f)[T] = IF T = {} THEN 0 ELSE f[Pick(T)] + SumUp(f)[T \ {Pick(T)}]
    BY <1>3, <2>1 DEF SumStep
  <2> QED BY <2>2
<1> DEFINE Good == {T \in SUBSET D : SumUp(f)[T] \in Int}
<1>5. ASSUME NEW T \in SUBSET D, T # {}, Pick(T) \in T, T \ {Pick(T)} \in Good
      PROVE T \in Good
  <2>1. f[Pick(T)] \in Int /\ SumUp(f)[T \ {Pick(T)}] \in Int
    BY <1>5
  <2>2. SumUp(f)[T] = f[Pick(T)] + SumUp(f)[T \ {Pick(T)}]
    BY <1>4, <1>5
  <2>3. SumUp(f)[T] \in Int
    BY <2>1, <2>2
  <2> QED BY <2>3
<1>6. {} \in Good
  BY <1>4
<1>7. SUBSET D \subseteq Good
  <2> HIDE DEF Good
  <2> QED BY <1>5, <1>6, SetInduction
<1> QED BY <1>4, <1>7

LEMMA SumStepFacts ==
  ASSUME NEW D, IsFiniteSet(D), NEW f \in [D -> Int], NEW T \in SUBSET D, Pick(T) \in T
  PROVE /\ SumUp(f)[T] = f[Pick(T)] + SumUp(f)[T \ {Pick(T)}]
        /\ f[Pick(T)] \in Int /\ SumUp(f)[T \ {Pick(T)}] \in Int
<1>1. T # {} /\ T \ {Pick(T)} \in SUBSET D /\ Pick(T) \in D
  OBVIOUS
<1> QED BY <1>1, SumUpFacts

LEMMA TotalType ==
  ASSUME NEW D, IsFiniteSet(D), NEW f \in [D -> Int]
  PROVE Total(f) \in Int
BY SumUpFacts DEF Total

\* h is a weighted sum of two functions.
Weighted(D, h, a, f, b, g) == \A e \in D : h[e] = a * f[e] + b * g[e]

LEMMA TotalLinear ==
  ASSUME NEW D, IsFiniteSet(D), NEW f \in [D -> Int], NEW g \in [D -> Int],
         NEW h \in [D -> Int], NEW a \in Int, NEW b \in Int, Weighted(D, h, a, f, b, g)
  PROVE Total(h) = a * Total(f) + b * Total(g)
<1> DEFINE Good == {T \in SUBSET D : SumUp(h)[T] = a * SumUp(f)[T] + b * SumUp(g)[T]}
<1>1. {} \in Good
  BY SumUpFacts
<1>2. ASSUME NEW T \in SUBSET D, T # {}, Pick(T) \in T, T \ {Pick(T)} \in Good
      PROVE T \in Good
  <2> DEFINE R == T \ {Pick(T)}
  <2>1. /\ SumUp(f)[T] = f[Pick(T)] + SumUp(f)[R] /\ f[Pick(T)] \in Int /\ SumUp(f)[R] \in Int
        /\ SumUp(g)[T] = g[Pick(T)] + SumUp(g)[R] /\ g[Pick(T)] \in Int /\ SumUp(g)[R] \in Int
        /\ SumUp(h)[T] = h[Pick(T)] + SumUp(h)[R]
        /\ h[Pick(T)] = a * f[Pick(T)] + b * g[Pick(T)]
    <3>1. h[Pick(T)] = a * f[Pick(T)] + b * g[Pick(T)]
      BY <1>2 DEF Weighted
    <3>2. SumUp(f)[T] = f[Pick(T)] + SumUp(f)[R] /\ f[Pick(T)] \in Int /\ SumUp(f)[R] \in Int
      BY <1>2, SumStepFacts
    <3>3. SumUp(g)[T] = g[Pick(T)] + SumUp(g)[R] /\ g[Pick(T)] \in Int /\ SumUp(g)[R] \in Int
      BY <1>2, SumStepFacts
    <3>4. SumUp(h)[T] = h[Pick(T)] + SumUp(h)[R]
      BY <1>2, SumStepFacts
    <3> QED BY <3>1, <3>2, <3>3, <3>4
  <2>2. SumUp(h)[R] = a * SumUp(f)[R] + b * SumUp(g)[R]
    BY <1>2
  <2>3. \A u, v, w, t \in Int : (a * u + b * w) + (a * v + b * t) = a * (u + v) + b * (w + t)
    OBVIOUS
  <2> HIDE DEF R
  <2>4. SumUp(h)[T] = a * SumUp(f)[T] + b * SumUp(g)[T]
    BY <2>1, <2>2, <2>3
  <2> QED BY <2>4
<1>3. SUBSET D \subseteq Good
  <2> HIDE DEF Good
  <2> QED BY <1>1, <1>2, SetInduction
<1>4. DOMAIN f = D /\ DOMAIN g = D /\ DOMAIN h = D /\ D \in SUBSET D
  OBVIOUS
<1> QED BY <1>3, <1>4 DEF Total

\* One member's share is changed.
Shifted(D, h, f, e, c) == \A d \in D : h[d] = IF d = e THEN f[d] + c ELSE f[d]

LEMMA TotalExcept ==
  ASSUME NEW D, IsFiniteSet(D), NEW f \in [D -> Int], NEW h \in [D -> Int],
         NEW e \in D, NEW c \in Int, Shifted(D, h, f, e, c)
  PROVE Total(h) = Total(f) + c
<1> DEFINE Good == {T \in SUBSET D : SumUp(h)[T] = SumUp(f)[T] + (IF e \in T THEN c ELSE 0)}
<1>1. {} \in Good
  BY SumUpFacts
<1>2. ASSUME NEW T \in SUBSET D, T # {}, Pick(T) \in T, T \ {Pick(T)} \in Good
      PROVE T \in Good
  <2> DEFINE R == T \ {Pick(T)}
  <2>1. /\ SumUp(f)[T] = f[Pick(T)] + SumUp(f)[R] /\ f[Pick(T)] \in Int /\ SumUp(f)[R] \in Int
        /\ SumUp(h)[T] = h[Pick(T)] + SumUp(h)[R]
        /\ h[Pick(T)] = IF Pick(T) = e THEN f[Pick(T)] + c ELSE f[Pick(T)]
    BY <1>2, SumStepFacts DEF Shifted
  <2>2. SumUp(h)[R] = SumUp(f)[R] + (IF e \in R THEN c ELSE 0)
    BY <1>2
  <2>3. e \in R <=> e \in T /\ e # Pick(T)
    OBVIOUS
  <2> HIDE DEF R
  <2>4. SumUp(h)[T] = SumUp(f)[T] + (IF e \in T THEN c ELSE 0)
    BY <1>2, <2>1, <2>2, <2>3
  <2> QED BY <2>4
<1>3. SUBSET D \subseteq Good
  <2> HIDE DEF Good
  <2> QED BY <1>1, <1>2, SetInduction
<1>4. DOMAIN f = D /\ DOMAIN h = D /\ D \in SUBSET D
  OBVIOUS
<1> QED BY <1>3, <1>4 DEF Total

\* A bound on every member's share is one on the sum.
LEMMA TotalBound ==
  ASSUME NEW D, IsFiniteSet(D), NEW f \in [D -> Int], NEW b \in Int,
         \A e \in D : -b <= f[e] /\ f[e] <= b
  PROVE /\ Cardinality(D) \in Nat
        /\ -(b * Cardinality(D)) <= Total(f) /\ Total(f) <= b * Cardinality(D)
<1> DEFINE Good == {T \in SUBSET D : /\ -(b * Cardinality(T)) <= SumUp(f)[T]
                                     /\ SumUp(f)[T] <= b * Cardinality(T)}
<1>1. {} \in Good
  BY SumUpFacts, FS_EmptySet
<1>2. ASSUME NEW T \in SUBSET D, T # {}, Pick(T) \in T, T \ {Pick(T)} \in Good
      PROVE T \in Good
  <2> DEFINE R == T \ {Pick(T)}
             n == Cardinality(R)
  <2>1. /\ SumUp(f)[T] = f[Pick(T)] + SumUp(f)[R] /\ f[Pick(T)] \in Int /\ SumUp(f)[R] \in Int
        /\ -b <= f[Pick(T)] /\ f[Pick(T)] <= b
    BY <1>2, SumStepFacts
  <2>2. -(b * n) <= SumUp(f)[R] /\ SumUp(f)[R] <= b * n
    BY <1>2
  <2>3. n \in Nat /\ Cardinality(T) = n + 1
    BY <1>2, PickFacts
  <2>4. b * (n + 1) = b * n + b
    BY <2>3
  <2>5. b * n \in Int
    BY <2>3
  <2> HIDE DEF R, n
  <2>6. -(b * Cardinality(T)) <= SumUp(f)[T] /\ SumUp(f)[T] <= b * Cardinality(T)
    BY <2>1, <2>2, <2>3, <2>4, <2>5
  <2> QED BY <2>6
<1>3. SUBSET D \subseteq Good
  <2> HIDE DEF Good
  <2> QED BY <1>1, <1>2, SetInduction
<1>4. DOMAIN f = D /\ D \in SUBSET D
  OBVIOUS
<1> QED BY <1>3, <1>4, FS_CardinalityType DEF Total

\* recons of fixed-point numbers is the sum.
LEMMA FpRecons ==
  ASSUME NEW s
  PROVE sh!recons(s) = Total(s)
<1>1. sh!recons(s) = LET g[T \in SUBSET DOMAIN s] ==
                           IF T = {} THEN 0
                           ELSE s[CHOOSE e \in T : TRUE] + g[T \ {CHOOSE e \in T : TRUE}]
                     IN g[DOMAIN s]
  BY DEF sh!recons, sh!FoldFunction, sh!FoldFunctionOnSet, sh!MapThenFoldSet, FpPlus
<1>2. Total(s) = LET g[T \in SUBSET DOMAIN s] ==
                       IF T = {} THEN 0
                       ELSE s[CHOOSE e \in T : TRUE] + g[T \ {CHOOSE e \in T : TRUE}]
                 IN g[DOMAIN s]
  BY DEF Total, SumUp, Pick
<1> QED BY <1>1, <1>2

-----------------------------------------------------------------------------
(* Fixed-point numbers                                                      *)

LEMMA Quotient ==
  ASSUME NEW n \in Int, NEW d \in Nat, d > 0
  PROVE /\ n \div d \in Int /\ n % d \in Int /\ 0 <= n % d /\ n % d < d
        /\ n = d * (n \div d) + (n % d)
        /\ n >= 0 => n \div d >= 0
OBVIOUS

\* Integer division goes towards zero, for every combination of signs.
LEMMA TruncFacts ==
  ASSUME NEW n \in Int, NEW d \in Int, d # 0
  PROVE /\ Trunc(n, d) \in Int
        /\ n >= 0 => /\ 0 <= Trunc(n, d) * d /\ Trunc(n, d) * d <= n
                     /\ n - Trunc(n, d) * d < Abs(d)
        /\ n <= 0 => /\ n <= Trunc(n, d) * d /\ Trunc(n, d) * d <= 0
                     /\ Trunc(n, d) * d - n < Abs(d)
<1> DEFINE a == Abs(n)
           b == Abs(d)
           q == a \div b
           r == a % b
<1>1. a \in Nat /\ b \in Nat /\ b > 0
  BY DEF Abs
<1>2. q \in Int /\ r \in Int /\ 0 <= r /\ r < b /\ a = b * q + r /\ q >= 0
  <2> HIDE DEF a, b
  <2> QED BY <1>1, Quotient
<1>3. b * q \in Int /\ b * q >= 0
  <2>1. q \in Nat /\ \A u, v \in Nat : u * v \in Int /\ u * v >= 0
    BY <1>2
  <2> HIDE DEF b, q
  <2> QED BY <1>1, <2>1
<1>9. \A u, v \in Int : (-u) * v = (-v) * u /\ (-u) * v = -(v * u) /\ u * v = -((-v) * u)
  OBVIOUS
<1>4. Trunc(n, d) = Sign(n) * Sign(d) * q
  BY DEF Trunc
<1>5. CASE n >= 0 /\ d > 0
  <2>1. Trunc(n, d) = q /\ a = n /\ b = d
    BY <1>2, <1>4, <1>5 DEF Sign, Abs
  <2>2. Trunc(n, d) * d = b * q
    <3> HIDE DEF a, b, q, r
    <3> QED BY <1>2, <1>9, <2>1
  <2> HIDE DEF a, b, q, r
  <2> QED BY <1>1, <1>2, <1>3, <1>5, <2>1, <2>2 DEF b
<1>6. CASE n >= 0 /\ d < 0
  <2>1. Trunc(n, d) = -q /\ a = n /\ b = -d
    BY <1>2, <1>4, <1>6 DEF Sign, Abs
  <2>2. Trunc(n, d) * d = b * q
    <3> HIDE DEF a, b, q, r
    <3> QED BY <1>2, <1>9, <2>1
  <2> HIDE DEF a, b, q, r
  <2> QED BY <1>1, <1>2, <1>3, <1>6, <2>1, <2>2 DEF b
<1>7. CASE n < 0 /\ d > 0
  <2>1. Trunc(n, d) = -q /\ a = -n /\ b = d
    BY <1>2, <1>4, <1>7 DEF Sign, Abs
  <2>2. Trunc(n, d) * d = -(b * q)
    <3> HIDE DEF a, b, q, r
    <3> QED BY <1>2, <1>9, <2>1
  <2> HIDE DEF a, b, q, r
  <2> QED BY <1>1, <1>2, <1>3, <1>7, <2>1, <2>2 DEF b
<1>8. CASE n < 0 /\ d < 0
  <2>1. Trunc(n, d) = q /\ a = -n /\ b = -d
    BY <1>2, <1>4, <1>8 DEF Sign, Abs
  <2>2. Trunc(n, d) * d = -(b * q)
    <3> HIDE DEF a, b, q, r
    <3> QED BY <1>2, <1>9, <2>1
  <2> HIDE DEF a, b, q, r
  <2> QED BY <1>1, <1>2, <1>3, <1>8, <2>1, <2>2 DEF b
<1> QED BY <1>5, <1>6, <1>7, <1>8

\* What is cut off is less than the divisor.
LEMMA TruncError ==
  ASSUME NEW n \in Int, NEW d \in Int, d # 0
  PROVE /\ Trunc(n, d) \in Int
        /\ Trunc(n, d) * d - n < Abs(d) /\ n - Trunc(n, d) * d < Abs(d)
        /\ Abs(Trunc(n, d) * d) <= Abs(n)
<1>1. Trunc(n, d) \in Int /\ Trunc(n, d) * d \in Int
  BY TruncFacts
<1>2. Abs(d) \in Nat /\ Abs(d) > 0
  BY DEF Abs
<1>3. /\ n >= 0 => /\ 0 <= Trunc(n, d) * d /\ Trunc(n, d) * d <= n
                   /\ n - Trunc(n, d) * d < Abs(d)
      /\ n <= 0 => /\ n <= Trunc(n, d) * d /\ Trunc(n, d) * d <= 0
                   /\ Trunc(n, d) * d - n < Abs(d)
  BY TruncFacts
<1>4. Trunc(n, d) * d - n < Abs(d) /\ n - Trunc(n, d) * d < Abs(d)
  BY <1>1, <1>2, <1>3
<1>5. \A u \in Int : (n >= 0 => 0 <= u /\ u <= n) /\ (n <= 0 => n <= u /\ u <= 0)
                       => Abs(u) <= Abs(n)
  BY DEF Abs
<1> QED BY <1>1, <1>3, <1>4, <1>5

\* A quotient taken in decimals is on zero's side of the exact one, and short
\* of it by at most the divisor.
LEMMA DecQuotientFacts ==
  ASSUME NEW n \in Int, NEW d \in Int, d # 0
  PROVE /\ DecQuotient(n, d) \in Int
        /\ n >= 0 => /\ 0 <= DecQuotient(n, d) * d /\ DecQuotient(n, d) * d <= n
                     /\ n - DecQuotient(n, d) * d <= Abs(d)
        /\ n <= 0 => /\ n <= DecQuotient(n, d) * d /\ DecQuotient(n, d) * d <= 0
                     /\ DecQuotient(n, d) * d - n <= Abs(d)
<1> DEFINE t == Trunc(n, d)
           w == DecQuotient(n, d)
<1>1. /\ t \in Int /\ t * d \in Int
      /\ n >= 0 => 0 <= t * d /\ t * d <= n /\ n - t * d < Abs(d)
      /\ n <= 0 => n <= t * d /\ t * d <= 0 /\ t * d - n < Abs(d)
  BY TruncFacts
<1>2. Abs(d) \in Nat /\ Abs(d) > 0
  BY DEF Abs
<1>3. w = IF n # 0 /\ t * d = n /\ CutOff(d) THEN t - Sign(t) ELSE t
  BY DEF DecQuotient
<1> HIDE DEF t, w
<1>4. CASE w = t
  BY <1>1, <1>2, <1>4 DEF w
<1>5. CASE w # t
  <2>1. n # 0 /\ t * d = n /\ w = t - Sign(t)
    BY <1>3, <1>5
  <2>2. t # 0
    BY <1>1, <2>1
  <2>3. CASE t > 0
    <3>1. w = t - 1 /\ w \in Int /\ w * d = n - d
      BY <1>1, <2>1, <2>3 DEF Sign
    <3>2. d > 0 => n >= d
      BY <1>1, <2>1, <2>3
    <3>3. d < 0 => n <= d
      BY <1>1, <2>1, <2>3
    <3>4. (d > 0 => Abs(d) = d) /\ (d < 0 => Abs(d) = -d)
      BY DEF Abs
    <3> QED BY <3>1, <3>2, <3>3, <3>4 DEF w
  <2>4. CASE t < 0
    <3>1. w = t + 1 /\ w \in Int /\ w * d = n + d
      BY <1>1, <2>1, <2>4 DEF Sign
    <3>2. d > 0 => n <= -d
      BY <1>1, <2>1, <2>4
    <3>3. d < 0 => n >= -d
      BY <1>1, <2>1, <2>4
    <3>4. (d > 0 => Abs(d) = d) /\ (d < 0 => Abs(d) = -d)
      BY DEF Abs
    <3> QED BY <3>1, <3>2, <3>3, <3>4 DEF w
  <2> QED BY <1>1, <2>2, <2>3, <2>4
<1> QED BY <1>4, <1>5

LEMMA DecQuotientError ==
  ASSUME NEW n \in Int, NEW d \in Int, d # 0
  PROVE /\ DecQuotient(n, d) \in Int
        /\ DecQuotient(n, d) * d - n <= Abs(d) /\ n - DecQuotient(n, d) * d <= Abs(d)
        /\ Abs(DecQuotient(n, d) * d) <= Abs(n)
        /\ Abs(DecQuotient(n, d) * d - n) <= Abs(d)
<1> DEFINE w == DecQuotient(n, d)
           u == w * d
<1>1. /\ w \in Int /\ u \in Int
      /\ n >= 0 => 0 <= u /\ u <= n /\ n - u <= Abs(d)
      /\ n <= 0 => n <= u /\ u <= 0 /\ u - n <= Abs(d)
  BY DecQuotientFacts
<1>2. Abs(d) \in Nat
  BY DEF Abs
<1> HIDE DEF u
<1>3. u - n <= Abs(d) /\ n - u <= Abs(d)
  BY <1>1, <1>2
<1>4. Abs(u) <= Abs(n)
  BY <1>1 DEF Abs
<1>5. \A k \in Int : k <= Abs(d) /\ -k <= Abs(d) => Abs(k) <= Abs(d)
  BY DEF Abs
<1>6. Abs(u - n) <= Abs(d)
  <2>1. u - n \in Int /\ -(u - n) = n - u
    BY <1>1
  <2> QED BY <1>3, <1>5, <2>1
<1> QED BY <1>1, <1>3, <1>4, <1>6 DEF u

LEMMA AbsTimes ==
  ASSUME NEW a \in Int, NEW b \in Nat
  PROVE Abs(a) * b = Abs(a * b)
<1>1. CASE a >= 0
  <2>1. a * b \in Int /\ a * b >= 0
    BY <1>1
  <2> QED BY <1>1, <2>1 DEF Abs
<1>2. CASE a < 0
  <2>1. a * b \in Int /\ a * b <= 0 /\ (-a) * b = -(a * b)
    BY <1>2
  <2> QED BY <1>2, <2>1 DEF Abs
<1> QED BY <1>1, <1>2

LEMMA FixedPointFacts ==
  ASSUME NEW a \in Int, NEW b \in Int
  PROVE WithinOneUnit(a, b)
<1>1. Shift \in Nat /\ Shift > 1 /\ Shift \in Int /\ Shift # 0 /\ Abs(Shift) = Shift
  BY ShiftAssumption DEF Abs
<1>2. a * b \in Int /\ a * Shift \in Int
  BY <1>1
<1>3. Abs(FpTimes(a, b) * Shift - a * b) < Shift /\ Abs(FpTimes(a, b)) * Shift <= Abs(a * b)
  <2> DEFINE t == Trunc(a * b, Shift)
  <2>1. t \in Int /\ t * Shift - a * b < Shift /\ a * b - t * Shift < Shift
    BY <1>1, <1>2, TruncError
  <2>2. Abs(t * Shift) <= Abs(a * b)
    BY <1>1, <1>2, TruncError
  <2>3. Abs(t) * Shift = Abs(t * Shift)
    BY <1>1, <2>1, AbsTimes
  <2>4. t * Shift - a * b \in Int /\ a * b - t * Shift = -(t * Shift - a * b)
    BY <1>1, <1>2, <2>1
  <2>5. Abs(t * Shift - a * b) < Shift
    BY <1>1, <2>1, <2>4 DEF Abs
  <2> HIDE DEF t
  <2> QED BY <2>2, <2>3, <2>5 DEF FpTimes, t
<1>4. ASSUME b # 0
      PROVE /\ Abs(FpOver(a, b) * b - a * Shift) <= Abs(b)
            /\ Abs(FpOver(a, b) * b) <= Abs(a * Shift)
  <2> DEFINE n == a * Shift
  <2>1. n \in Int
    BY <1>2
  <2> HIDE DEF n
  <2>2. Abs(DecQuotient(n, b) * b - n) <= Abs(b) /\ Abs(DecQuotient(n, b) * b) <= Abs(n)
    BY <1>4, <2>1, DecQuotientError
  <2> QED BY <2>2 DEF FpOver, n
<1>5. ASSUME b # 0 PROVE Abs(FpMod(a, b)) < Abs(b) /\ FpMod(a, b) * a >= 0
  <2> DEFINE u == Trunc(a, b) * b
             r == a - u
  <2>1. /\ Trunc(a, b) \in Int /\ u \in Int
        /\ a >= 0 => 0 <= u /\ u <= a /\ r < Abs(b)
        /\ a <= 0 => a <= u /\ u <= 0 /\ u - a < Abs(b)
    BY <1>5, TruncFacts
  <2>2. FpMod(a, b) = r
    BY <2>1 DEF FpMod
  <2>3. Abs(r) < Abs(b)
    <3> HIDE DEF u
    <3> QED BY <2>1 DEF Abs
  <2>4. r * a >= 0
    <3> HIDE DEF u
    <3>1. r \in Int /\ (a >= 0 => r >= 0) /\ (a <= 0 => r <= 0)
      BY <2>1
    <3> HIDE DEF r
    <3> QED BY <3>1
  <2> QED BY <2>2, <2>3, <2>4
<1>6. ASSUME b # 0
      PROVE /\ Abs(FpInv(b) * b - Shift * Shift) <= Abs(b)
            /\ Abs(FpInv(b) * b) <= Shift * Shift
  <2> DEFINE n == Shift * Shift
  <2>1. n \in Int /\ n >= 0
    BY <1>1
  <2> HIDE DEF n
  <2>2. Abs(DecQuotient(n, b) * b - n) <= Abs(b) /\ Abs(DecQuotient(n, b) * b) <= Abs(n)
    BY <1>6, <2>1, DecQuotientError
  <2>3. Abs(n) = n
    BY <2>1 DEF Abs
  <2> QED BY <2>2, <2>3 DEF FpInv, n
<1> QED BY <1>3, <1>4, <1>5, <1>6 DEF WithinOneUnit

-----------------------------------------------------------------------------
(* Remainders                                                               *)

\* There is one quotient and one remainder.
LEMMA QuotientUnique ==
  ASSUME NEW n \in Int, NEW d \in Nat, d > 0, NEW q \in Int, NEW r \in Int,
         n = d * q + r, 0 <= r, r < d
  PROVE n \div d = q /\ n % d = r
<1> DEFINE u == n \div d
           w == n % d
<1>1. u \in Int /\ w \in Int /\ 0 <= w /\ w < d /\ n = d * u + w
  BY Quotient
<1> HIDE DEF u, w
<1>2. d * (u - q) = r - w
  BY <1>1
<1>3. ~ (u - q >= 1)
  <2> SUFFICES ASSUME u - q >= 1 PROVE FALSE
    OBVIOUS
  <2>1. \A k \in Nat : k >= 1 => d * k >= d
    OBVIOUS
  <2>2. u - q \in Nat
    BY <1>1
  <2> QED BY <1>1, <1>2, <2>1, <2>2
<1>4. ~ (q - u >= 1)
  <2> SUFFICES ASSUME q - u >= 1 PROVE FALSE
    OBVIOUS
  <2>1. \A k \in Nat : k >= 1 => d * k >= d
    OBVIOUS
  <2>2. q - u \in Nat
    BY <1>1
  <2>3. d * (q - u) = w - r
    BY <1>1
  <2> QED BY <1>1, <2>1, <2>2, <2>3
<1>5. u = q
  BY <1>1, <1>3, <1>4
<1>6. w = r
  BY <1>1, <1>5
<1> QED BY <1>5, <1>6 DEF u, w

\* Numbers have the same remainder if they differ by a multiple.
LEMMA Congruence ==
  ASSUME NEW a \in Int, NEW b \in Int, NEW d \in Nat, d > 0
  PROVE a % d = b % d <=> \E k \in Int : a = b + k * d
<1>1. ASSUME a % d = b % d PROVE \E k \in Int : a = b + k * d
  <2> DEFINE u == a \div d
             v == b \div d
             r == a % d
  <2>1. u \in Int /\ v \in Int /\ r \in Int /\ a = d * u + r /\ b = d * v + r
    BY <1>1, Quotient
  <2> HIDE DEF u, v, r
  <2>2. a = b + (u - v) * d /\ u - v \in Int
    BY <2>1
  <2> QED BY <2>2
<1>2. ASSUME NEW k \in Int, a = b + k * d PROVE a % d = b % d
  <2> DEFINE v == b \div d
             r == b % d
  <2>1. v \in Int /\ r \in Int /\ 0 <= r /\ r < d /\ b = d * v + r
    BY Quotient
  <2> HIDE DEF v, r
  <2>2. a = d * (v + k) + r /\ v + k \in Int
    BY <1>2, <2>1
  <2>3. a % d = r
    BY <2>1, <2>2, QuotientUnique
  <2> QED BY <2>3 DEF r
<1> QED BY <1>1, <1>2

LEMMA ModMod ==
  ASSUME NEW a \in Int, NEW d \in Nat, d > 0
  PROVE a % d \in Int /\ a % d \in 0..(d - 1) /\ (a % d) % d = a % d
<1>1. a % d \in Int /\ 0 <= a % d /\ a % d < d
  BY Quotient
<1>2. a % d = d * 0 + (a % d)
  BY <1>1
<1>3. (a % d) % d = a % d
  BY <1>1, <1>2, QuotientUnique
<1> QED BY <1>1, <1>3

LEMMA ModSmall ==
  ASSUME NEW d \in Nat, d > 0, NEW a \in 0..(d - 1)
  PROVE a % d = a
<1>1. a = d * 0 + a
  OBVIOUS
<1> QED BY <1>1, QuotientUnique

-----------------------------------------------------------------------------
(* Shared fixed-point numbers                                               *)

Numbers == [Parties -> Int]

LEMMA PartiesFacts == IsFiniteSet(Parties) /\ SP \in Parties /\ Cardinality(Parties) \in Nat
BY CompareAssumption, FS_CardinalityType

LEMMA FpAddOpens ==
  ASSUME NEW s \in Numbers, NEW t \in Numbers
  PROVE /\ sh!AddShare(s, t) \in Numbers /\ Total(s) \in Int /\ Total(t) \in Int
        /\ Total(sh!AddShare(s, t)) = Total(s) + Total(t)
<1> DEFINE h == sh!AddShare(s, t)
<1>1. h \in Numbers /\ Weighted(Parties, h, 1, s, 1, t)
  BY DEF sh!AddShare, FpPlus, Numbers, Weighted
<1> HIDE DEF h
<1>2. Total(h) = 1 * Total(s) + 1 * Total(t)
  BY <1>1, PartiesFacts, TotalLinear DEF Numbers
<1>3. Total(s) \in Int /\ Total(t) \in Int
  BY PartiesFacts, TotalType DEF Numbers
<1> QED BY <1>1, <1>2, <1>3 DEF h

LEMMA FpSubOpens ==
  ASSUME NEW s \in Numbers, NEW t \in Numbers
  PROVE /\ sh!SubShare(s, t) \in Numbers /\ Total(s) \in Int /\ Total(t) \in Int
        /\ Total(sh!SubShare(s, t)) = Total(s) - Total(t)
<1> DEFINE h == sh!SubShare(s, t)
<1>1. h \in Numbers /\ Weighted(Parties, h, 1, s, -1, t)
  BY DEF sh!SubShare, FpMinus, Numbers, Weighted
<1> HIDE DEF h
<1>2. Total(h) = 1 * Total(s) + (-1) * Total(t)
  BY <1>1, PartiesFacts, TotalLinear DEF Numbers
<1>3. Total(s) \in Int /\ Total(t) \in Int
  BY PartiesFacts, TotalType DEF Numbers
<1> QED BY <1>1, <1>2, <1>3 DEF h

LEMMA FpNegOpens ==
  ASSUME NEW s \in Numbers
  PROVE sh!Negate(s) \in Numbers /\ Total(s) \in Int /\ Total(sh!Negate(s)) = -Total(s)
<1> DEFINE h == sh!Negate(s)
<1>1. h \in Numbers /\ Weighted(Parties, h, -1, s, 0, s)
  BY DEF sh!Negate, FpNeg, Numbers, Weighted
<1> HIDE DEF h
<1>2. Total(h) = (-1) * Total(s) + 0 * Total(s)
  BY <1>1, PartiesFacts, TotalLinear DEF Numbers
<1>3. Total(s) \in Int
  BY PartiesFacts, TotalType DEF Numbers
<1> QED BY <1>1, <1>2, <1>3 DEF h

\* A constant is added by one party only.
LEMMA FpAddConstOpens ==
  ASSUME NEW s \in Numbers, NEW c \in Int
  PROVE /\ sh!AddConst(s, c) \in Numbers /\ Total(s) \in Int
        /\ Total(sh!AddConst(s, c)) = Total(s) + c
<1> DEFINE h == sh!AddConst(s, c)
<1>1. h \in Numbers /\ Shifted(Parties, h, s, SP, c)
  BY PartiesFacts DEF sh!AddConst, FpPlus, Numbers, Shifted
<1> HIDE DEF h
<1>2. Total(h) = Total(s) + c
  BY <1>1, PartiesFacts, TotalExcept DEF Numbers
<1>3. Total(s) \in Int
  BY PartiesFacts, TotalType DEF Numbers
<1> QED BY <1>1, <1>2, <1>3 DEF h

\* Every party cuts its own share off: what they lose together is at most a
\* unit for each of them.
LEMMA TruncTotal ==
  ASSUME NEW D, IsFiniteSet(D), NEW f \in [D -> Int], NEW h \in [D -> Int],
         NEW d \in Int, d # 0, \A e \in D : h[e] = Trunc(f[e], d)
  PROVE /\ Cardinality(D) \in Nat /\ Total(h) \in Int /\ Total(f) \in Int
        /\ Abs(Total(h) - Trunc(Total(f), d)) <= Cardinality(D)
<1> DEFINE b == Abs(d) - 1
           n == Cardinality(D)
           off == [e \in D |-> d * h[e] + (-1) * f[e]]
           H == Total(h)
           F == Total(f)
           T == Trunc(F, d)
<1>1. Abs(d) \in Nat /\ Abs(d) > 0 /\ b \in Int /\ b >= 0
  BY DEF Abs
<1>2. H \in Int /\ F \in Int /\ n \in Nat
  BY TotalType, FS_CardinalityType
<1>3. off \in [D -> Int] /\ \A e \in D : -b <= off[e] /\ off[e] <= b
  <2>1. ASSUME NEW e \in D
        PROVE d * h[e] + (-1) * f[e] \in Int /\ -b <= off[e] /\ off[e] <= b
    <3> DEFINE u == f[e]
               t == Trunc(u, d)
    <3>1. u \in Int /\ h[e] = t
      OBVIOUS
    <3>2. t \in Int /\ t * d - u < Abs(d) /\ u - t * d < Abs(d)
      <4> HIDE DEF u
      <4> QED BY <3>1, TruncError
    <3>3. off[e] = d * t + (-1) * u
      BY <3>1
    <3> HIDE DEF u, t, off
    <3>4. d * t + (-1) * u = t * d - u /\ t * d \in Int
      BY <3>1, <3>2
    <3> QED BY <1>1, <3>1, <3>2, <3>3, <3>4
  <2> QED BY <2>1
<1>4. Total(off) = d * H + (-1) * F
  <2>1. Weighted(D, off, d, h, -1, f)
    BY DEF Weighted
  <2> HIDE DEF off
  <2> QED BY <1>3, <2>1, TotalLinear
<1>5. -(b * n) <= d * H + (-1) * F /\ d * H + (-1) * F <= b * n
  <2> HIDE DEF off, b
  <2> QED BY <1>1, <1>3, <1>4, TotalBound
<1>6. T \in Int /\ T * d - F < Abs(d) /\ F - T * d < Abs(d)
  <2> HIDE DEF F
  <2> QED BY <1>2, TruncError
<1> DEFINE g == H - T
<1> HIDE DEF n, off, H, F, T
<1>7. g \in Int /\ d * g = (d * H + (-1) * F) - (T * d - F)
  BY <1>2, <1>6
<1>8. b * n + Abs(d) <= Abs(d) * (n + 1) /\ b * n \in Int
  BY <1>1, <1>2
<1>9. d * g < Abs(d) * (n + 1) /\ -(d * g) < Abs(d) * (n + 1)
  <2>1. d * H \in Int /\ T * d \in Int /\ Abs(d) * (n + 1) \in Int
    BY <1>1, <1>2, <1>6
  <2> HIDE DEF g, b
  <2> QED BY <1>1, <1>2, <1>5, <1>6, <1>7, <1>8, <2>1
<1>10. g <= n /\ -g <= n
  <2> HIDE DEF g
  <2>1. \A k \in Nat : k >= n + 1 => Abs(d) * k >= Abs(d) * (n + 1)
    BY <1>1, <1>2
  <2>2. CASE g >= n + 1
    <3>1. g \in Nat /\ Abs(d) * g >= Abs(d) * (n + 1)
      BY <1>2, <1>7, <2>1, <2>2
    <3>2. Abs(d) * g = d * g \/ Abs(d) * g = -(d * g)
      BY <1>7 DEF Abs
    <3> QED BY <1>1, <1>2, <1>7, <1>9, <3>1, <3>2
  <2>3. CASE -g >= n + 1
    <3>1. -g \in Nat /\ Abs(d) * (-g) >= Abs(d) * (n + 1)
      BY <1>2, <1>7, <2>1, <2>3
    <3>2. Abs(d) * (-g) = d * g \/ Abs(d) * (-g) = -(d * g)
      BY <1>7 DEF Abs
    <3> QED BY <1>1, <1>2, <1>7, <1>9, <3>1, <3>2
  <2> QED BY <1>2, <1>7, <2>2, <2>3
<1>11. Abs(g) <= n
  <2> HIDE DEF g
  <2> QED BY <1>7, <1>10 DEF Abs
<1> QED BY <1>2, <1>11 DEF n, H, F, T

\* The same of a quotient, which may be a whole unit short itself.
LEMMA QuotientTotal ==
  ASSUME NEW D, IsFiniteSet(D), NEW f \in [D -> Int], NEW h \in [D -> Int],
         NEW d \in Int, d # 0, \A e \in D : h[e] = DecQuotient(f[e], d)
  PROVE /\ Cardinality(D) \in Nat /\ Total(h) \in Int /\ Total(f) \in Int
        /\ Abs(Total(h) - DecQuotient(Total(f), d)) <= Cardinality(D) + 1
<1> DEFINE b == Abs(d)
           n == Cardinality(D)
           off == [e \in D |-> d * h[e] + (-1) * f[e]]
           H == Total(h)
           F == Total(f)
           T == DecQuotient(F, d)
<1>1. Abs(d) \in Nat /\ Abs(d) > 0 /\ b \in Int /\ b >= 0
  BY DEF Abs
<1>2. H \in Int /\ F \in Int /\ n \in Nat
  BY TotalType, FS_CardinalityType
<1>3. off \in [D -> Int] /\ \A e \in D : -b <= off[e] /\ off[e] <= b
  <2>1. ASSUME NEW e \in D
        PROVE d * h[e] + (-1) * f[e] \in Int /\ -b <= off[e] /\ off[e] <= b
    <3> DEFINE u == f[e]
               t == DecQuotient(u, d)
    <3>1. u \in Int /\ h[e] = t
      OBVIOUS
    <3>2. t \in Int /\ t * d - u <= Abs(d) /\ u - t * d <= Abs(d)
      <4> HIDE DEF u
      <4> QED BY <3>1, DecQuotientError
    <3>3. off[e] = d * t + (-1) * u
      BY <3>1
    <3> HIDE DEF u, t, off
    <3>4. d * t + (-1) * u = t * d - u /\ t * d \in Int
      BY <3>1, <3>2
    <3> QED BY <1>1, <3>1, <3>2, <3>3, <3>4
  <2> QED BY <2>1
<1>4. Total(off) = d * H + (-1) * F
  <2>1. Weighted(D, off, d, h, -1, f)
    BY DEF Weighted
  <2> HIDE DEF off
  <2> QED BY <1>3, <2>1, TotalLinear
<1>5. -(b * n) <= d * H + (-1) * F /\ d * H + (-1) * F <= b * n
  <2> HIDE DEF off, b
  <2> QED BY <1>1, <1>3, <1>4, TotalBound
<1>6. T \in Int /\ T * d - F <= Abs(d) /\ F - T * d <= Abs(d)
  <2> HIDE DEF F
  <2> QED BY <1>2, DecQuotientError
<1> DEFINE g == H - T
<1> HIDE DEF n, off, H, F, T
<1>7. g \in Int /\ d * g = (d * H + (-1) * F) - (T * d - F)
  BY <1>2, <1>6
<1>8. b * n + Abs(d) <= Abs(d) * (n + 1) /\ b * n \in Int
  BY <1>1, <1>2
<1>9. d * g <= Abs(d) * (n + 1) /\ -(d * g) <= Abs(d) * (n + 1)
  <2>1. d * H \in Int /\ T * d \in Int /\ Abs(d) * (n + 1) \in Int
    BY <1>1, <1>2, <1>6
  <2> HIDE DEF g, b
  <2> QED BY <1>1, <1>2, <1>5, <1>6, <1>7, <1>8, <2>1
<1>10. g <= n + 1 /\ -g <= n + 1
  <2> HIDE DEF g
  <2>1. \A k \in Nat : k >= n + 2 => Abs(d) * k > Abs(d) * (n + 1)
    BY <1>1, <1>2
  <2>2. CASE g >= n + 2
    <3>1. g \in Nat /\ Abs(d) * g > Abs(d) * (n + 1)
      BY <1>2, <1>7, <2>1, <2>2
    <3>2. Abs(d) * g = d * g \/ Abs(d) * g = -(d * g)
      BY <1>7 DEF Abs
    <3> QED BY <1>1, <1>2, <1>7, <1>9, <3>1, <3>2
  <2>3. CASE -g >= n + 2
    <3>1. -g \in Nat /\ Abs(d) * (-g) > Abs(d) * (n + 1)
      BY <1>2, <1>7, <2>1, <2>3
    <3>2. Abs(d) * (-g) = d * g \/ Abs(d) * (-g) = -(d * g)
      BY <1>7 DEF Abs
    <3> QED BY <1>1, <1>2, <1>7, <1>9, <3>1, <3>2
  <2> QED BY <1>2, <1>7, <2>2, <2>3
<1>11. Abs(g) <= n + 1
  <2> HIDE DEF g
  <2> QED BY <1>7, <1>10 DEF Abs
<1> QED BY <1>2, <1>11 DEF n, H, F, T

LEMMA FpMulConstOpens ==
  ASSUME NEW s \in Numbers, NEW c \in Int
  PROVE /\ sh!MulConst(s, c) \in Numbers /\ Total(s) \in Int
        /\ Abs(Total(sh!MulConst(s, c)) - FpTimes(Total(s), c)) <= Cardinality(Parties)
<1> DEFINE f == [e \in Parties |-> c * s[e] + 0 * s[e]]
           h == sh!MulConst(s, c)
<1>1. Shift \in Int /\ Shift # 0
  BY ShiftAssumption
<1>2. f \in Numbers /\ Weighted(Parties, f, c, s, 0, s) /\ \A e \in Parties : f[e] = s[e] * c
  BY DEF Numbers, Weighted
<1>3. ASSUME NEW e \in Parties PROVE h[e] = Trunc(f[e], Shift) /\ h[e] \in Int
  <2>1. h[e] = Trunc(s[e] * c, Shift)
    BY DEF sh!MulConst, FpTimes
  <2>2. f[e] = s[e] * c /\ f[e] \in Int
    BY <1>2 DEF Numbers
  <2> HIDE DEF f
  <2> QED BY <1>1, <2>1, <2>2, TruncError
<1>4. h \in Numbers
  <2>1. h = [e \in Parties |-> h[e]]
    BY DEF sh!MulConst
  <2> HIDE DEF h, f
  <2> QED BY <1>3, <2>1 DEF Numbers
<1> HIDE DEF f, h
<1>5. Total(f) = c * Total(s) + 0 * Total(s)
  BY <1>2, PartiesFacts, TotalLinear DEF Numbers
<1>6. Total(s) \in Int
  BY PartiesFacts, TotalType DEF Numbers
<1>7. Total(f) = Total(s) * c
  BY <1>5, <1>6
<1>8. Abs(Total(h) - Trunc(Total(f), Shift)) <= Cardinality(Parties)
  BY <1>1, <1>2, <1>3, <1>4, PartiesFacts, TruncTotal DEF Numbers
<1> QED BY <1>4, <1>6, <1>7, <1>8 DEF h, FpTimes

LEMMA FpDivConstOpens ==
  ASSUME NEW s \in Numbers, NEW c \in Int, c # 0
  PROVE Abs(Total(sh!DivConst(s, c)) - FpOver(Total(s), c)) <= Cardinality(Parties) + 1
<1> DEFINE f == [e \in Parties |-> Shift * s[e] + 0 * s[e]]
           h == sh!DivConst(s, c)
<1>1. Shift \in Int
  BY ShiftAssumption
<1>2. f \in Numbers /\ Weighted(Parties, f, Shift, s, 0, s) /\ \A e \in Parties : f[e] = s[e] * Shift
  BY <1>1 DEF Numbers, Weighted
<1>3. ASSUME NEW e \in Parties PROVE h[e] = DecQuotient(f[e], c) /\ h[e] \in Int
  <2>1. h[e] = DecQuotient(s[e] * Shift, c)
    BY DEF sh!DivConst, FpOver
  <2>2. f[e] = s[e] * Shift /\ f[e] \in Int
    BY <1>2 DEF Numbers
  <2> HIDE DEF f
  <2> QED BY <2>1, <2>2, DecQuotientError
<1>4. h \in Numbers
  <2>1. h = [e \in Parties |-> h[e]]
    BY DEF sh!DivConst
  <2> HIDE DEF h, f
  <2> QED BY <1>3, <2>1 DEF Numbers
<1> HIDE DEF f, h
<1>5. Total(f) = Shift * Total(s) + 0 * Total(s)
  BY <1>1, <1>2, PartiesFacts, TotalLinear DEF Numbers
<1>6. Total(s) \in Int
  BY PartiesFacts, TotalType DEF Numbers
<1>7. Total(f) = Total(s) * Shift
  BY <1>1, <1>5, <1>6
<1>8. Abs(Total(h) - DecQuotient(Total(f), c)) <= Cardinality(Parties) + 1
  BY <1>2, <1>3, <1>4, PartiesFacts, QuotientTotal DEF Numbers
<1> QED BY <1>7, <1>8 DEF h, FpOver

LEMMA FpConstSubOpens ==
  ASSUME NEW s \in Numbers, NEW c \in Int
  PROVE Total(sh!ConstSub(c, s)) = c - Total(s) /\ Total(s) \in Int
<1> DEFINE n == sh!Negate(s)
<1>1. n \in Numbers /\ Total(s) \in Int /\ Total(n) = -Total(s)
  BY FpNegOpens
<1>2. sh!ConstSub(c, s) = sh!AddConst(n, c)
  BY DEF sh!ConstSub
<1> HIDE DEF n
<1>3. Total(sh!AddConst(n, c)) = Total(n) + c
  BY <1>1, FpAddConstOpens
<1> QED BY <1>1, <1>2, <1>3

\* Nothing is cut off a multiple.
LEMMA TruncExact ==
  ASSUME NEW k \in Int, NEW d \in Nat, d > 0
  PROVE Trunc(k * d, d) = k
<1> DEFINE n == k * d
           t == Trunc(n, d)
<1>1. n \in Int /\ d \in Int /\ d # 0 /\ Abs(d) = d
  BY DEF Abs
<1>2. t \in Int /\ t * d - n < d /\ n - t * d < d
  <2> HIDE DEF n
  <2> QED BY <1>1, TruncError
<1>3. t * d - n = (t - k) * d /\ n - t * d = (k - t) * d
  <2> HIDE DEF t
  <2> QED BY <1>2
<1> HIDE DEF t, n
<1>4. \A m \in Nat : m >= 1 => m * d >= d
  OBVIOUS
<1>5. ~ (t - k >= 1)
  <2>1. t - k >= 1 => t - k \in Nat
    BY <1>2
  <2> QED BY <1>2, <1>3, <1>4, <2>1
<1>6. ~ (k - t >= 1)
  <2>1. k - t >= 1 => k - t \in Nat
    BY <1>2
  <2> QED BY <1>2, <1>3, <1>4, <2>1
<1>7. t = k
  BY <1>2, <1>5, <1>6
<1> QED BY <1>7 DEF t, n

\* The parties hold whole numbers, as they do of a triple.
WholeNumbers == {s \in Numbers : \A p \in Parties : s[p] % Shift = 0}

\* Scaling whole numbers cuts nothing off.
LEMMA FpScaleWhole ==
  ASSUME NEW s \in WholeNumbers, NEW c \in Int
  PROVE /\ sh!MulConst(s, c) \in Numbers /\ Total(s) \in Int /\ Total(sh!MulConst(s, c)) \in Int
        /\ Total(sh!MulConst(s, c)) * Shift = Total(s) * c
<1> DEFINE h == sh!MulConst(s, c)
           f == [e \in Parties |-> c * s[e] + 0 * s[e]]
<1>1. Shift \in Nat /\ Shift > 0 /\ Shift \in Int
  BY ShiftAssumption
<1>2. s \in Numbers
  BY DEF WholeNumbers
<1>3. ASSUME NEW e \in Parties PROVE h[e] \in Int /\ Shift * h[e] = c * s[e]
  <2> DEFINE k == s[e] \div Shift
             m == k * c
  <2>1. s[e] \in Int /\ s[e] % Shift = 0
    BY <1>2 DEF WholeNumbers, Numbers
  <2>2. k \in Int /\ s[e] = Shift * k
    BY <1>1, <2>1, Quotient
  <2> HIDE DEF k
  <2>3. m \in Int /\ s[e] * c = m * Shift
    BY <1>1, <2>2
  <2>4. h[e] = Trunc(s[e] * c, Shift)
    BY DEF sh!MulConst, FpTimes
  <2> HIDE DEF m, h
  <2>5. h[e] = m
    BY <1>1, <2>3, <2>4, TruncExact
  <2> QED BY <1>1, <2>1, <2>3, <2>5
<1>4. h \in Numbers
  <2>1. h = [e \in Parties |-> h[e]]
    BY DEF sh!MulConst
  <2> HIDE DEF h, f
  <2> QED BY <1>3, <2>1 DEF Numbers
<1>5. f \in Numbers /\ Weighted(Parties, f, c, s, 0, s)
  BY <1>2 DEF Numbers, Weighted
<1>6. Weighted(Parties, f, Shift, h, 0, h)
  <2>1. ASSUME NEW e \in Parties PROVE f[e] = Shift * h[e] + 0 * h[e]
    <3>1. f[e] = c * s[e] + 0 * s[e] /\ s[e] \in Int
      BY <1>2 DEF Numbers
    <3> HIDE DEF f, h
    <3> QED BY <1>1, <1>3, <3>1
  <2> HIDE DEF f, h
  <2> QED BY <2>1 DEF Weighted
<1> HIDE DEF f, h
<1>7. Total(f) = c * Total(s) + 0 * Total(s)
  BY <1>2, <1>5, PartiesFacts, TotalLinear DEF Numbers
<1>8. Total(f) = Shift * Total(h) + 0 * Total(h)
  BY <1>1, <1>4, <1>5, <1>6, PartiesFacts, TotalLinear DEF Numbers
<1>9. Total(s) \in Int /\ Total(h) \in Int
  BY <1>2, <1>4, PartiesFacts, TotalType DEF Numbers
<1>10. Total(h) * Shift = Total(s) * c
  BY <1>1, <1>7, <1>8, <1>9
<1> QED BY <1>4, <1>9, <1>10 DEF h

\* Share * Share is the product, cut off once and not once for each party.
LEMMA FpMulOpens ==
  ASSUME NEW s \in Numbers, NEW t \in Numbers, NEW tr,
         tr.a \in WholeNumbers, tr.b \in WholeNumbers, tr.c \in Numbers,
         Total(tr.c) * Shift = Total(tr.a) * Total(tr.b)
  PROVE /\ sh!MulShare(s, t, tr) \in Numbers /\ Total(sh!MulShare(s, t, tr)) \in Int
        /\ Total(s) \in Int /\ Total(t) \in Int
        /\ Abs(Total(sh!MulShare(s, t, tr)) * Shift - Total(s) * Total(t)) < Shift
<1> DEFINE X == Total(s)  Y == Total(t)  A == Total(tr.a)  B == Total(tr.b)  C == Total(tr.c)
           d == sh!recons(sh!SubShare(s, tr.a))
           e == sh!recons(sh!SubShare(t, tr.b))
           db == sh!MulConst(tr.b, d)
           ea == sh!MulConst(tr.a, e)
           u == sh!AddShare(tr.c, db)
           v == sh!AddShare(u, ea)
           m == FpTimes(d, e)
<1>1. tr.a \in WholeNumbers /\ tr.b \in WholeNumbers /\ tr.c \in Numbers
      /\ tr.a \in Numbers /\ tr.b \in Numbers
  BY DEF WholeNumbers
<1>2. Shift \in Nat /\ Shift > 0 /\ Shift \in Int
  BY ShiftAssumption
<1>3. X \in Int /\ A \in Int /\ d = X - A
  BY <1>1, FpSubOpens, FpRecons
<1>4. Y \in Int /\ B \in Int /\ e = Y - B
  BY <1>1, FpSubOpens, FpRecons
<1>5. d \in Int /\ e \in Int
  <2> HIDE DEF X, Y, A, B, d, e
  <2> QED BY <1>3, <1>4
<1>6. db \in Numbers /\ Total(db) \in Int /\ Total(db) * Shift = B * d
  <2> HIDE DEF d
  <2> QED BY <1>1, <1>5, FpScaleWhole
<1>7. ea \in Numbers /\ Total(ea) \in Int /\ Total(ea) * Shift = A * e
  <2> HIDE DEF e
  <2> QED BY <1>1, <1>5, FpScaleWhole
<1>8. u \in Numbers /\ C \in Int /\ Total(u) = C + Total(db)
  <2> HIDE DEF db
  <2> QED BY <1>1, <1>6, FpAddOpens
<1>9. v \in Numbers /\ Total(v) = Total(u) + Total(ea)
  <2> HIDE DEF u, ea
  <2> QED BY <1>7, <1>8, FpAddOpens
<1>10. m \in Int /\ m * Shift - d * e < Shift /\ d * e - m * Shift < Shift
  <2> HIDE DEF d, e
  <2>1. d * e \in Int /\ Shift # 0 /\ Abs(Shift) = Shift
    BY <1>2, <1>5 DEF Abs
  <2> QED BY <1>2, <2>1, TruncError DEF FpTimes
<1>11. Total(sh!AddConst(v, m)) = Total(v) + m /\ sh!AddConst(v, m) \in Numbers
  <2> HIDE DEF v, m
  <2> QED BY <1>9, <1>10, FpAddConstOpens
<1>12. sh!MulShare(s, t, tr) = sh!AddConst(v, m)
  BY DEF sh!MulShare
<1>13. C * Shift = A * B
  OBVIOUS
<1> DEFINE R == Total(sh!MulShare(s, t, tr))
<1> HIDE DEF X, Y, A, B, C, d, e, db, ea, u, v, m
<1>14. R = C + Total(db) + Total(ea) + m
  BY <1>6, <1>7, <1>8, <1>9, <1>10, <1>11, <1>12
<1>15. R * Shift = C * Shift + Total(db) * Shift + Total(ea) * Shift + m * Shift
  BY <1>2, <1>6, <1>7, <1>8, <1>10, <1>14
<1>16. A * B + B * d + A * e + d * e = X * Y
  BY <1>3, <1>4
<1>17. A * B \in Int /\ B * d \in Int /\ A * e \in Int /\ d * e \in Int /\ X * Y \in Int /\ m * Shift \in Int
  BY <1>2, <1>3, <1>4, <1>5, <1>10
<1>18. R * Shift - X * Y = m * Shift - d * e
  BY <1>6, <1>7, <1>13, <1>15, <1>16, <1>17
<1>19. Abs(m * Shift - d * e) < Shift
  <2> DEFINE w == m * Shift - d * e
  <2>1. w \in Int /\ w < Shift /\ -w < Shift
    BY <1>10, <1>17
  <2> HIDE DEF w
  <2>2. Abs(w) < Shift
    BY <2>1, <1>2 DEF Abs
  <2> QED BY <2>2 DEF w
<1>20. sh!MulShare(s, t, tr) \in Numbers
  BY <1>11, <1>12
<1>21. R \in Int
  BY <1>6, <1>7, <1>8, <1>10, <1>14
<1> QED BY <1>3, <1>4, <1>18, <1>19, <1>20, <1>21 DEF R, X, Y

\* Opening all differences in one message is opening them one by one.
LEMMA FpVecMul ==
  ASSUME NEW v, NEW w, NEW t, Len(v) \in Nat, NEW k \in 1..Len(v)
  PROVE sh!VecMul(v, w, t)[k] = sh!MulShare(v[k], w[k], t[k])
<1> DEFINE n == Len(v)
           de == [j \in 1..(2 * n) |-> IF j <= n THEN sh!SubShare(v[j], t[j].a)
                                       ELSE sh!SubShare(w[j - n], t[j - n].b)]
           rec == [j \in DOMAIN de |-> sh!recons(de[j])]
<1>1. /\ k \in DOMAIN de /\ n + k \in DOMAIN de
      /\ de[k] = sh!SubShare(v[k], t[k].a) /\ de[n + k] = sh!SubShare(w[k], t[k].b)
  <2>1. k \in 1..(2 * n) /\ n + k \in 1..(2 * n) /\ k <= n /\ ~ (n + k <= n) /\ (n + k) - n = k
    OBVIOUS
  <2> HIDE DEF n
  <2> QED BY <2>1
<1>2. /\ rec[k] = sh!recons(sh!SubShare(v[k], t[k].a))
      /\ rec[n + k] = sh!recons(sh!SubShare(w[k], t[k].b))
  <2> HIDE DEF de
  <2> QED BY <1>1
<1>3. sh!VecMul(v, w, t)[k] =
        sh!AddConst(sh!AddShare(sh!AddShare(t[k].c, sh!MulConst(t[k].b, rec[k])),
                                sh!MulConst(t[k].a, rec[n + k])), FpTimes(rec[k], rec[n + k]))
  BY DEF sh!VecMul
<1> HIDE DEF rec
<1> QED BY <1>2, <1>3 DEF sh!MulShare

LEMMA PfVecMul ==
  ASSUME NEW v, NEW w, NEW t, Len(v) \in Nat, NEW k \in 1..Len(v)
  PROVE pf!VecMul(v, w, t)[k] = pf!MulShare(v[k], w[k], t[k])
<1> DEFINE n == Len(v)
           de == [j \in 1..(2 * n) |-> IF j <= n THEN pf!SubShare(v[j], t[j].a)
                                       ELSE pf!SubShare(w[j - n], t[j - n].b)]
           rec == [j \in DOMAIN de |-> pf!recons(de[j])]
<1>1. /\ k \in DOMAIN de /\ n + k \in DOMAIN de
      /\ de[k] = pf!SubShare(v[k], t[k].a) /\ de[n + k] = pf!SubShare(w[k], t[k].b)
  <2>1. k \in 1..(2 * n) /\ n + k \in 1..(2 * n) /\ k <= n /\ ~ (n + k <= n) /\ (n + k) - n = k
    OBVIOUS
  <2> HIDE DEF n
  <2> QED BY <2>1
<1>2. /\ rec[k] = pf!recons(pf!SubShare(v[k], t[k].a))
      /\ rec[n + k] = pf!recons(pf!SubShare(w[k], t[k].b))
  <2> HIDE DEF de
  <2> QED BY <1>1
<1>3. pf!VecMul(v, w, t)[k] =
        pf!AddConst(pf!AddShare(pf!AddShare(t[k].c, pf!MulConst(t[k].b, rec[k])),
                                pf!MulConst(t[k].a, rec[n + k])), PfTimes(rec[k], rec[n + k]))
  BY DEF pf!VecMul
<1> HIDE DEF rec
<1> QED BY <1>2, <1>3 DEF pf!MulShare

-----------------------------------------------------------------------------
(* Sums modulo the prime                                                    *)

LEMMA FieldFacts == P \in Nat /\ P > 4 /\ Q \in Nat /\ Q > 0 /\ Field \subseteq Int
BY FieldAssumption DEF Field

\* Numbers with the same remainder, for which each other may be put in sums,
\* differences and products.
Congruent(a, b) == a % P = b % P

LEMMA SameByMultiple ==
  ASSUME NEW a \in Int, NEW b \in Int
  PROVE Congruent(a, b) <=> \E k \in Int : a = b + k * P
<1>1. P \in Nat /\ P > 0
  BY FieldFacts
<1> QED BY <1>1, Congruence DEF Congruent

LEMMA SameSum ==
  ASSUME NEW a \in Int, NEW b \in Int, NEW u \in Int, NEW v \in Int, Congruent(a, u), Congruent(b, v)
  PROVE Congruent(a + b, u + v) /\ Congruent(a - b, u - v) /\ Congruent(a * b, u * v)
<1>1. PICK k \in Int : a = u + k * P
  BY SameByMultiple
<1>2. PICK l \in Int : b = v + l * P
  BY SameByMultiple
<1>3. P \in Int
  BY FieldFacts
<1> DEFINE ab == a + b  uv == u + v  kl == k + l
           amb == a - b  umv == u - v  kml == k - l
           atb == a * b  utv == u * v  ktl == u * l + k * v + k * l * P
<1>4. ab \in Int /\ uv \in Int /\ kl \in Int /\ ab = uv + kl * P
  BY <1>1, <1>2, <1>3
<1>5. amb \in Int /\ umv \in Int /\ kml \in Int /\ amb = umv + kml * P
  BY <1>1, <1>2, <1>3
<1>6. atb \in Int /\ utv \in Int /\ ktl \in Int /\ atb = utv + ktl * P
  BY <1>1, <1>2, <1>3
<1>7. Congruent(ab, uv) /\ Congruent(amb, umv) /\ Congruent(atb, utv)
  <2> HIDE DEF ab, uv, kl, amb, umv, kml, atb, utv, ktl
  <2>1. Congruent(ab, uv)
    BY <1>4, SameByMultiple
  <2>2. Congruent(amb, umv)
    BY <1>5, SameByMultiple
  <2>3. Congruent(atb, utv)
    BY <1>6, SameByMultiple
  <2> QED BY <2>1, <2>2, <2>3
<1> QED BY <1>7

\* The remainder itself, and what a multiple of P adds to it.
LEMMA SameFacts ==
  ASSUME NEW a \in Int
  PROVE /\ a % P \in Field /\ a % P \in Int /\ Congruent(a % P, a) /\ Congruent(a, a)
        /\ a \in Field => a % P = a
        /\ Congruent(a + P, a) /\ Congruent(P + a, a)
<1>1. P \in Nat /\ P > 0
  BY FieldFacts
<1>2. a % P \in Int /\ a % P \in 0..(P - 1) /\ (a % P) % P = a % P
  BY <1>1, ModMod
<1>3. a \in Field => a % P = a
  BY <1>1, ModSmall DEF Field
<1> DEFINE n == a + P
<1>4. n \in Int /\ n = a + 1 * P /\ P + a = n
  BY <1>1
<1>5. Congruent(n, a)
  <2> HIDE DEF n
  <2> QED BY <1>4, SameByMultiple
<1> QED BY <1>2, <1>3, <1>4, <1>5 DEF Congruent, Field

\* Functions with the same remainders have sums with the same remainder.
SameResidues(D, f, g) == \A e \in D : Congruent(f[e], g[e])

LEMMA TotalResidue ==
  ASSUME NEW D, IsFiniteSet(D), NEW f \in [D -> Int], NEW g \in [D -> Int], SameResidues(D, f, g)
  PROVE Congruent(Total(f), Total(g))
<1> DEFINE Good == {T \in SUBSET D : Congruent(SumUp(f)[T], SumUp(g)[T])}
<1>1. {} \in Good
  BY SumUpFacts DEF Congruent
<1>2. ASSUME NEW T \in SUBSET D, T # {}, Pick(T) \in T, T \ {Pick(T)} \in Good
      PROVE T \in Good
  <2> DEFINE a == f[Pick(T)]  b == SumUp(f)[T \ {Pick(T)}]
             u == g[Pick(T)]  v == SumUp(g)[T \ {Pick(T)}]
  <2>1. SumUp(f)[T] = a + b /\ a \in Int /\ b \in Int
    BY <1>2, SumStepFacts
  <2>2. SumUp(g)[T] = u + v /\ u \in Int /\ v \in Int
    BY <1>2, SumStepFacts
  <2>3. Congruent(a, u) /\ Congruent(b, v)
    BY <1>2 DEF SameResidues
  <2> HIDE DEF a, b, u, v
  <2>4. Congruent(a + b, u + v)
    BY <2>1, <2>2, <2>3, SameSum
  <2> QED BY <2>1, <2>2, <2>4
<1>3. SUBSET D \subseteq Good
  <2> HIDE DEF Good
  <2> QED BY <1>1, <1>2, SetInduction
<1>4. DOMAIN f = D /\ DOMAIN g = D /\ D \in SUBSET D
  OBVIOUS
<1> QED BY <1>3, <1>4 DEF Total

\* The sums as recons forms them, reduced after every addition.
PfSumStep(f, g) ==
  [T \in SUBSET DOMAIN f |-> IF T = {} THEN 0 ELSE (f[Pick(T)] + g[T \ {Pick(T)}]) % P]
PfSumUp(f) ==
  LET g[T \in SUBSET DOMAIN f] == IF T = {} THEN 0 ELSE (f[Pick(T)] + g[T \ {Pick(T)}]) % P IN g

LEMMA PfSumUpFacts ==
  ASSUME NEW D, IsFiniteSet(D), NEW f \in [D -> Int]
  PROVE \A T \in SUBSET D : PfSumUp(f)[T] = SumUp(f)[T] % P
<1> DEFINE g == [T \in SUBSET D |-> SumUp(f)[T] % P]
<1>1. DOMAIN f = D
  OBVIOUS
<1>2. ASSUME NEW T \in SUBSET D
      PROVE g[T] = IF T = {} THEN 0 ELSE (f[Pick(T)] + g[T \ {Pick(T)}]) % P
  <2>1. CASE T = {}
    <3>1. SumUp(f)[{}] = 0 /\ 0 % P = 0
      BY FieldFacts, SumUpFacts, ModSmall
    <3> QED BY <2>1, <3>1
  <2>2. CASE T # {}
    <3> DEFINE a == f[Pick(T)]  b == SumUp(f)[T \ {Pick(T)}]
    <3>1. Pick(T) \in T /\ T \ {Pick(T)} \in SUBSET D
      BY <2>2, PickFacts
    <3>2. SumUp(f)[T] = a + b /\ a \in Int /\ b \in Int
      BY <3>1, SumStepFacts
    <3>3. g[T] = (a + b) % P /\ g[T \ {Pick(T)}] = b % P
      BY <3>1, <3>2
    <3> HIDE DEF a, b, g
    <3>4. b % P \in Int /\ Congruent(b % P, b) /\ Congruent(a, a)
      BY <3>2, SameFacts
    <3>5. Congruent(a + (b % P), a + b)
      <4> DEFINE w == b % P
      <4> HIDE DEF w
      <4>1. w \in Int /\ Congruent(w, b)
        BY <3>4 DEF w
      <4>2. Congruent(a + w, a + b)
        BY <3>2, <3>4, <4>1, SameSum
      <4> QED BY <4>2 DEF w
    <3>6. g[T] = (a + g[T \ {Pick(T)}]) % P
      BY <3>3, <3>5 DEF Congruent
    <3> QED BY <2>2, <3>6 DEF a
  <2> QED BY <2>1, <2>2
<1>3. g = PfSumStep(f, g)
  <2>1. g = [T \in SUBSET D |-> g[T]]
    OBVIOUS
  <2> HIDE DEF g
  <2> QED BY <1>1, <1>2, <2>1 DEF PfSumStep
<1>4. PfSumUp(f) = PfSumStep(f, PfSumUp(f))
  <2> HIDE DEF g
  <2> QED BY <1>3 DEF PfSumUp, PfSumStep
<1>5. ASSUME NEW T \in SUBSET D
      PROVE PfSumUp(f)[T] = IF T = {} THEN 0 ELSE (f[Pick(T)] + PfSumUp(f)[T \ {Pick(T)}]) % P
  BY <1>1, <1>4 DEF PfSumStep
<1> DEFINE Good == {T \in SUBSET D : PfSumUp(f)[T] = g[T]}
<1>6. {} \in Good
  BY <1>2, <1>5
<1>7. ASSUME NEW T \in SUBSET D, T # {}, Pick(T) \in T, T \ {Pick(T)} \in Good
      PROVE T \in Good
  <2>1. PfSumUp(f)[T \ {Pick(T)}] = g[T \ {Pick(T)}]
    BY <1>7
  <2>2. g[T] = (f[Pick(T)] + g[T \ {Pick(T)}]) % P
    <3> HIDE DEF g
    <3> QED BY <1>2, <1>7
  <2> HIDE DEF g
  <2> QED BY <1>5, <1>7, <2>1, <2>2
<1>8. SUBSET D \subseteq Good
  <2> HIDE DEF Good
  <2> QED BY <1>6, <1>7, SetInduction
<1> QED BY <1>8

\* recons of field elements is the remainder of the sum.
LEMMA PfRecons ==
  ASSUME NEW s \in Numbers
  PROVE pf!recons(s) = Total(s) % P /\ Total(s) \in Int
<1>1. pf!recons(s) = LET g[T \in SUBSET DOMAIN s] ==
                           IF T = {} THEN 0
                           ELSE (s[CHOOSE e \in T : TRUE] + g[T \ {CHOOSE e \in T : TRUE}]) % P
                     IN g[DOMAIN s]
  BY DEF pf!recons, pf!FoldFunction, pf!FoldFunctionOnSet, pf!MapThenFoldSet, PfPlus
<1>2. PfSumUp(s)[DOMAIN s] =
        LET g[T \in SUBSET DOMAIN s] ==
              IF T = {} THEN 0
              ELSE (s[CHOOSE e \in T : TRUE] + g[T \ {CHOOSE e \in T : TRUE}]) % P
        IN g[DOMAIN s]
  BY DEF PfSumUp, Pick
<1>3. pf!recons(s) = PfSumUp(s)[DOMAIN s]
  BY <1>1, <1>2
<1>4. s \in [Parties -> Int] /\ DOMAIN s = Parties /\ Parties \in SUBSET Parties
  BY DEF Numbers
<1>5. PfSumUp(s)[Parties] = SumUp(s)[Parties] % P
  BY <1>4, PartiesFacts, PfSumUpFacts
<1>6. Total(s) \in Int
  BY <1>4, PartiesFacts, TotalType
<1> QED BY <1>3, <1>4, <1>5, <1>6 DEF Total

-----------------------------------------------------------------------------
(* Shared field elements                                                    *)

LEMMA CongruentTransitive ==
  ASSUME NEW a, NEW b, NEW c, Congruent(a, b), Congruent(b, c)
  PROVE Congruent(a, c)
BY DEF Congruent

\* The reduced operations, and the negation, which is not reduced.
LEMMA PfOperations ==
  ASSUME NEW a \in Int, NEW b \in Int
  PROVE /\ PfPlus(a, b) \in Field /\ PfPlus(a, b) \in Int /\ Congruent(PfPlus(a, b), a + b)
        /\ PfMinus(a, b) \in Field /\ PfMinus(a, b) \in Int /\ Congruent(PfMinus(a, b), a - b)
        /\ PfTimes(a, b) \in Field /\ PfTimes(a, b) \in Int /\ Congruent(PfTimes(a, b), a * b)
        /\ PfNeg(a) \in Int /\ Congruent(PfNeg(a), -a)
<1>1. P \in Int
  BY FieldFacts
<1> DEFINE u == a + b  v == a - b  w == a * b  n == -a
<1>2. /\ u \in Int /\ v \in Int /\ w \in Int /\ n \in Int
      /\ PfPlus(a, b) = u % P /\ PfMinus(a, b) = (v + P) % P /\ PfTimes(a, b) = w % P
      /\ PfNeg(a) = P + n
  <2>1. a + (P - b) = v + P
    BY <1>1
  <2> QED BY <1>1, <2>1 DEF PfPlus, PfMinus, PfTimes, PfNeg
<1> HIDE DEF u, v, w, n
<1>3. u % P \in Field /\ u % P \in Int /\ Congruent(u % P, u)
  BY <1>2, SameFacts
<1>4. w % P \in Field /\ w % P \in Int /\ Congruent(w % P, w)
  BY <1>2, SameFacts
<1>5. Congruent(P + n, n) /\ P + n \in Int
  BY <1>1, <1>2, SameFacts
<1>6. (v + P) % P \in Field /\ (v + P) % P \in Int /\ Congruent((v + P) % P, v)
  <2> DEFINE m == v + P
  <2>1. m \in Int /\ Congruent(m, v)
    BY <1>1, <1>2, SameFacts
  <2> HIDE DEF m
  <2>2. m % P \in Field /\ m % P \in Int /\ Congruent(m % P, m)
    BY <2>1, SameFacts
  <2>3. Congruent(m % P, v)
    BY <2>1, <2>2, CongruentTransitive
  <2> QED BY <2>2, <2>3 DEF m
<1> QED BY <1>2, <1>3, <1>4, <1>5, <1>6 DEF u, v, w, n

PfWeighted(h, a, s, b, t) == \A e \in Parties : Congruent(h[e], a * s[e] + b * t[e])

LEMMA PfLinear ==
  ASSUME NEW s \in Numbers, NEW t \in Numbers, NEW h \in Numbers, NEW a \in Int, NEW b \in Int,
         PfWeighted(h, a, s, b, t)
  PROVE /\ Total(h) \in Int /\ Total(s) \in Int /\ Total(t) \in Int
        /\ Congruent(Total(h), a * Total(s) + b * Total(t))
<1> DEFINE f == [e \in Parties |-> a * s[e] + b * t[e]]
<1>1. f \in Numbers /\ Weighted(Parties, f, a, s, b, t)
  BY DEF Numbers, Weighted
<1>2. SameResidues(Parties, h, f)
  BY DEF SameResidues, PfWeighted
<1> HIDE DEF f
<1>3. Total(f) = a * Total(s) + b * Total(t)
  BY <1>1, PartiesFacts, TotalLinear DEF Numbers
<1>4. Congruent(Total(h), Total(f))
  BY <1>1, <1>2, PartiesFacts, TotalResidue DEF Numbers
<1>5. Total(h) \in Int /\ Total(s) \in Int /\ Total(t) \in Int
  BY PartiesFacts, TotalType DEF Numbers
<1> QED BY <1>3, <1>4, <1>5

LEMMA PfAddOpens ==
  ASSUME NEW s \in Numbers, NEW t \in Numbers
  PROVE /\ pf!AddShare(s, t) \in Numbers /\ Total(s) \in Int /\ Total(t) \in Int
        /\ Total(pf!AddShare(s, t)) \in Int
        /\ Congruent(Total(pf!AddShare(s, t)), Total(s) + Total(t))
<1> DEFINE h == pf!AddShare(s, t)
<1>1. ASSUME NEW e \in Parties
      PROVE PfPlus(s[e], t[e]) \in Int /\ Congruent(PfPlus(s[e], t[e]), 1 * s[e] + 1 * t[e])
  <2>1. s[e] \in Int /\ t[e] \in Int
    BY DEF Numbers
  <2>2. 1 * s[e] + 1 * t[e] = s[e] + t[e]
    BY <2>1
  <2> QED BY <2>1, <2>2, PfOperations
<1>2. h \in Numbers /\ PfWeighted(h, 1, s, 1, t)
  BY <1>1 DEF pf!AddShare, Numbers, PfWeighted
<1> HIDE DEF h
<1>3. Total(h) \in Int /\ Total(s) \in Int /\ Total(t) \in Int
      /\ Congruent(Total(h), 1 * Total(s) + 1 * Total(t))
  BY <1>2, PfLinear
<1> QED BY <1>2, <1>3 DEF h

LEMMA PfSubOpens ==
  ASSUME NEW s \in Numbers, NEW t \in Numbers
  PROVE /\ pf!SubShare(s, t) \in Numbers /\ Total(s) \in Int /\ Total(t) \in Int
        /\ Total(pf!SubShare(s, t)) \in Int
        /\ Congruent(Total(pf!SubShare(s, t)), Total(s) - Total(t))
<1> DEFINE h == pf!SubShare(s, t)
<1>1. ASSUME NEW e \in Parties
      PROVE PfMinus(s[e], t[e]) \in Int /\ Congruent(PfMinus(s[e], t[e]), 1 * s[e] + (-1) * t[e])
  <2>1. s[e] \in Int /\ t[e] \in Int
    BY DEF Numbers
  <2>2. 1 * s[e] + (-1) * t[e] = s[e] - t[e]
    BY <2>1
  <2> QED BY <2>1, <2>2, PfOperations
<1>2. h \in Numbers /\ PfWeighted(h, 1, s, -1, t)
  BY <1>1 DEF pf!SubShare, Numbers, PfWeighted
<1> HIDE DEF h
<1>3. Total(h) \in Int /\ Total(s) \in Int /\ Total(t) \in Int
      /\ Congruent(Total(h), 1 * Total(s) + (-1) * Total(t))
  BY <1>2, PfLinear
<1>4. 1 * Total(s) + (-1) * Total(t) = Total(s) - Total(t)
  BY <1>3
<1> QED BY <1>2, <1>3, <1>4 DEF h

LEMMA PfNegOpens ==
  ASSUME NEW s \in Numbers
  PROVE /\ pf!Negate(s) \in Numbers /\ Total(s) \in Int /\ Total(pf!Negate(s)) \in Int
        /\ Congruent(Total(pf!Negate(s)), -Total(s))
<1> DEFINE h == pf!Negate(s)
<1>1. ASSUME NEW e \in Parties
      PROVE PfNeg(s[e]) \in Int /\ Congruent(PfNeg(s[e]), (-1) * s[e] + 0 * s[e])
  <2>1. s[e] \in Int
    BY DEF Numbers
  <2>2. (-1) * s[e] + 0 * s[e] = -s[e]
    BY <2>1
  <2> QED BY <2>1, <2>2, PfOperations
<1>2. h \in Numbers /\ PfWeighted(h, -1, s, 0, s)
  BY <1>1 DEF pf!Negate, Numbers, PfWeighted
<1> HIDE DEF h
<1>3. Total(h) \in Int /\ Total(s) \in Int
      /\ Congruent(Total(h), (-1) * Total(s) + 0 * Total(s))
  BY <1>2, PfLinear
<1>4. (-1) * Total(s) + 0 * Total(s) = -Total(s)
  BY <1>3
<1> QED BY <1>2, <1>3, <1>4 DEF h

LEMMA PfMulConstOpens ==
  ASSUME NEW s \in Numbers, NEW c \in Int
  PROVE /\ pf!MulConst(s, c) \in Numbers /\ Total(s) \in Int /\ Total(pf!MulConst(s, c)) \in Int
        /\ Congruent(Total(pf!MulConst(s, c)), Total(s) * c)
<1> DEFINE h == pf!MulConst(s, c)
<1>1. ASSUME NEW e \in Parties
      PROVE PfTimes(s[e], c) \in Int /\ Congruent(PfTimes(s[e], c), c * s[e] + 0 * s[e])
  <2>1. s[e] \in Int
    BY DEF Numbers
  <2>2. c * s[e] + 0 * s[e] = s[e] * c
    BY <2>1
  <2> QED BY <2>1, <2>2, PfOperations
<1>2. h \in Numbers /\ PfWeighted(h, c, s, 0, s)
  BY <1>1 DEF pf!MulConst, Numbers, PfWeighted
<1> HIDE DEF h
<1>3. Total(h) \in Int /\ Total(s) \in Int
      /\ Congruent(Total(h), c * Total(s) + 0 * Total(s))
  BY <1>2, PfLinear
<1>4. c * Total(s) + 0 * Total(s) = Total(s) * c
  BY <1>3
<1> QED BY <1>2, <1>3, <1>4 DEF h

\* One party's share is changed, by c up to a multiple of P.
PfShifted(h, s, c) ==
  \A e \in Parties : Congruent(h[e], IF e = SP THEN s[e] + c ELSE s[e])

LEMMA PfShift ==
  ASSUME NEW s \in Numbers, NEW h \in Numbers, NEW c \in Int, PfShifted(h, s, c)
  PROVE Total(s) \in Int /\ Total(h) \in Int /\ Congruent(Total(h), Total(s) + c)
<1> DEFINE f == [e \in Parties |-> IF e = SP THEN s[e] + c ELSE s[e]]
<1>1. f \in Numbers /\ Shifted(Parties, f, s, SP, c)
  BY DEF Numbers, Shifted
<1>2. SameResidues(Parties, h, f)
  BY DEF SameResidues, PfShifted
<1> HIDE DEF f
<1>3. Total(f) = Total(s) + c
  BY <1>1, PartiesFacts, TotalExcept DEF Numbers
<1>4. Congruent(Total(h), Total(f))
  BY <1>1, <1>2, PartiesFacts, TotalResidue DEF Numbers
<1>5. Total(h) \in Int /\ Total(s) \in Int
  BY PartiesFacts, TotalType DEF Numbers
<1> QED BY <1>3, <1>4, <1>5

LEMMA PfAddConstOpens ==
  ASSUME NEW s \in Numbers, NEW c \in Int
  PROVE /\ pf!AddConst(s, c) \in Numbers /\ Total(s) \in Int /\ Total(pf!AddConst(s, c)) \in Int
        /\ Congruent(Total(pf!AddConst(s, c)), Total(s) + c)
<1> DEFINE h == pf!AddConst(s, c)
<1>1. s[SP] \in Int /\ SP \in Parties
  BY PartiesFacts DEF Numbers
<1>2. PfPlus(s[SP], c) \in Int /\ Congruent(PfPlus(s[SP], c), s[SP] + c)
  BY <1>1, PfOperations
<1>3. h \in Numbers /\ PfShifted(h, s, c)
  BY <1>1, <1>2 DEF pf!AddConst, Numbers, PfShifted, Congruent
<1> HIDE DEF h
<1>4. Total(s) \in Int /\ Total(h) \in Int /\ Congruent(Total(h), Total(s) + c)
  BY <1>3, PfShift
<1> QED BY <1>3, <1>4 DEF h

LEMMA PfSubConstOpens ==
  ASSUME NEW s \in Numbers, NEW c \in Int
  PROVE /\ pf!SubConst(s, c) \in Numbers /\ Total(s) \in Int /\ Total(pf!SubConst(s, c)) \in Int
        /\ Congruent(Total(pf!SubConst(s, c)), Total(s) - c)
<1> DEFINE h == pf!SubConst(s, c)
           n == -c
<1>1. s[SP] \in Int /\ SP \in Parties
  BY PartiesFacts DEF Numbers
<1>2. PfMinus(s[SP], c) \in Int /\ Congruent(PfMinus(s[SP], c), s[SP] + n)
  <2>1. s[SP] - c = s[SP] + n
    BY <1>1
  <2> QED BY <1>1, <2>1, PfOperations
<1>3. n \in Int
  OBVIOUS
<1> HIDE DEF n
<1>4. h \in Numbers /\ PfShifted(h, s, n)
  BY <1>1, <1>2 DEF pf!SubConst, Numbers, PfShifted, Congruent
<1> HIDE DEF h
<1>5. Total(s) \in Int /\ Total(h) \in Int /\ Congruent(Total(h), Total(s) + n)
  BY <1>3, <1>4, PfShift
<1>6. Total(s) + n = Total(s) - c
  BY <1>5 DEF n
<1> QED BY <1>4, <1>5, <1>6 DEF h

LEMMA PfConstSubOpens ==
  ASSUME NEW s \in Numbers, NEW c \in Int
  PROVE /\ pf!ConstSub(c, s) \in Numbers /\ Total(s) \in Int
        /\ Congruent(Total(pf!ConstSub(c, s)), c - Total(s))
<1> DEFINE n == pf!Negate(s)
           m == -Total(s)
<1>1. n \in Numbers /\ Total(s) \in Int /\ Total(n) \in Int /\ Congruent(Total(n), m)
  BY PfNegOpens
<1>2. pf!ConstSub(c, s) = pf!AddConst(n, c)
  BY DEF pf!ConstSub
<1>3. m \in Int
  BY <1>1
<1> HIDE DEF n, m
<1>4. pf!AddConst(n, c) \in Numbers /\ Congruent(Total(pf!AddConst(n, c)), Total(n) + c)
  BY <1>1, PfAddConstOpens
<1>5. Congruent(Total(n) + c, m + c)
  <2>1. Congruent(c, c)
    BY DEF Congruent
  <2> QED BY <1>1, <1>3, <2>1, SameSum
<1>6. Congruent(Total(pf!AddConst(n, c)), m + c)
  BY <1>4, <1>5, CongruentTransitive
<1>7. m + c = c - Total(s)
  BY <1>1 DEF m
<1> QED BY <1>1, <1>2, <1>4, <1>6, <1>7

\* What is opened of numbers that are congruent to those of the operation.
LEMMA PfOpened ==
  ASSUME NEW h \in Numbers, NEW n \in Int, Congruent(Total(h), n)
  PROVE pf!recons(h) = n % P
BY PfRecons DEF Congruent

\* The operations of the field on reduced numbers and on the numbers themselves.
LEMMA PfOfResidues ==
  ASSUME NEW a \in Int, NEW b \in Int, NEW u \in Int, NEW v \in Int,
         Congruent(a, u), Congruent(b, v)
  PROVE /\ PfPlus(a, b) = (u + v) % P /\ PfMinus(a, b) = (u - v) % P
        /\ PfTimes(a, b) = (u * v) % P
<1>1. Congruent(a + b, u + v) /\ Congruent(a - b, u - v) /\ Congruent(a * b, u * v)
  BY SameSum
<1>2. /\ PfPlus(a, b) \in Field /\ PfPlus(a, b) \in Int /\ Congruent(PfPlus(a, b), a + b)
      /\ PfMinus(a, b) \in Field /\ PfMinus(a, b) \in Int /\ Congruent(PfMinus(a, b), a - b)
      /\ PfTimes(a, b) \in Field /\ PfTimes(a, b) \in Int /\ Congruent(PfTimes(a, b), a * b)
  BY PfOperations
<1>3. /\ PfPlus(a, b) % P = PfPlus(a, b) /\ PfMinus(a, b) % P = PfMinus(a, b)
      /\ PfTimes(a, b) % P = PfTimes(a, b)
  BY <1>2, SameFacts
<1> QED BY <1>1, <1>2, <1>3 DEF Congruent

\* A triple of field elements.
PfTriple(tr) == /\ tr.a \in Numbers /\ tr.b \in Numbers /\ tr.c \in Numbers
                /\ Congruent(Total(tr.c), Total(tr.a) * Total(tr.b))

\* Share * Share is the product, whatever the triple hides the factors with.
LEMMA PfMulOpens ==
  ASSUME NEW s \in Numbers, NEW t \in Numbers, NEW tr, PfTriple(tr)
  PROVE /\ pf!MulShare(s, t, tr) \in Numbers /\ Total(s) \in Int /\ Total(t) \in Int
        /\ Total(pf!MulShare(s, t, tr)) \in Int
        /\ Congruent(Total(pf!MulShare(s, t, tr)), Total(s) * Total(t))
<1> DEFINE X == Total(s)  Y == Total(t)  A == Total(tr.a)  B == Total(tr.b)  C == Total(tr.c)
           d == pf!recons(pf!SubShare(s, tr.a))
           e == pf!recons(pf!SubShare(t, tr.b))
           db == pf!MulConst(tr.b, d)
           ea == pf!MulConst(tr.a, e)
           u == pf!AddShare(tr.c, db)
           v == pf!AddShare(u, ea)
           m == PfTimes(d, e)
           w == pf!AddConst(v, m)
<1>1. tr.a \in Numbers /\ tr.b \in Numbers /\ tr.c \in Numbers /\ Congruent(C, A * B)
  BY DEF PfTriple
<1>2. X \in Int /\ A \in Int /\ d \in Int /\ Congruent(d, X - A)
  <2> DEFINE n == X - A
             h == pf!SubShare(s, tr.a)
  <2>1. X \in Int /\ A \in Int /\ h \in Numbers /\ Congruent(Total(h), n)
    BY <1>1, PfSubOpens
  <2>2. n \in Int
    BY <2>1
  <2> HIDE DEF n, h
  <2>3. pf!recons(h) = n % P
    BY <2>1, <2>2, PfOpened
  <2>4. n % P \in Int /\ Congruent(n % P, n)
    BY <2>2, SameFacts
  <2> QED BY <2>1, <2>3, <2>4 DEF n, h
<1>3. Y \in Int /\ B \in Int /\ e \in Int /\ Congruent(e, Y - B)
  <2> DEFINE n == Y - B
             h == pf!SubShare(t, tr.b)
  <2>1. Y \in Int /\ B \in Int /\ h \in Numbers /\ Congruent(Total(h), n)
    BY <1>1, PfSubOpens
  <2>2. n \in Int
    BY <2>1
  <2> HIDE DEF n, h
  <2>3. pf!recons(h) = n % P
    BY <2>1, <2>2, PfOpened
  <2>4. n % P \in Int /\ Congruent(n % P, n)
    BY <2>2, SameFacts
  <2> QED BY <2>1, <2>3, <2>4 DEF n, h
<1> HIDE DEF d, e
<1>4. db \in Numbers /\ Total(db) \in Int /\ Congruent(Total(db), B * d)
  BY <1>1, <1>2, PfMulConstOpens
<1>5. ea \in Numbers /\ Total(ea) \in Int /\ Congruent(Total(ea), A * e)
  BY <1>1, <1>3, PfMulConstOpens
<1> HIDE DEF db, ea
<1>6. u \in Numbers /\ C \in Int /\ Total(u) \in Int /\ Congruent(Total(u), C + Total(db))
  BY <1>1, <1>4, PfAddOpens
<1> HIDE DEF u
<1>7. v \in Numbers /\ Total(v) \in Int /\ Congruent(Total(v), Total(u) + Total(ea))
  BY <1>5, <1>6, PfAddOpens
<1>8. m \in Int /\ Congruent(m, d * e)
  BY <1>2, <1>3, PfOperations
<1> HIDE DEF v, m
<1>9. w \in Numbers /\ Total(w) \in Int /\ Congruent(Total(w), Total(v) + m)
  BY <1>7, <1>8, PfAddConstOpens
<1>10. pf!MulShare(s, t, tr) = w
  BY DEF pf!MulShare, w, m, v, u, db, ea, d, e
<1> HIDE DEF w, X, Y, A, B, C
<1> DEFINE Bd == B * d  Ae == A * e  de == d * e  AB == A * B  XY == X * Y
<1>11. Bd \in Int /\ Ae \in Int /\ de \in Int /\ AB \in Int /\ XY \in Int
  BY <1>2, <1>3
<1> HIDE DEF Bd, Ae, de, AB
<1>12. Congruent(Total(u), AB + Bd)
  <2>1. Congruent(C, AB) /\ Congruent(Total(db), Bd)
    BY <1>1, <1>4 DEF AB, Bd
  <2>2. Congruent(C + Total(db), AB + Bd)
    BY <1>4, <1>6, <1>11, <2>1, SameSum
  <2> QED BY <1>6, <2>2, CongruentTransitive
<1>13. Congruent(Total(v), (AB + Bd) + Ae)
  <2> DEFINE n == AB + Bd
  <2>1. Congruent(Total(u), n) /\ Congruent(Total(ea), Ae) /\ n \in Int
    BY <1>5, <1>11, <1>12 DEF Ae
  <2> HIDE DEF n
  <2>2. Congruent(Total(u) + Total(ea), n + Ae)
    BY <1>5, <1>6, <1>11, <2>1, SameSum
  <2>3. Congruent(Total(v), n + Ae)
    BY <1>7, <2>2, CongruentTransitive
  <2> QED BY <2>3 DEF n
<1>14. Congruent(Total(w), ((AB + Bd) + Ae) + de)
  <2> DEFINE n == (AB + Bd) + Ae
  <2>1. Congruent(Total(v), n) /\ Congruent(m, de) /\ n \in Int
    BY <1>8, <1>11, <1>13 DEF de
  <2> HIDE DEF n
  <2>2. Congruent(Total(v) + m, n + de)
    BY <1>7, <1>8, <1>11, <2>1, SameSum
  <2>3. Congruent(Total(w), n + de)
    BY <1>9, <2>2, CongruentTransitive
  <2> QED BY <2>3 DEF n
<1>15. ((AB + Bd) + Ae) + de = (d + A) * (e + B)
  BY <1>2, <1>3 DEF AB, Bd, Ae, de
<1>16. Congruent(d + A, X) /\ Congruent(e + B, Y)
  <2> DEFINE j == X - A  k == Y - B
  <2>1. Congruent(d, j) /\ Congruent(e, k) /\ j \in Int /\ k \in Int /\ j + A = X /\ k + B = Y
    BY <1>2, <1>3
  <2>2. Congruent(A, A) /\ Congruent(B, B)
    BY DEF Congruent
  <2> HIDE DEF j, k
  <2>3. Congruent(d + A, j + A)
    BY <1>2, <2>1, <2>2, SameSum
  <2>4. Congruent(e + B, k + B)
    BY <1>3, <2>1, <2>2, SameSum
  <2> QED BY <2>1, <2>3, <2>4
<1>17. Congruent((d + A) * (e + B), X * Y)
  <2> DEFINE j == d + A  k == e + B
  <2>1. j \in Int /\ k \in Int
    BY <1>2, <1>3
  <2>2. Congruent(j, X) /\ Congruent(k, Y)
    BY <1>16
  <2> HIDE DEF j, k
  <2>3. Congruent(j * k, X * Y)
    BY <1>2, <1>3, <2>1, <2>2, SameSum
  <2> QED BY <2>3 DEF j, k
<1>18. Congruent(Total(w), X * Y)
  BY <1>14, <1>15, <1>17, CongruentTransitive
<1> QED BY <1>2, <1>3, <1>9, <1>10, <1>18 DEF X, Y

-----------------------------------------------------------------------------
(* Every case: the operations of Share.hpp                                  *)

\* What a case of fixed-point numbers provides.
LEMMA FpCaseFacts ==
  ASSUME NEW k, FpCase(k)
  PROVE /\ k.s \in Numbers /\ k.t \in Numbers /\ k.c \in Int
        /\ k.r \in WholeNumbers /\ (\A p \in Parties : k.r[p] > 0)
        /\ k.triple.a \in WholeNumbers /\ k.triple.b \in WholeNumbers /\ k.triple.c \in Numbers
        /\ Total(k.triple.c) * Shift = Total(k.triple.a) * Total(k.triple.b)
<1>1. /\ k.s \in Numbers /\ k.t \in Numbers /\ k.c \in Int /\ k.r \in Numbers
      /\ k.triple.a \in Numbers /\ k.triple.b \in Numbers /\ k.triple.c \in Numbers
  BY DEF FpCase, Numbers
<1>2. /\ k.triple.a \in WholeNumbers /\ k.triple.b \in WholeNumbers
      /\ k.r \in WholeNumbers /\ (\A p \in Parties : k.r[p] > 0)
  BY <1>1 DEF FpCase, WholeNumbers
<1>3. Total(k.triple.c) * Shift = Total(k.triple.a) * Total(k.triple.b)
  BY FpRecons DEF FpCase
<1> QED BY <1>1, <1>2, <1>3

LEMMA FpConstants ==
  ASSUME NEW s \in Numbers, NEW c \in Int
  PROVE LET a == sh!recons(s)  n == Cardinality(Parties)
        IN /\ sh!recons(sh!AddConst(s, c)) = a + c
           /\ sh!recons(sh!ConstSub(c, s)) = c - a
           /\ Abs(sh!recons(sh!MulConst(s, c)) - FpTimes(a, c)) <= n
           /\ c # 0 => Abs(sh!recons(sh!DivConst(s, c)) - FpOver(a, c)) <= n + 1
           /\ c # 0 => Abs(sh!recons(sh!VecDivConst(<<s>>, c)[1]) - FpTimes(a, FpInv(c))) <= n
<1>1. \A t : sh!recons(t) = Total(t)
  BY FpRecons
<1>2. Total(sh!AddConst(s, c)) = Total(s) + c
  BY FpAddConstOpens
<1>3. Total(sh!ConstSub(c, s)) = c - Total(s)
  BY FpConstSubOpens
<1>4. Abs(Total(sh!MulConst(s, c)) - FpTimes(Total(s), c)) <= Cardinality(Parties)
  BY FpMulConstOpens
<1>5. c # 0 => Abs(Total(sh!DivConst(s, c)) - FpOver(Total(s), c)) <= Cardinality(Parties) + 1
  BY FpDivConstOpens
<1>6. c # 0 => Abs(Total(sh!VecDivConst(<<s>>, c)[1]) - FpTimes(Total(s), FpInv(c)))
                 <= Cardinality(Parties)
  <2> SUFFICES ASSUME c # 0
               PROVE Abs(Total(sh!VecDivConst(<<s>>, c)[1]) - FpTimes(Total(s), FpInv(c)))
                       <= Cardinality(Parties)
    OBVIOUS
  <2> DEFINE n == FpInv(c)
  <2>1. n \in Int
    <3>1. Shift * Shift \in Int
      BY ShiftAssumption
    <3> QED BY <3>1, DecQuotientError DEF FpInv
  <2>2. sh!VecDivConst(<<s>>, c)[1] = sh!MulConst(s, n)
    BY DEF sh!VecDivConst, sh!VecMulConst
  <2> HIDE DEF n
  <2>3. Abs(Total(sh!MulConst(s, n)) - FpTimes(Total(s), n)) <= Cardinality(Parties)
    BY <2>1, FpMulConstOpens
  <2> QED BY <2>2, <2>3 DEF n
<1> QED BY <1>1, <1>2, <1>3, <1>4, <1>5, <1>6

LEMMA FpProducts ==
  ASSUME NEW k, FpCase(k)
  PROVE LET a == sh!recons(k.s)  b == sh!recons(k.t)
            v == sh!VecMul(<<k.s, k.t>>, <<k.t, k.t>>, <<k.triple, k.triple>>)
        IN /\ Abs(sh!recons(sh!MulShare(k.s, k.t, k.triple)) * Shift - a * b) < Shift
           /\ Abs(sh!recons(v[1]) * Shift - a * b) < Shift
           /\ Abs(sh!recons(v[2]) * Shift - b * b) < Shift
<1> DEFINE s == k.s  t == k.t  tr == k.triple
           vv == <<s, t>>  ww == <<t, t>>  tt == <<tr, tr>>
           v == sh!VecMul(vv, ww, tt)
<1>1. /\ s \in Numbers /\ t \in Numbers
      /\ tr.a \in WholeNumbers /\ tr.b \in WholeNumbers /\ tr.c \in Numbers
      /\ Total(tr.c) * Shift = Total(tr.a) * Total(tr.b)
  BY FpCaseFacts
<1>2. \A q : sh!recons(q) = Total(q)
  BY FpRecons
<1>3. /\ Len(vv) \in Nat /\ 1 \in 1..Len(vv) /\ 2 \in 1..Len(vv) /\ vv[1] = s /\ vv[2] = t
      /\ ww[1] = t /\ ww[2] = t /\ tt[1] = tr /\ tt[2] = tr
  OBVIOUS
<1> HIDE DEF s, t, tr, vv, ww, tt
<1>4. v[1] = sh!MulShare(s, t, tr)
  BY <1>3, FpVecMul
<1>5. v[2] = sh!MulShare(t, t, tr)
  BY <1>3, FpVecMul
<1>6. Abs(Total(sh!MulShare(s, t, tr)) * Shift - Total(s) * Total(t)) < Shift
  BY <1>1, FpMulOpens
<1>7. Abs(Total(sh!MulShare(t, t, tr)) * Shift - Total(t) * Total(t)) < Shift
  BY <1>1, FpMulOpens
<1> QED BY <1>2, <1>4, <1>5, <1>6, <1>7 DEF v, s, t, tr, vv, ww, tt

\* What a case of field elements provides.
LEMMA PfCaseFacts ==
  ASSUME NEW k, PfCase(k)
  PROVE /\ k.s \in Numbers /\ k.t \in Numbers /\ k.r \in Numbers /\ k.c \in Field /\ k.c \in Int
        /\ PfTriple(k.triple)
<1>1. Field \subseteq Int
  BY FieldFacts
<1>2. /\ k.s \in [Parties -> Field] /\ k.t \in [Parties -> Field] /\ k.r \in [Parties -> Field]
      /\ k.triple.a \in [Parties -> Field] /\ k.triple.b \in [Parties -> Field]
      /\ k.triple.c \in [Parties -> Field] /\ k.c \in Field
  BY DEF PfCase
<1>3. [Parties -> Field] \subseteq Numbers
  <2> SUFFICES ASSUME NEW f \in [Parties -> Field] PROVE f \in [Parties -> Int]
    BY DEF Numbers
  <2> QED BY <1>1
<1>4. k.triple.a \in Numbers /\ k.triple.b \in Numbers /\ k.triple.c \in Numbers
  BY <1>2, <1>3
<1> DEFINE A == Total(k.triple.a)  B == Total(k.triple.b)  C == Total(k.triple.c)
<1>5. A \in Int /\ B \in Int /\ C \in Int /\ C % P = PfTimes(A % P, B % P)
  BY <1>4, PfRecons DEF PfCase
<1> HIDE DEF A, B, C
<1>6. A % P \in Int /\ B % P \in Int /\ Congruent(A % P, A) /\ Congruent(B % P, B)
  BY <1>5, SameFacts
<1>7. PfTimes(A % P, B % P) = (A * B) % P
  <2> DEFINE m == A % P  n == B % P
  <2> HIDE DEF m, n
  <2>1. m \in Int /\ n \in Int /\ Congruent(m, A) /\ Congruent(n, B)
    BY <1>6 DEF m, n
  <2>2. PfTimes(m, n) = (A * B) % P
    BY <1>5, <2>1, PfOfResidues
  <2> QED BY <2>2 DEF m, n
<1>8. Congruent(C, A * B)
  BY <1>5, <1>7 DEF Congruent
<1>9. PfTriple(k.triple)
  BY <1>4, <1>8 DEF PfTriple, A, B, C
<1> QED BY <1>1, <1>2, <1>3, <1>9

\* An operation of the field on what is opened and on the sums of the shares.
LEMMA PfOnOpened ==
  ASSUME NEW s \in Numbers, NEW t \in Numbers, NEW c \in Int
  PROVE LET a == pf!recons(s)  b == pf!recons(t)
        IN /\ a \in Int /\ b \in Int /\ a \in Field /\ b \in Field
           /\ Congruent(a, Total(s)) /\ Congruent(b, Total(t))
           /\ PfPlus(a, c) = (Total(s) + c) % P /\ PfMinus(a, c) = (Total(s) - c) % P
           /\ PfMinus(c, a) = (c - Total(s)) % P /\ PfTimes(a, c) = (Total(s) * c) % P
           /\ PfTimes(a, b) = (Total(s) * Total(t)) % P
           /\ PfPlus(a, b) = (Total(s) + Total(t)) % P
<1> DEFINE a == pf!recons(s)  b == pf!recons(t)  X == Total(s)  Y == Total(t)
<1>1. X \in Int /\ Y \in Int /\ a = X % P /\ b = Y % P
  BY PfRecons
<1> HIDE DEF a, b, X, Y
<1>2. a \in Int /\ a \in Field /\ Congruent(a, X)
  BY <1>1, SameFacts
<1>3. b \in Int /\ b \in Field /\ Congruent(b, Y)
  BY <1>1, SameFacts
<1>4. Congruent(c, c)
  BY DEF Congruent
<1>5. PfPlus(a, c) = (X + c) % P /\ PfMinus(a, c) = (X - c) % P /\ PfTimes(a, c) = (X * c) % P
  BY <1>1, <1>2, <1>4, PfOfResidues
<1>6. PfMinus(c, a) = (c - X) % P
  BY <1>1, <1>2, <1>4, PfOfResidues
<1>7. PfTimes(a, b) = (X * Y) % P /\ PfPlus(a, b) = (X + Y) % P
  BY <1>1, <1>2, <1>3, PfOfResidues
<1> QED BY <1>2, <1>3, <1>5, <1>6, <1>7 DEF a, b, X, Y

LEMMA PfConstants ==
  ASSUME NEW s \in Numbers, NEW t \in Numbers, NEW c \in Field
  PROVE LET a == pf!recons(s)
        IN /\ pf!recons(pf!AddConst(s, c)) = PfPlus(a, c)
           /\ pf!recons(pf!SubConst(s, c)) = PfMinus(a, c)
           /\ pf!recons(pf!ConstSub(c, s)) = PfMinus(c, a)
           /\ pf!recons(pf!MulConst(s, c)) = PfTimes(a, c)
           /\ pf!recons(pf!getConstantShare(c)) = c
           /\ pf!recons(pf!VecAddConst(<<t, s>>, c)[2]) = PfPlus(a, c)
           /\ pf!recons(pf!VecSubConst(<<t, s>>, c)[2]) = PfMinus(a, c)
           /\ pf!recons(pf!ConstSubVec(c, <<t, s>>)[2]) = PfMinus(c, a)
<1> DEFINE X == Total(s)  a == pf!recons(s)
<1>1. c \in Int
  BY FieldFacts
<1>2. PfPlus(a, c) = (X + c) % P /\ PfMinus(a, c) = (X - c) % P
      /\ PfMinus(c, a) = (c - X) % P /\ PfTimes(a, c) = (X * c) % P
  BY <1>1, PfOnOpened
<1>3. X \in Int /\ X + c \in Int /\ X - c \in Int /\ c - X \in Int /\ X * c \in Int
  BY <1>1, PfRecons
<1>4. pf!recons(pf!AddConst(s, c)) = (X + c) % P
  BY <1>1, <1>3, PfAddConstOpens, PfOpened
<1>5. pf!recons(pf!SubConst(s, c)) = (X - c) % P
  BY <1>1, <1>3, PfSubConstOpens, PfOpened
<1>6. pf!recons(pf!ConstSub(c, s)) = (c - X) % P
  BY <1>1, <1>3, PfConstSubOpens, PfOpened
<1>7. pf!recons(pf!MulConst(s, c)) = (X * c) % P
  BY <1>1, <1>3, PfMulConstOpens, PfOpened
<1>8. pf!recons(pf!getConstantShare(c)) = c
  <2> DEFINE zero == [p \in Parties |-> 0]
  <2>1. zero \in Numbers /\ Weighted(Parties, zero, 0, zero, 0, zero)
    BY DEF Numbers, Weighted
  <2>2. pf!getConstantShare(c) = pf!AddConst(zero, c)
    BY DEF pf!getConstantShare
  <2> HIDE DEF zero
  <2>3. Total(zero) = 0 * Total(zero) + 0 * Total(zero) /\ Total(zero) \in Int
    BY <2>1, PartiesFacts, TotalLinear, TotalType DEF Numbers
  <2>4. Total(zero) + c = c
    BY <1>1, <2>3
  <2>5. pf!AddConst(zero, c) \in Numbers /\ Congruent(Total(pf!AddConst(zero, c)), c)
    BY <1>1, <2>1, <2>4, PfAddConstOpens
  <2>6. pf!recons(pf!AddConst(zero, c)) = c % P
    BY <1>1, <2>5, PfOpened
  <2> QED BY <1>1, <2>2, <2>6, SameFacts
<1>9. pf!VecAddConst(<<t, s>>, c)[2] = pf!AddConst(s, c)
  BY DEF pf!VecAddConst
<1>10. pf!recons(pf!VecSubConst(<<t, s>>, c)[2]) = (X - c) % P
  <2> DEFINE n == PfNeg(c)
             h == pf!AddConst(s, n)
             d == X - c
  <2>1. pf!VecSubConst(<<t, s>>, c)[2] = h
    BY DEF pf!VecSubConst, pf!VecAddConst
  <2>2. n \in Int /\ Congruent(n, -c)
    BY <1>1, PfOperations
  <2> HIDE DEF n, X
  <2>3. h \in Numbers /\ Total(h) \in Int /\ Congruent(Total(h), X + n)
    BY <2>2, PfAddConstOpens DEF X
  <2>4. Congruent(X + n, X + (-c))
    <3> DEFINE m == -c
    <3>1. m \in Int /\ Congruent(n, m) /\ Congruent(X, X)
      BY <1>1, <2>2 DEF Congruent
    <3> HIDE DEF m
    <3>2. Congruent(X + n, X + m)
      BY <1>3, <2>2, <3>1, SameSum
    <3> QED BY <3>2 DEF m
  <2>5. X + (-c) = d /\ d \in Int
    BY <1>1, <1>3
  <2> HIDE DEF h, d
  <2>6. Congruent(Total(h), d)
    BY <2>3, <2>4, <2>5, CongruentTransitive
  <2>7. pf!recons(h) = d % P
    BY <2>3, <2>5, <2>6, PfOpened
  <2> QED BY <2>1, <2>7 DEF d
<1>11. pf!ConstSubVec(c, <<t, s>>)[2] = pf!ConstSub(c, s)
  <2> DEFINE v == pf!getAdditiveInvVec(<<t, s>>)
  <2>1. 2 \in DOMAIN v /\ v[2] = pf!Negate(s)
    BY DEF pf!getAdditiveInvVec
  <2>2. pf!ConstSubVec(c, <<t, s>>) = pf!VecAddConst(v, c)
    BY DEF pf!ConstSubVec
  <2> HIDE DEF v
  <2>3. pf!VecAddConst(v, c)[2] = pf!AddConst(pf!Negate(s), c)
    BY <2>1 DEF pf!VecAddConst
  <2> QED BY <2>2, <2>3 DEF pf!ConstSub
<1> HIDE DEF X, a
<1>12. /\ pf!recons(pf!AddConst(s, c)) = PfPlus(a, c)
       /\ pf!recons(pf!SubConst(s, c)) = PfMinus(a, c)
       /\ pf!recons(pf!ConstSub(c, s)) = PfMinus(c, a)
       /\ pf!recons(pf!MulConst(s, c)) = PfTimes(a, c)
       /\ pf!recons(pf!VecSubConst(<<t, s>>, c)[2]) = PfMinus(a, c)
  BY <1>2, <1>4, <1>5, <1>6, <1>7, <1>10
<1> QED BY <1>8, <1>9, <1>11, <1>12 DEF a

LEMMA PfProducts ==
  ASSUME NEW k, PfCase(k)
  PROVE LET a == pf!recons(k.s)  b == pf!recons(k.t)
            v == pf!VecMul(<<k.s, k.t>>, <<k.t, k.t>>, <<k.triple, k.triple>>)
        IN /\ pf!recons(pf!MulShare(k.s, k.t, k.triple)) = PfTimes(a, b)
           /\ pf!recons(v[1]) = PfTimes(a, b) /\ pf!recons(v[2]) = PfTimes(b, b)
           /\ pf!recons(pf!SubShare(v[1], pf!Negate(v[2]))) = PfPlus(PfTimes(a, b), PfTimes(b, b))
           /\ pf!recons(pf!VecSub(pf!VecAdd(v, v), v)[2]) = PfTimes(b, b)
<1> DEFINE s == k.s  t == k.t  tr == k.triple
           vv == <<s, t>>  ww == <<t, t>>  tt == <<tr, tr>>
           v == pf!VecMul(vv, ww, tt)
           a == pf!recons(s)  b == pf!recons(t)
           X == Total(s)  Y == Total(t)
           st == pf!MulShare(s, t, tr)
           sq == pf!MulShare(t, t, tr)
<1>1. s \in Numbers /\ t \in Numbers /\ PfTriple(tr)
  BY PfCaseFacts
<1>2. /\ Len(vv) = 2 /\ Len(vv) \in Nat /\ 1 \in 1..Len(vv) /\ 2 \in 1..Len(vv)
      /\ vv[1] = s /\ vv[2] = t /\ ww[1] = t /\ ww[2] = t /\ tt[1] = tr /\ tt[2] = tr
  OBVIOUS
<1> HIDE DEF s, t, tr, vv, ww, tt
<1>3. v[1] = st
  BY <1>2, PfVecMul
<1>4. v[2] = sq
  BY <1>2, PfVecMul
<1>5. 2 \in DOMAIN v
  <2>1. DOMAIN v = 1..Len(vv)
    BY DEF pf!VecMul
  <2> QED BY <1>2, <2>1
<1>6. X \in Int /\ Y \in Int /\ st \in Numbers /\ Total(st) \in Int /\ Congruent(Total(st), X * Y)
  BY <1>1, PfMulOpens
<1>7. sq \in Numbers /\ Total(sq) \in Int /\ Congruent(Total(sq), Y * Y)
  BY <1>1, PfMulOpens
<1>8. PfTimes(a, b) = (X * Y) % P
  BY <1>1, PfOnOpened
<1>9. PfTimes(b, b) = (Y * Y) % P
  BY <1>1, PfOnOpened
<1> HIDE DEF a, b, X, Y, st, sq, v
<1>10. pf!recons(st) = PfTimes(a, b) /\ pf!recons(sq) = PfTimes(b, b)
  <2> DEFINE xy == X * Y  yy == Y * Y
  <2>1. xy \in Int /\ yy \in Int /\ Congruent(Total(st), xy) /\ Congruent(Total(sq), yy)
    BY <1>6, <1>7
  <2> HIDE DEF xy, yy
  <2>2. pf!recons(st) = xy % P
    BY <1>6, <2>1, PfOpened
  <2>3. pf!recons(sq) = yy % P
    BY <1>7, <2>1, PfOpened
  <2> QED BY <1>8, <1>9, <2>2, <2>3 DEF xy, yy
<1>11. pf!recons(pf!SubShare(st, pf!Negate(sq))) = PfPlus(PfTimes(a, b), PfTimes(b, b))
  <2> DEFINE n == pf!Negate(sq)
             h == pf!SubShare(st, n)
             m == -Total(sq)
             g == Total(st) + Total(sq)
  <2>1. n \in Numbers /\ Total(n) \in Int /\ Congruent(Total(n), m) /\ m \in Int
    BY <1>7, PfNegOpens
  <2> HIDE DEF n, m
  <2>2. h \in Numbers /\ Total(h) \in Int /\ Congruent(Total(h), Total(st) - Total(n))
    BY <1>6, <2>1, PfSubOpens
  <2>3. Congruent(Total(st), Total(st))
    BY DEF Congruent
  <2>4. Congruent(Total(st) - Total(n), Total(st) - m)
    BY <1>6, <2>1, <2>3, SameSum
  <2>5. Total(st) - m = g /\ g \in Int
    BY <1>6, <1>7 DEF m
  <2> HIDE DEF h, g
  <2>6. Congruent(Total(h), g)
    BY <2>2, <2>4, <2>5, CongruentTransitive
  <2>7. pf!recons(h) = g % P
    BY <2>2, <2>5, <2>6, PfOpened
  <2>8. PfPlus(pf!recons(st), pf!recons(sq)) = g % P
    BY <1>6, <1>7, PfOnOpened DEF g
  <2> QED BY <1>10, <2>7, <2>8 DEF h, n
<1>12. pf!recons(pf!VecSub(pf!VecAdd(v, v), v)[2]) = PfTimes(b, b)
  <2> DEFINE dbl == pf!AddShare(sq, sq)
             h == pf!SubShare(dbl, sq)
             g == Total(sq)
             gg == g + g
  <2>1. pf!VecSub(pf!VecAdd(v, v), v)[2] = h
    <3> DEFINE vs == pf!VecAdd(v, v)
    <3>1. 2 \in DOMAIN vs /\ vs[2] = dbl
      BY <1>4, <1>5 DEF pf!VecAdd
    <3> HIDE DEF vs, dbl
    <3>2. pf!VecSub(vs, v)[2] = h
      BY <1>4, <3>1 DEF pf!VecSub
    <3> QED BY <3>2 DEF vs
  <2>2. dbl \in Numbers /\ Total(dbl) \in Int /\ Congruent(Total(dbl), gg)
    BY <1>7, PfAddOpens
  <2> HIDE DEF dbl
  <2>3. h \in Numbers /\ Total(h) \in Int /\ Congruent(Total(h), Total(dbl) - g)
    BY <1>7, <2>2, PfSubOpens
  <2>4. g \in Int /\ gg \in Int /\ gg - g = g /\ Congruent(g, g)
    BY <1>7 DEF Congruent
  <2> HIDE DEF h, g, gg
  <2>5. Congruent(Total(dbl) - g, gg - g)
    BY <2>2, <2>4, SameSum
  <2>6. Congruent(Total(h), g)
    BY <2>3, <2>4, <2>5, CongruentTransitive
  <2>7. pf!recons(h) = g % P
    BY <2>3, <2>4, <2>6, PfOpened
  <2>8. pf!recons(sq) = g % P
    BY <1>7, PfRecons DEF g
  <2> QED BY <1>10, <2>1, <2>7, <2>8
<1>13. /\ pf!recons(pf!MulShare(s, t, tr)) = PfTimes(a, b)
       /\ pf!recons(v[1]) = PfTimes(a, b) /\ pf!recons(v[2]) = PfTimes(b, b)
       /\ pf!recons(pf!SubShare(v[1], pf!Negate(v[2]))) = PfPlus(PfTimes(a, b), PfTimes(b, b))
       /\ pf!recons(pf!VecSub(pf!VecAdd(v, v), v)[2]) = PfTimes(b, b)
  BY <1>3, <1>4, <1>10, <1>11, <1>12 DEF st
<1> QED BY <1>13 DEF a, b, v, s, t, tr, vv, ww, tt

-----------------------------------------------------------------------------
(* The specification                                                        *)

\* A behaviour keeps its case.
CaseGiven == case \in Cases \/ case = NoCase

LEMMA CaseStays == ComputationSpec => []CaseGiven
<1>1. ComputationInit => CaseGiven
  BY DEF ComputationInit, CaseGiven
<1>2. CaseGiven /\ [ComputationNext]_<<vars, case>> => CaseGiven'
  BY DEF CaseGiven, ComputationNext
<1> QED BY <1>1, <1>2, PTL DEF ComputationSpec

-----------------------------------------------------------------------------
(* The multiplicative group of the field                                    *)

Units == 1..(P - 1)

LEMMA ZeroResidue ==
  ASSUME NEW n \in Int
  PROVE /\ Congruent(n, 0) <=> n % P = 0
        /\ Congruent(n, 0) <=> \E k \in Int : n = k * P
<1>1. 0 % P = 0
  BY FieldFacts, ModSmall
<1>2. Congruent(n, 0) <=> \E k \in Int : n = 0 + k * P
  BY SameByMultiple
<1>3. \A k \in Int : 0 + k * P = k * P
  BY FieldFacts
<1> QED BY <1>1, <1>2, <1>3 DEF Congruent

\* P divides no product but of its multiples: the least multiple of b that P
\* divides would divide P.
LEMMA Euclid ==
  ASSUME NEW a \in Units, NEW b \in Int, Congruent(a * b, 0)
  PROVE Congruent(b, 0)
<1> DEFINE S == {n \in Nat : n >= 1 /\ Congruent(n * b, 0)}
<1>1. P \in Nat /\ P > 4 /\ a \in Nat /\ a >= 1 /\ a < P
  BY FieldFacts DEF Units
<1>2. a \in S
  BY <1>1
<1>3. PICK n \in S : \A m \in Nat : m < n => m \notin S
  <2> HIDE DEF S
  <2>1. S \in SUBSET Nat /\ S # {}
    BY <1>2 DEF S
  <2> QED BY <2>1, LeastNumber
<1>4. n \in Nat /\ n >= 1 /\ n < P /\ Congruent(n * b, 0)
  <2>1. ~ (a < n)
    BY <1>1, <1>2, <1>3
  <2> QED BY <1>1, <2>1
<1> DEFINE u == P \div n
           r == P % n
<1>5. u \in Int /\ r \in Int /\ 0 <= r /\ r < n /\ P = n * u + r
  BY <1>1, <1>4, Quotient
<1> HIDE DEF S, u, r
<1>6. Congruent(r * b, 0)
  <2>1. PICK k \in Int : n * b = k * P
    <3> DEFINE nb == n * b
    <3>1. nb \in Int
      BY <1>4
    <3> HIDE DEF nb
    <3> QED BY <1>4, <3>1, ZeroResidue DEF nb
  <2> DEFINE m == b - k * u
             rb == r * b
  <2>2. rb = m * P /\ m \in Int /\ rb \in Int
    <3>1. n * u * b = u * (k * P)
      BY <1>4, <1>5, <2>1
    <3>2. r = P - n * u
      BY <1>1, <1>4, <1>5
    <3>3. r * b = P * b - n * u * b
      BY <1>1, <1>4, <1>5, <3>2
    <3>4. m * P = P * b - u * (k * P)
      BY <1>1, <1>5
    <3> QED BY <1>5, <3>1, <3>3, <3>4
  <2> HIDE DEF m, rb
  <2>3. Congruent(rb, 0)
    BY <2>2, ZeroResidue
  <2> QED BY <2>3 DEF rb
<1>7. r = 0
  <2>1. r \in Nat /\ r \notin S
    BY <1>3, <1>5
  <2> QED BY <1>6, <2>1 DEF S
<1>8. n = 1
  <2>1. n \in 2..(P - 1) => P % n # 0
    BY FieldAssumption
  <2> QED BY <1>1, <1>4, <1>7, <2>1 DEF r
<1> QED BY <1>4, <1>8

\* What a factor other than 0 may be divided out of.
LEMMA Cancel ==
  ASSUME NEW a \in Units, NEW b \in Int, NEW c \in Int, Congruent(a * b, a * c)
  PROVE Congruent(b, c)
<1> DEFINE d == b - c  ab == a * b  ac == a * c
<1>1. a \in Int /\ d \in Int /\ ab \in Int /\ ac \in Int /\ a * d = ab - ac /\ ac - ac = 0
  BY FieldFacts DEF Units
<1>2. Congruent(ab, ac) /\ Congruent(ac, ac)
  BY DEF Congruent
<1> HIDE DEF d, ab, ac
<1>3. Congruent(ab - ac, ac - ac)
  BY <1>1, <1>2, SameSum
<1>4. Congruent(d, 0)
  BY <1>1, <1>3, Euclid
<1>5. Congruent(c, c)
  BY DEF Congruent
<1>6. Congruent(d + c, 0 + c)
  BY <1>1, <1>4, <1>5, SameSum
<1>7. d + c = b /\ 0 + c = c
  BY DEF d
<1> QED BY <1>6, <1>7

\* An element of the field is its own remainder.
LEMMA FieldResidue ==
  ASSUME NEW a \in Field, NEW b \in Field, Congruent(a, b)
  PROVE a = b
BY FieldFacts, SameFacts DEF Congruent

LEMMA UnitFacts ==
  ASSUME NEW a \in Int
  PROVE a \in Units <=> a \in Field /\ ~ Congruent(a, 0)
<1>1. P \in Nat /\ P > 4 /\ 0 \in Field
  BY FieldFacts DEF Field
<1>2. a \in Field /\ Congruent(a, 0) => a = 0
  BY <1>1, FieldResidue
<1>3. Congruent(0, 0)
  BY DEF Congruent
<1> QED BY <1>1, <1>2, <1>3 DEF Field, Units

\* The powers of a.
PowerOf(a) == CHOOSE h : Iterates(h, Int, 1, [nv \in Nat \X Int |-> a * nv[2]])
Power(a, n) == PowerOf(a)[n]

LEMMA PowerFacts ==
  ASSUME NEW a \in Int
  PROVE /\ Power(a, 0) = 1
        /\ \A n \in Nat : Power(a, n) \in Int /\ Power(a, n + 1) = a * Power(a, n)
<1> DEFINE step == [nv \in Nat \X Int |-> a * nv[2]]
<1>1. step \in [Nat \X Int -> Int]
  OBVIOUS
<1>2. Iterates(PowerOf(a), Int, 1, step)
  <2>1. \E h : Iterates(h, Int, 1, step)
    <3> HIDE DEF step
    <3> QED BY <1>1, Recursion
  <2> QED BY <2>1 DEF PowerOf
<1>3. PowerOf(a) \in [Nat -> Int] /\ PowerOf(a)[0] = 1
      /\ \A n \in Nat : PowerOf(a)[n + 1] = step[<<n, PowerOf(a)[n]>>]
  <2> HIDE DEF step
  <2> QED BY <1>2 DEF Iterates
<1>4. ASSUME NEW n \in Nat PROVE PowerOf(a)[n] \in Int /\ PowerOf(a)[n + 1] = a * PowerOf(a)[n]
  <2>1. PowerOf(a)[n] \in Int /\ <<n, PowerOf(a)[n]>> \in Nat \X Int
    BY <1>3
  <2> QED BY <1>3, <2>1
<1> QED BY <1>3, <1>4 DEF Power

LEMMA PowerSum ==
  ASSUME NEW a \in Int, NEW m \in Nat, NEW n \in Nat
  PROVE Power(a, m + n) = Power(a, m) * Power(a, n)
<1> DEFINE Good == {j \in Nat : Power(a, j + n) = Power(a, j) * Power(a, n)}
<1>1. 0 \in Good
  <2>1. Power(a, 0) = 1 /\ Power(a, n) \in Int /\ 0 + n = n
    BY PowerFacts
  <2> QED BY <2>1
<1>2. ASSUME NEW j \in Nat, j \in Good PROVE j + 1 \in Good
  <2>1. (j + 1) + n = (j + n) + 1 /\ j + n \in Nat
    OBVIOUS
  <2> DEFINE jn == j + n
  <2>2. Power(a, jn + 1) = a * Power(a, jn)
    <3> HIDE DEF jn
    <3> QED BY <2>1, PowerFacts DEF jn
  <2>3. Power(a, j + 1) = a * Power(a, j) /\ Power(a, j) \in Int /\ Power(a, n) \in Int
    BY PowerFacts
  <2>4. Power(a, jn) = Power(a, j) * Power(a, n)
    BY <1>2
  <2>5. \A u, v \in Int : a * (u * v) = (a * u) * v
    OBVIOUS
  <2>6. Power(a, (j + 1) + n) = Power(a, j + 1) * Power(a, n)
    BY <2>1, <2>2, <2>3, <2>4, <2>5
  <2> QED BY <2>6
<1>3. Nat \subseteq Good
  <2> HIDE DEF Good
  <2> QED BY <1>1, <1>2, NumberInduction
<1> QED BY <1>3

LEMMA PowerTimes ==
  ASSUME NEW a \in Int, NEW b \in Int, NEW n \in Nat
  PROVE Power(a * b, n) = Power(a, n) * Power(b, n)
<1> DEFINE ab == a * b
           Good == {j \in Nat : Power(ab, j) = Power(a, j) * Power(b, j)}
<1>1. ab \in Int
  OBVIOUS
<1>2. 0 \in Good
  BY <1>1, PowerFacts
<1>3. ASSUME NEW j \in Nat, j \in Good PROVE j + 1 \in Good
  <2>1. Power(ab, j) = Power(a, j) * Power(b, j)
    BY <1>3
  <2>2. Power(ab, j + 1) = ab * Power(ab, j)
    <3> HIDE DEF ab
    <3> QED BY <1>1, PowerFacts
  <2>3. Power(a, j + 1) = a * Power(a, j) /\ Power(a, j) \in Int
    BY PowerFacts
  <2>4. Power(b, j + 1) = b * Power(b, j) /\ Power(b, j) \in Int
    BY PowerFacts
  <2>5. \A u, v \in Int : (a * b) * (u * v) = (a * u) * (b * v)
    OBVIOUS
  <2>6. Power(ab, j + 1) = Power(a, j + 1) * Power(b, j + 1)
    BY <2>1, <2>2, <2>3, <2>4, <2>5
  <2> QED BY <2>6
<1>4. Nat \subseteq Good
  <2> HIDE DEF Good
  <2> QED BY <1>2, <1>3, NumberInduction
<1> QED BY <1>4

LEMMA PowerCongruent ==
  ASSUME NEW a \in Int, NEW b \in Int, NEW n \in Nat, Congruent(a, b)
  PROVE Congruent(Power(a, n), Power(b, n))
<1> DEFINE Good == {j \in Nat : Congruent(Power(a, j), Power(b, j))}
<1>1. 0 \in Good
  BY PowerFacts DEF Congruent
<1>2. ASSUME NEW j \in Nat, j \in Good PROVE j + 1 \in Good
  <2> DEFINE u == Power(a, j)  v == Power(b, j)
  <2>1. Power(a, j + 1) = a * u /\ u \in Int /\ Power(b, j + 1) = b * v /\ v \in Int
    BY PowerFacts
  <2>2. Congruent(u, v)
    BY <1>2
  <2> HIDE DEF u, v
  <2>3. Congruent(a * u, b * v)
    BY <2>1, <2>2, SameSum
  <2> QED BY <2>1, <2>3
<1>3. Nat \subseteq Good
  <2> HIDE DEF Good
  <2> QED BY <1>1, <1>2, NumberInduction
<1> QED BY <1>3

\* A power of a unit is not 0.
LEMMA PowerOfUnit ==
  ASSUME NEW a \in Units, NEW n \in Nat
  PROVE Power(a, n) \in Int /\ ~ Congruent(Power(a, n), 0)
<1>1. a \in Int
  BY DEF Units
<1> DEFINE Good == {j \in Nat : ~ Congruent(Power(a, j), 0)}
<1>2. 0 \in Good
  <2>1. 1 \in Field /\ 0 \in Field /\ Power(a, 0) = 1
    BY <1>1, FieldFacts, PowerFacts DEF Field
  <2>2. ~ Congruent(1, 0)
    BY <2>1, FieldResidue
  <2> QED BY <2>1, <2>2
<1>3. ASSUME NEW j \in Nat, j \in Good PROVE j + 1 \in Good
  <2> DEFINE u == Power(a, j)
  <2>1. Power(a, j + 1) = a * u /\ u \in Int
    BY <1>1, PowerFacts
  <2>2. ~ Congruent(u, 0)
    BY <1>3
  <2> HIDE DEF u
  <2>3. ~ Congruent(a * u, 0)
    BY <2>1, <2>2, Euclid
  <2> QED BY <2>1, <2>3
<1>4. Nat \subseteq Good
  <2> HIDE DEF Good
  <2> QED BY <1>2, <1>3, NumberInduction
<1> QED BY <1>1, <1>4, PowerFacts

\* The product of a set of units.
Multiply == [pr \in Int \X Int |-> pr[1] * pr[2]]
Itself == [e \in Units |-> e]
Products == CHOOSE g : IsFold(g, Units, Int, 1, Multiply, Itself)
Product(T) == Products[T]

LEMMA UnitsFinite == IsFiniteSet(Units) /\ Cardinality(Units) = P - 1 /\ Units \subseteq Int
<1>1. 1 \in Int /\ P - 1 \in Int /\ ~ (1 > P - 1) /\ (P - 1) - 1 + 1 = P - 1
  BY FieldFacts
<1> DEFINE m == P - 1
<1>2. IsFiniteSet(1..m) /\ Cardinality(1..m) = m - 1 + 1
  <2>1. m \in Int /\ ~ (1 > m)
    BY <1>1
  <2> HIDE DEF m
  <2> QED BY <2>1, FS_Interval
<1> QED BY <1>1, <1>2 DEF Units

LEMMA ProductFacts ==
  /\ Product({}) = 1
  /\ \A T \in SUBSET Units : Product(T) \in Int
  /\ \A T \in SUBSET Units : T # {} => Product(T) = Pick(T) * Product(T \ {Pick(T)})
<1>1. IsFold(Products, Units, Int, 1, Multiply, Itself)
  <2>1. Multiply \in [Int \X Int -> Int]
    BY DEF Multiply
  <2>2. Itself \in [Units -> Int]
    BY UnitsFinite DEF Itself
  <2>3. IsFiniteSet(Units) /\ 1 \in Int
    BY UnitsFinite
  <2>4. \E g : IsFold(g, Units, Int, 1, Multiply, Itself)
    BY <2>1, <2>2, <2>3, FoldExists
  <2> QED BY <2>4 DEF Products
<1>2. /\ Products \in [SUBSET Units -> Int]
      /\ \A T \in SUBSET Units :
           Products[T] = IF T = {} THEN 1 ELSE Multiply[<<Itself[Pick(T)], Products[T \ {Pick(T)}]>>]
  BY <1>1 DEF IsFold
<1>3. ASSUME NEW T \in SUBSET Units, T # {}
      PROVE Products[T] = Pick(T) * Products[T \ {Pick(T)}]
  <2>1. Pick(T) \in Units /\ T \ {Pick(T)} \in SUBSET Units
    BY <1>3, UnitsFinite, PickFacts
  <2>2. Pick(T) \in Int /\ Products[T \ {Pick(T)}] \in Int /\ Itself[Pick(T)] = Pick(T)
    BY <1>2, <2>1, UnitsFinite DEF Itself
  <2>3. Multiply[<<Pick(T), Products[T \ {Pick(T)}]>>] = Pick(T) * Products[T \ {Pick(T)}]
    BY <2>2 DEF Multiply
  <2> QED BY <1>2, <1>3, <2>2, <2>3
<1> QED BY <1>2, <1>3 DEF Product

\* Any factor may be taken out first.
LEMMA ProductRemove ==
  ASSUME NEW T \in SUBSET Units, NEW e \in T
  PROVE Product(T) = e * Product(T \ {e}) /\ Product(T \ {e}) \in Int
<1> DEFINE Free(U) == \A d \in U : Product(U) = d * Product(U \ {d})
           Bad == {U \in SUBSET Units : ~ Free(U)}
<1>1. Bad = {}
  <2> SUFFICES ASSUME Bad # {} PROVE FALSE
    OBVIOUS
  <2>1. PICK U \in Bad : \A W \in SUBSET U : W # U => W \notin Bad
    <3> HIDE DEF Bad
    <3>1. Bad \in SUBSET (SUBSET Units)
      BY DEF Bad
    <3> QED BY <3>1, UnitsFinite, LeastSet
  <2>2. U \in SUBSET Units /\ ~ Free(U)
    OBVIOUS
  <2>3. PICK d \in U : Product(U) # d * Product(U \ {d})
    BY <2>2
  <2> DEFINE c == Pick(U)
             R == U \ {c}
             D == U \ {d}
             B == U \ {c, d}
  <2>4. c \in U /\ c \in Units /\ d \in Units /\ c \in Int /\ d \in Int
    BY <2>2, <2>3, UnitsFinite, PickFacts
  <2>5. Product(U) = c * Product(R)
    BY <2>2, <2>3, ProductFacts
  <2>6. c # d
    BY <2>3, <2>5
  <2>7. R \in SUBSET U /\ R # U /\ D \in SUBSET U /\ D # U /\ d \in R /\ c \in D
        /\ R \ {d} = B /\ D \ {c} = B /\ B \in SUBSET Units
    BY <2>2, <2>3, <2>4, <2>6
  <2>8. Free(R) /\ Free(D)
    <3> HIDE DEF R, D
    <3>1. R \notin Bad /\ D \notin Bad
      BY <2>1, <2>7
    <3>2. R \in SUBSET Units /\ D \in SUBSET Units
      BY <2>2, <2>7
    <3> HIDE DEF Free
    <3> QED BY <3>1, <3>2
  <2>9. Product(R) = d * Product(B) /\ Product(D) = c * Product(B) /\ Product(B) \in Int
    <3> HIDE DEF R, D, B
    <3> QED BY <2>7, <2>8, ProductFacts
  <2> HIDE DEF c, R, D, B
  <2>10. \A k \in Int : c * (d * k) = d * (c * k)
    BY <2>4
  <2>11. Product(U) = d * Product(D)
    BY <2>5, <2>9, <2>10
  <2> QED BY <2>3, <2>11 DEF D
<1>2. Free(T)
  BY <1>1
<1>3. T \ {e} \in SUBSET Units
  OBVIOUS
<1> HIDE DEF Bad
<1> QED BY <1>2, <1>3, ProductFacts

LEMMA ProductNotZero ==
  ASSUME NEW T \in SUBSET Units
  PROVE Product(T) \in Int /\ ~ Congruent(Product(T), 0)
<1> DEFINE Good == {U \in SUBSET Units : ~ Congruent(Product(U), 0)}
<1>1. {} \in Good
  <2>1. 1 \in Field /\ 0 \in Field /\ Product({}) = 1
    BY FieldFacts, ProductFacts DEF Field
  <2>2. ~ Congruent(1, 0)
    BY <2>1, FieldResidue
  <2> QED BY <2>1, <2>2
<1>2. ASSUME NEW U \in SUBSET Units, U # {}, Pick(U) \in U, U \ {Pick(U)} \in Good
      PROVE U \in Good
  <2> DEFINE a == Pick(U)  b == Product(U \ {Pick(U)})
  <2>1. a \in Units /\ b \in Int /\ Product(U) = a * b /\ ~ Congruent(b, 0)
    BY <1>2, ProductFacts
  <2> HIDE DEF a, b
  <2>2. ~ Congruent(a * b, 0)
    BY <2>1, Euclid
  <2> QED BY <2>1, <2>2
<1>3. SUBSET Units \subseteq Good
  <2> HIDE DEF Good
  <2> QED BY <1>1, <1>2, UnitsFinite, SetInduction
<1> QED BY <1>3, ProductFacts

\* Multiplication by a unit permutes the units.
Scale(a) == [e \in Units |-> (a * e) % P]

LEMMA ScalePermutes ==
  ASSUME NEW a \in Units
  PROVE /\ Scale(a) \in [Units -> Units]
        /\ \A e \in Units : Congruent(Scale(a)[e], a * e)
        /\ \A d, e \in Units : Scale(a)[d] = Scale(a)[e] => d = e
        /\ {Scale(a)[e] : e \in Units} = Units
<1>1. ASSUME NEW e \in Units PROVE (a * e) % P \in Units /\ Congruent((a * e) % P, a * e)
  <2> DEFINE n == a * e
  <2>1. a \in Int /\ e \in Int /\ n \in Int /\ ~ Congruent(e, 0)
    BY UnitsFinite, UnitFacts
  <2>2. ~ Congruent(n, 0)
    BY <2>1, Euclid
  <2> HIDE DEF n
  <2>3. n % P \in Field /\ n % P \in Int /\ Congruent(n % P, n)
    BY <2>1, SameFacts
  <2>4. ~ Congruent(n % P, 0)
    BY <2>2, <2>3 DEF Congruent
  <2> QED BY <2>3, <2>4, UnitFacts DEF n
<1>2. Scale(a) \in [Units -> Units] /\ \A e \in Units : Congruent(Scale(a)[e], a * e)
  BY <1>1 DEF Scale
<1>3. ASSUME NEW d \in Units, NEW e \in Units, Scale(a)[d] = Scale(a)[e] PROVE d = e
  <2>1. Congruent(a * d, a * e)
    BY <1>2, <1>3 DEF Congruent
  <2>2. Congruent(d, e)
    BY <2>1, UnitsFinite, Cancel
  <2>3. d \in Field /\ e \in Field
    BY UnitsFinite, UnitFacts
  <2> QED BY <2>2, <2>3, FieldResidue
<1>4. Scale(a) \in Surjection(Units, Units)
  <2>1. Scale(a) \in Injection(Units, Units)
    BY <1>2, <1>3 DEF Injection, IsInjective
  <2> QED BY <2>1, UnitsFinite, FS_Injection
<1>5. {Scale(a)[e] : e \in Units} = Units
  BY <1>2, <1>4 DEF Surjection
<1> QED BY <1>2, <1>3, <1>5

\* Fermat's little theorem: the product of the units is that of their multiples.
LEMMA Fermat ==
  ASSUME NEW a \in Units
  PROVE Power(a, P - 1) \in Int /\ Congruent(Power(a, P - 1), 1)
<1> DEFINE pi == Scale(a)
           Image(T) == {pi[e] : e \in T}
           Good == {T \in SUBSET Units :
                      Congruent(Product(Image(T)), Power(a, Cardinality(T)) * Product(T))}
<1>1. pi \in [Units -> Units] /\ (\A e \in Units : Congruent(pi[e], a * e))
      /\ (\A d, e \in Units : pi[d] = pi[e] => d = e) /\ Image(Units) = Units
  BY ScalePermutes
<1>2. a \in Int /\ P - 1 \in Nat
  BY UnitsFinite, FieldFacts
<1> HIDE DEF pi
<1>3. {} \in Good
  <2>1. Image({}) = {}
    OBVIOUS
  <2>2. Power(a, Cardinality({})) * Product({}) = 1 /\ Product({}) = 1
    BY <1>2, PowerFacts, ProductFacts, FS_EmptySet
  <2> QED BY <2>1, <2>2 DEF Congruent
<1>4. ASSUME NEW T \in SUBSET Units, T # {}, Pick(T) \in T, T \ {Pick(T)} \in Good
      PROVE T \in Good
  <2> DEFINE c == Pick(T)
             R == T \ {c}
             n == Cardinality(R)
             u == Product(Image(R))
             v == Power(a, n)
             w == Product(R)
             vw == v * w
  <2>1. c \in Units /\ c \in Int /\ R \in SUBSET Units /\ n \in Nat /\ Cardinality(T) = n + 1
    BY <1>4, UnitsFinite, PickFacts
  <2>2. pi[c] \in Image(T) /\ Image(T) \in SUBSET Units /\ Image(T) \ {pi[c]} = Image(R)
        /\ Image(R) \in SUBSET Units
    <3>1. pi[c] \in Image(T) /\ Image(T) \in SUBSET Units /\ Image(R) \in SUBSET Units
      BY <1>1, <1>4, <2>1
    <3>2. Image(T) \ {pi[c]} = Image(R)
      BY <1>1, <1>4, <2>1
    <3> QED BY <3>1, <3>2
  <2>3. Product(Image(T)) = pi[c] * u /\ u \in Int /\ pi[c] \in Int
    <3>1. Product(Image(T)) = pi[c] * Product(Image(T) \ {pi[c]})
      <4> DEFINE IT == Image(T)
      <4>1. IT \in SUBSET Units /\ pi[c] \in IT
        BY <2>2
      <4> HIDE DEF IT
      <4> QED BY <4>1, ProductRemove DEF IT
    <3> QED BY <2>2, <3>1, ProductFacts, UnitsFinite
  <2>4. Product(T) = c * w /\ w \in Int
    BY <1>4, <2>1, ProductFacts
  <2>5. v \in Int /\ Power(a, Cardinality(T)) = a * v
    BY <1>2, <2>1, PowerFacts
  <2>6. Congruent(u, vw) /\ vw \in Int
    BY <1>4, <2>4, <2>5
  <2>7. Congruent(pi[c], a * c)
    BY <1>1, <2>1
  <2> HIDE DEF c, R, n, u, v, w, vw, Image
  <2>8. Congruent(pi[c] * u, (a * c) * vw)
    <3> DEFINE pc1 == pi[c]  ac == a * c
    <3>1. pc1 \in Int /\ ac \in Int /\ Congruent(pc1, ac)
      BY <1>2, <2>1, <2>3, <2>7
    <3> HIDE DEF pc1, ac
    <3>2. Congruent(pc1 * u, ac * vw)
      BY <2>3, <2>6, <3>1, SameSum
    <3> QED BY <3>2 DEF pc1, ac
  <2>9. (a * c) * vw = (a * v) * (c * w)
    BY <1>2, <2>1, <2>4, <2>5 DEF vw
  <2>10. Congruent(Product(Image(T)), Power(a, Cardinality(T)) * Product(T))
    BY <2>3, <2>4, <2>5, <2>8, <2>9
  <2> QED BY <2>10
<1>5. Units \in Good
  <2>1. SUBSET Units \subseteq Good
    <3> HIDE DEF Good
    <3> QED BY <1>3, <1>4, UnitsFinite, SetInduction
  <2> HIDE DEF Good
  <2> QED BY <2>1
<1> DEFINE F == Product(Units)
           m == F % P
           g == Power(a, P - 1)
<1>6. Congruent(F, g * F)
  BY <1>1, <1>5, UnitsFinite
<1>7. F \in Int /\ ~ Congruent(F, 0)
  BY ProductNotZero
<1>8. g \in Int
  BY <1>2, PowerFacts
<1> HIDE DEF F, g
<1>9. m \in Units /\ m \in Int /\ Congruent(m, F)
  <2>1. m \in Field /\ m \in Int /\ Congruent(m, F)
    BY <1>7, SameFacts
  <2>2. ~ Congruent(m, 0)
    BY <1>7, <2>1 DEF Congruent
  <2> QED BY <2>1, <2>2, UnitFacts
<1> HIDE DEF m
<1>10. Congruent(m * g, m * 1)
  <2>1. Congruent(g, g)
    BY DEF Congruent
  <2>2. Congruent(m * g, F * g)
    BY <1>7, <1>8, <1>9, <2>1, SameSum
  <2>3. F * g = g * F /\ m * 1 = m
    BY <1>7, <1>8, <1>9
  <2> QED BY <1>6, <1>9, <2>2, <2>3 DEF Congruent
<1>11. Congruent(g, 1)
  BY <1>8, <1>9, <1>10, Cancel
<1> QED BY <1>8, <1>11 DEF g

-----------------------------------------------------------------------------
(* modpow, getInv, legendre and modsqrt                                     *)

\* modpow squares and halves: what it computes is the power.
ModpowStep(g) ==
  [ab \in Nat \X Nat |->
     IF ab[2] = 0 THEN 1
     ELSE ((IF ab[2] % 2 = 1 THEN ab[1] ELSE 1) * g[<<(ab[1] * ab[1]) % P, ab[2] \div 2>>]) % P]

LEMMA HalfPower ==
  ASSUME NEW a \in Nat, NEW b \in Nat, b # 0, NEW k \in Int,
         Congruent(k, Power((a * a) % P, b \div 2))
  PROVE ((IF b % 2 = 1 THEN a ELSE 1) * k) % P = Power(a, b) % P
<1> DEFINE h == b \div 2
           aa == a * a
           c == aa % P
           u == Power(a, h)
           f == IF b % 2 = 1 THEN a ELSE 1
<1>1. h \in Nat /\ b % 2 \in 0..1 /\ b = 2 * h + (b % 2)
  OBVIOUS
<1>2. aa \in Int /\ aa >= 0
  OBVIOUS
<1> HIDE DEF h, aa
<1>3. c \in Int /\ Congruent(c, aa)
  BY <1>2, SameFacts
<1> HIDE DEF c
<1>4. Congruent(Power(c, h), Power(aa, h))
  BY <1>1, <1>2, <1>3, PowerCongruent
<1>5. Power(aa, h) = u * u /\ u \in Int
  <2>1. a \in Int
    OBVIOUS
  <2>2. Power(a * a, h) = Power(a, h) * Power(a, h)
    BY <1>1, <2>1, PowerTimes
  <2>3. Power(a, h) \in Int
    BY <1>1, <2>1, PowerFacts
  <2> QED BY <2>2, <2>3 DEF aa
<1>6. Power(a, h + h) = u * u
  BY <1>1, PowerSum
<1>7. Congruent(k, u * u)
  BY <1>4, <1>5 DEF c, aa, h, Congruent
<1>8. Power(a, b) = f * (u * u)
  <2>1. CASE b % 2 = 1
    <3>1. b = (h + h) + 1 /\ h + h \in Nat
      BY <1>1, <2>1
    <3>2. Power(a, (h + h) + 1) = a * Power(a, h + h)
      <4> DEFINE hh == h + h
      <4> HIDE DEF hh
      <4>1. hh \in Nat
        BY <3>1 DEF hh
      <4>2. Power(a, hh + 1) = a * Power(a, hh)
        BY <4>1, PowerFacts
      <4> QED BY <4>2 DEF hh
    <3> QED BY <1>6, <2>1, <3>1, <3>2
  <2>2. CASE b % 2 = 0
    <3>1. b = h + h
      BY <1>1, <2>2
    <3> HIDE DEF u
    <3> QED BY <1>5, <1>6, <2>2, <3>1
  <2> QED BY <1>1, <2>1, <2>2
<1> DEFINE uu == u * u
<1>9. uu \in Int /\ f \in Int /\ Congruent(f, f)
  <2>1. u * u \in Int
    <3> HIDE DEF u
    <3> QED BY <1>5
  <2> QED BY <2>1 DEF Congruent
<1>10. Congruent(k, uu) /\ Power(a, b) = f * uu
  BY <1>7, <1>8
<1> HIDE DEF uu, f, u
<1>11. Congruent(f * k, f * uu)
  BY <1>9, <1>10, SameSum
<1> QED BY <1>10, <1>11 DEF Congruent, f

LEMMA ModpowFacts ==
  ASSUME NEW a \in Nat, NEW b \in Nat
  PROVE modpow(a, b) = IF b = 0 THEN 1 ELSE Power(a, b) % P
<1> DEFINE W(m, n) == IF n = 0 THEN 1 ELSE Power(m, n) % P
           w == [ab \in Nat \X Nat |-> W(ab[1], ab[2])]
           Halved(g, m, n) == ((IF n % 2 = 1 THEN m ELSE 1) * g[<<(m * m) % P, n \div 2>>]) % P
<1>1. ASSUME NEW m \in Nat, NEW n \in Nat, n # 0
      PROVE /\ (m * m) % P \in Nat /\ n \div 2 \in Nat /\ n \div 2 < n
            /\ W((m * m) % P, n \div 2) \in Int
            /\ Congruent(W((m * m) % P, n \div 2), Power((m * m) % P, n \div 2))
  <2> DEFINE mm == m * m
             c == mm % P
             h == n \div 2
  <2>1. h \in Nat /\ h < n
    BY <1>1
  <2>2. mm \in Int
    OBVIOUS
  <2> HIDE DEF mm
  <2>3. c \in Field /\ c \in Int
    BY <2>2, SameFacts
  <2>4. c \in Nat
    BY <2>3, FieldFacts DEF Field
  <2> HIDE DEF c, h
  <2> DEFINE v == Power(c, h)
  <2>5. v \in Int /\ Power(c, 0) = 1
    BY <2>1, <2>4, PowerFacts
  <2> HIDE DEF v
  <2>6. v % P \in Int /\ Congruent(v % P, v)
    BY <2>5, SameFacts
  <2>7. W(c, h) \in Int /\ Congruent(W(c, h), v)
    BY <2>5, <2>6 DEF v, Congruent
  <2> HIDE DEF W
  <2> QED BY <2>1, <2>4, <2>7 DEF v, c, h, mm
<1>2. w = ModpowStep(w)
  <2>1. ASSUME NEW ab \in Nat \X Nat
        PROVE w[ab] = IF ab[2] = 0 THEN 1 ELSE Halved(w, ab[1], ab[2])
    <3> DEFINE m == ab[1]  n == ab[2]
    <3>1. m \in Nat /\ n \in Nat /\ w[ab] = W(m, n)
      OBVIOUS
    <3>2. CASE n = 0
      BY <3>1, <3>2
    <3>3. CASE n # 0
      <4> HIDE DEF m, n
      <4> DEFINE c == (m * m) % P  h == n \div 2
      <4>1. c \in Nat /\ h \in Nat /\ W(c, h) \in Int /\ Congruent(W(c, h), Power(c, h))
        BY <1>1, <3>1, <3>3
      <4>2. w[<<c, h>>] = W(c, h)
        <5> HIDE DEF c, h, W
        <5>1. <<c, h>> \in Nat \X Nat /\ <<c, h>>[1] = c /\ <<c, h>>[2] = h
          BY <4>1
        <5> QED BY <5>1
      <4>3. Halved(w, m, n) = ((IF n % 2 = 1 THEN m ELSE 1) * W(c, h)) % P
        <5> HIDE DEF w, W
        <5> QED BY <4>2
      <4>4. ((IF n % 2 = 1 THEN m ELSE 1) * W(c, h)) % P = Power(m, n) % P
        <5> DEFINE k == W(c, h)
        <5> HIDE DEF k, W
        <5>1. k \in Int /\ Congruent(k, Power((m * m) % P, n \div 2))
          BY <4>1 DEF k
        <5> QED BY <3>1, <3>3, <5>1, HalfPower DEF k
      <4>5. W(m, n) = Power(m, n) % P
        BY <3>3
      <4> HIDE DEF w, W, Halved
      <4> QED BY <3>1, <3>3, <4>3, <4>4, <4>5 DEF m, n
    <3> QED BY <3>2, <3>3
  <2>2. w = [ab \in Nat \X Nat |-> w[ab]]
    <3> HIDE DEF W
    <3> QED OBVIOUS
  <2> HIDE DEF w
  <2> QED BY <2>1, <2>2 DEF ModpowStep
<1>3. Modpows = ModpowStep(Modpows)
  <2> HIDE DEF w
  <2> QED BY <1>2 DEF Modpows, ModpowStep
<1>4. ASSUME NEW m \in Nat, NEW n \in Nat
      PROVE Modpows[<<m, n>>] = IF n = 0 THEN 1 ELSE Halved(Modpows, m, n)
  <2>1. <<m, n>> \in Nat \X Nat
    OBVIOUS
  <2> QED BY <1>3, <2>1 DEF ModpowStep
<1> DEFINE Good == {n \in Nat : \A m \in Nat : Modpows[<<m, n>>] = W(m, n)}
<1>5. ASSUME NEW n \in Nat, \A j \in Nat : j < n => j \in Good PROVE n \in Good
  <2> SUFFICES ASSUME NEW m \in Nat PROVE Modpows[<<m, n>>] = W(m, n)
    OBVIOUS
  <2>1. CASE n = 0
    BY <1>4, <2>1
  <2>2. CASE n # 0
    <3> DEFINE c == (m * m) % P  h == n \div 2
    <3>1. c \in Nat /\ h \in Nat /\ h < n /\ W(c, h) \in Int /\ Congruent(W(c, h), Power(c, h))
      BY <1>1, <2>2
    <3>2. Modpows[<<c, h>>] = W(c, h)
      <4> HIDE DEF c, h, W
      <4> QED BY <1>5, <3>1
    <3>3. Halved(Modpows, m, n) = ((IF n % 2 = 1 THEN m ELSE 1) * W(c, h)) % P
      <4> HIDE DEF W
      <4> QED BY <3>2
    <3>4. ((IF n % 2 = 1 THEN m ELSE 1) * W(c, h)) % P = Power(m, n) % P
      <4> DEFINE k == W(c, h)
      <4> HIDE DEF k, W
      <4>1. k \in Int /\ Congruent(k, Power((m * m) % P, n \div 2))
        BY <3>1 DEF k
      <4> QED BY <2>2, <4>1, HalfPower DEF k
    <3>5. W(m, n) = Power(m, n) % P
      BY <2>2
    <3> HIDE DEF W, Halved
    <3> QED BY <1>4, <2>2, <3>3, <3>4, <3>5
  <2> QED BY <2>1, <2>2
<1>6. Nat \subseteq Good
  <2> HIDE DEF Good
  <2> QED BY <1>5, StrongInduction
<1> HIDE DEF w
<1> QED BY <1>6 DEF modpow

LEMMA ModpowPower ==
  ASSUME NEW a \in Field, NEW b \in Nat, b > 0
  PROVE /\ modpow(a, b) \in Field /\ modpow(a, b) \in Int /\ Power(a, b) \in Int
        /\ modpow(a, b) = Power(a, b) % P /\ Congruent(modpow(a, b), Power(a, b))
<1>1. a \in Nat /\ a \in Int
  BY FieldFacts DEF Field
<1>2. modpow(a, b) = Power(a, b) % P
  BY <1>1, ModpowFacts
<1> DEFINE u == Power(a, b)
<1>3. u \in Int
  BY <1>1, PowerFacts
<1> HIDE DEF u
<1>4. u % P \in Field /\ u % P \in Int /\ Congruent(u % P, u)
  BY <1>3, SameFacts
<1> QED BY <1>2, <1>3, <1>4 DEF u

\* The remainders of 1 and -1.
LEMMA OneResidue ==
  ASSUME NEW n \in Int
  PROVE (Congruent(n, 1) <=> n % P = 1) /\ (Congruent(n, -1) <=> n % P = P - 1)
<1>1. P \in Nat /\ P > 4
  BY FieldFacts
<1>2. 1 % P = 1
  BY <1>1, ModSmall
<1>3. (-1) % P = P - 1
  <2>1. -1 = P * (-1) + (P - 1) /\ 0 <= P - 1 /\ P - 1 < P /\ P - 1 \in Int /\ -1 \in Int
    BY <1>1
  <2> DEFINE m == -1  d == P - 1
  <2> HIDE DEF m, d
  <2>2. m % P = d
    <3>1. m \in Int /\ d \in Int /\ m = P * m + d /\ 0 <= d /\ d < P
      BY <2>1 DEF m, d
    <3> QED BY <1>1, <3>1, QuotientUnique
  <2> QED BY <2>2 DEF m, d
<1> QED BY <1>2, <1>3 DEF Congruent

LEMMA SquaresEqual ==
  ASSUME NEW a \in Int, NEW b \in Int, Congruent(a * a, b * b)
  PROVE Congruent(a, b) \/ Congruent(a, -b)
<1> DEFINE d == a - b  s == a + b  aa == a * a  bb == b * b
           m == d % P
           nb == -b
<1>1. d \in Int /\ s \in Int /\ aa \in Int /\ bb \in Int /\ d * s = aa - bb /\ bb - bb = 0
      /\ d + b = a /\ s - b = a /\ 0 + b = b /\ 0 - b = nb /\ nb \in Int
  OBVIOUS
<1>2. Congruent(aa, bb) /\ Congruent(bb, bb) /\ Congruent(b, b) /\ Congruent(s, s)
  BY DEF Congruent
<1> HIDE DEF d, s, aa, bb, nb
<1>3. Congruent(aa - bb, bb - bb)
  BY <1>1, <1>2, SameSum
<1>4. m \in Field /\ m \in Int /\ Congruent(m, d)
  BY <1>1, SameFacts
<1> HIDE DEF m
<1>5. Congruent(m * s, 0)
  <2>1. Congruent(m * s, d * s)
    BY <1>1, <1>2, <1>4, SameSum
  <2> QED BY <1>1, <1>3, <2>1, CongruentTransitive
<1>6. CASE Congruent(m, 0)
  <2>1. Congruent(d, 0)
    BY <1>4, <1>6 DEF Congruent
  <2>2. Congruent(d + b, 0 + b)
    BY <1>1, <1>2, <2>1, SameSum
  <2> QED BY <1>1, <2>2
<1>7. CASE ~ Congruent(m, 0)
  <2>1. m \in Units
    BY <1>4, <1>7, UnitFacts
  <2>2. Congruent(s, 0)
    BY <1>1, <1>5, <2>1, Euclid
  <2>3. Congruent(s - b, 0 - b)
    BY <1>1, <1>2, <2>2, SameSum
  <2>4. Congruent(a, nb)
    BY <1>1, <2>3
  <2> QED BY <2>4 DEF nb
<1> QED BY <1>6, <1>7

\* A unit to the power of half the order is 1 or -1.
LEMMA HalfOrder ==
  ASSUME NEW a \in Units
  PROVE /\ Power(a, Q) \in Int /\ Power(a, 2 * Q) \in Int
        /\ Power(a, 2 * Q) = Power(a, Q) * Power(a, Q)
        /\ Congruent(Power(a, 2 * Q) * Power(a, 2 * Q), 1)
        /\ Congruent(Power(a, 2 * Q), 1) \/ Congruent(Power(a, 2 * Q), -1)
<1>1. a \in Int /\ Q \in Nat /\ P - 1 = 4 * Q
  BY UnitsFinite, FieldAssumption
<1> DEFINE q2 == 2 * Q
           v == Power(a, q2)
<1>2. q2 \in Nat /\ q2 = Q + Q /\ P - 1 = q2 + q2
  BY <1>1
<1>3. v = Power(a, Q) * Power(a, Q) /\ Power(a, Q) \in Int
  BY <1>1, <1>2, PowerSum, PowerFacts
<1> HIDE DEF q2
<1>4. v \in Int /\ Power(a, P - 1) = v * v
  <2>1. Power(a, q2 + q2) = v * v
    BY <1>1, <1>2, PowerSum
  <2>2. v \in Int
    BY <1>1, <1>2, PowerFacts
  <2> QED BY <1>2, <2>1, <2>2
<1> HIDE DEF v
<1>5. Congruent(v * v, 1)
  BY <1>4, Fermat
<1>6. Congruent(v, 1) \/ Congruent(v, -1)
  <2>1. 1 \in Int /\ 1 * 1 = 1
    OBVIOUS
  <2>2. Congruent(v * v, 1 * 1)
    BY <1>5
  <2> QED BY <1>4, <2>1, <2>2, SquaresEqual
<1> QED BY <1>3, <1>4, <1>5, <1>6 DEF v, q2

\* getInv, by Fermat's theorem.
LEMMA PfInverse ==
  ASSUME NEW a \in Units
  PROVE PfInv(a) \in Field /\ PfInv(a) \in Int /\ Congruent(a * PfInv(a), 1)
<1>1. P - 2 \in Nat /\ P - 2 > 0 /\ (P - 2) + 1 = P - 1 /\ a \in Int /\ a \in 0..P /\ a \in Field
  BY FieldFacts DEF Units, Field
<1> DEFINE k == P - 2
           v == Power(a, k)
           i1 == modpow(a, k)
<1>2. PfInv(a) = i1
  BY <1>1 DEF PfInv, Inverses
<1>3. k \in Nat /\ k > 0 /\ k + 1 = P - 1
  BY <1>1
<1> HIDE DEF k
<1>4. i1 \in Field /\ i1 \in Int /\ Congruent(i1, v)
  BY <1>1, <1>3, ModpowPower
<1>5. v \in Int /\ Power(a, P - 1) = a * v
  BY <1>1, <1>3, PowerFacts
<1> HIDE DEF v, i1
<1>6. Congruent(a * i1, a * v)
  <2>1. Congruent(a, a)
    BY DEF Congruent
  <2> QED BY <1>1, <1>4, <1>5, <2>1, SameSum
<1>7. Congruent(a * v, 1)
  BY <1>5, Fermat
<1> QED BY <1>2, <1>4, <1>6, <1>7, CongruentTransitive

\* The number that modsqrt starts from.
RootFrom(a) ==
  LET R == modpow(a, (Q + 1) \div 2)
  IN IF modpow(a, Q) = 1 THEN R ELSE (R * RootC) % P

LEMMA Roots ==
  ASSUME NEW a \in Field, Congruent(Power(a, Q), 1) \/ Congruent(Power(a, Q), -1)
  PROVE RootFrom(a) \in Field /\ RootFrom(a) \in Int /\ Congruent(RootFrom(a) * RootFrom(a), a)
<1> DEFINE h == (Q + 1) \div 2
           r == modpow(a, h)
           u == Power(a, h)
           t == Power(a, Q)
<1>1. a \in Int /\ Q \in Nat /\ Q > 0 /\ Q % 2 = 1
  BY FieldFacts, FieldAssumption DEF Field
<1>2. h \in Nat /\ h > 0 /\ h + h = Q + 1
  BY <1>1
<1>3. t \in Int /\ Power(a, Q + 1) = a * t /\ (Congruent(t, 1) \/ Congruent(t, -1))
  BY <1>1, PowerFacts
<1> HIDE DEF h
<1>4. u \in Int /\ Power(a, h + h) = u * u
  BY <1>1, <1>2, PowerFacts, PowerSum
<1>5. r \in Field /\ r \in Int /\ Congruent(r, u)
  BY <1>2, ModpowPower
<1>6. modpow(a, Q) = t % P
  BY <1>1, ModpowPower
<1>7. modpow(a, Q) = 1 <=> Congruent(t, 1)
  BY <1>3, <1>6, OneResidue
<1>8. RootFrom(a) = IF modpow(a, Q) = 1 THEN r ELSE (r * RootC) % P
  BY DEF RootFrom, r, h
<1> DEFINE rr == r * r  at == a * t
<1> HIDE DEF r, u, t
<1>9. Congruent(rr, at) /\ rr \in Int /\ at \in Int
  <2>1. Congruent(r * r, u * u)
    BY <1>4, <1>5, SameSum
  <2> QED BY <1>1, <1>2, <1>3, <1>4, <1>5, <2>1
<1> HIDE DEF rr
<1>10. Congruent(a, a)
  BY DEF Congruent
<1>11. CASE Congruent(t, 1)
  <2>1. Congruent(at, a * 1)
    BY <1>1, <1>3, <1>10, <1>11, SameSum
  <2>2. a * 1 = a
    BY <1>1
  <2>3. Congruent(rr, a)
    BY <1>9, <2>1, <2>2, CongruentTransitive
  <2> QED BY <1>5, <1>7, <1>8, <1>11, <2>3 DEF rr
<1>12. CASE ~ Congruent(t, 1)
  <2> DEFINE c == RootC
             rc == r * c
             w == rc % P
             cc == c * c
  <2>1. c \in Int /\ cc \in Int /\ Congruent(cc, -1)
    <3>1. c \in Int /\ cc \in Int /\ cc % P = P - 1
      BY FieldAssumption
    <3> HIDE DEF cc
    <3> QED BY <3>1, OneResidue
  <2>2. rc \in Int
    BY <1>5, <2>1
  <2> HIDE DEF c, rc, cc
  <2>3. w \in Field /\ w \in Int /\ Congruent(w, rc)
    BY <2>2, SameFacts
  <2>4. RootFrom(a) = w
    BY <1>7, <1>8, <1>12 DEF w, rc, c
  <2> HIDE DEF w
  <2>5. Congruent(w * w, rc * rc)
    BY <2>2, <2>3, SameSum
  <2>6. rc * rc = rr * cc
    BY <1>5, <2>1 DEF rc, rr, cc
  <2>7. Congruent(rr * cc, at * (-1))
    <3> DEFINE m == -1
    <3>1. m \in Int /\ Congruent(cc, m)
      BY <2>1
    <3> HIDE DEF m
    <3>2. Congruent(rr * cc, at * m)
      BY <1>9, <2>1, <3>1, SameSum
    <3> QED BY <3>2 DEF m
  <2>8. Congruent(at * (-1), a)
    <3> DEFINE m == -1  nt == t * m
    <3>1. m \in Int /\ m * m = 1 /\ Congruent(t, m) /\ nt \in Int
      BY <1>3, <1>12
    <3>2. at * m = a * nt
      BY <1>1, <1>3
    <3> HIDE DEF m
    <3>3. Congruent(nt, m * m)
      <4>1. Congruent(m, m)
        BY DEF Congruent
      <4> QED BY <1>3, <3>1, <4>1, SameSum
    <3>4. Congruent(nt, 1)
      BY <3>1, <3>3
    <3> HIDE DEF nt, at
    <3>5. Congruent(a * nt, a * 1)
      BY <1>1, <1>10, <3>1, <3>4, SameSum
    <3>6. a * 1 = a
      BY <1>1
    <3> QED BY <3>2, <3>5, <3>6 DEF m
  <2>9. Congruent(w * w, a)
    BY <2>5, <2>6, <2>7, <2>8 DEF Congruent
  <2> QED BY <2>3, <2>4, <2>9
<1> QED BY <1>11, <1>12

\* The square of a unit has a root, and modsqrt finds the smaller one.
LEMMA RootOfSquare ==
  ASSUME NEW a \in Units
  PROVE modsqrt(PfTimes(a, a)) \in {a, P - a} /\ 2 * modsqrt(PfTimes(a, a)) < P
<1> DEFINE n == PfTimes(a, a)
           w == RootFrom(n)
           aa == a * a
           t == Power(n, Q)
           u == Power(a, Q)
           v == Power(a, 2 * Q)
<1>1. a \in Int /\ aa \in Int /\ Q \in Nat /\ Q > 0 /\ P = 4 * Q + 1 /\ P \in Nat
  BY UnitsFinite, FieldFacts, FieldAssumption
<1>2. n \in Field /\ n \in Int /\ Congruent(n, aa)
  BY <1>1, PfOperations
<1>3. u \in Int /\ v \in Int /\ v = u * u /\ (Congruent(v, 1) \/ Congruent(v, -1))
      /\ Congruent(v * v, 1)
  BY HalfOrder
<1>4. Power(aa, Q) = u * u
  BY <1>1, PowerTimes
<1> HIDE DEF n, aa, u, v
<1>5. t \in Int /\ Congruent(t, v)
  BY <1>1, <1>2, <1>3, <1>4, PowerCongruent, PowerFacts
<1>6. Congruent(t, 1) \/ Congruent(t, -1)
  BY <1>3, <1>5, CongruentTransitive
<1>7. w \in Field /\ w \in Int /\ Congruent(w * w, n)
  BY <1>2, <1>6, Roots
<1>8. modsqrt(n) = IF w <= P \div 2 THEN w ELSE P - w
  BY DEF modsqrt, RootFrom
<1> HIDE DEF w
<1>9. Congruent(w, a) \/ Congruent(w, -a)
  <2>1. Congruent(w * w, a * a)
    BY <1>2, <1>7, CongruentTransitive DEF aa
  <2> QED BY <1>1, <1>7, <2>1, SquaresEqual
<1>10. w = a \/ w = P - a
  <2>1. a \in Field /\ P - a \in Field
    BY <1>1 DEF Units, Field
  <2>2. CASE Congruent(w, a)
    BY <1>7, <2>1, <2>2, FieldResidue
  <2>3. CASE Congruent(w, -a)
    <3> DEFINE na == -a  pa == P - a
    <3>1. na \in Int /\ pa = P + na /\ Congruent(w, na) /\ pa \in Field
      BY <1>1, <2>1, <2>3
    <3> HIDE DEF na, pa
    <3>2. Congruent(P + na, na)
      BY <3>1, SameFacts
    <3>3. Congruent(w, pa)
      BY <3>1, <3>2 DEF Congruent
    <3>4. w = pa
      BY <1>7, <3>1, <3>3, FieldResidue
    <3> QED BY <3>4 DEF pa
  <2> QED BY <1>9, <2>2, <2>3
<1>11. P \div 2 = 2 * Q
  BY <1>1
<1>12. modsqrt(n) \in {a, P - a} /\ 2 * modsqrt(n) < P
  BY <1>1, <1>7, <1>8, <1>10, <1>11 DEF Units
<1> QED BY <1>12 DEF n

\* legendre is Euler's criterion.
LEMMA LegendreTells ==
  ASSUME NEW a \in Field
  PROVE Legendre(a) <=> \E b \in Field : PfTimes(b, b) = a
<1> DEFINE q2 == 2 * Q
           v == Power(a, q2)
<1>1. a \in Int /\ Q \in Nat /\ Q > 0 /\ P = 4 * Q + 1 /\ P \in Nat /\ P > 4 /\ 0 \in Field
  BY FieldFacts, FieldAssumption DEF Field
<1>2. P \div 2 = q2 /\ q2 \in Nat /\ q2 > 0 /\ q2 - 1 \in Nat
  BY <1>1
<1>3. v \in Int /\ modpow(a, q2) = v % P
  <2> HIDE DEF q2
  <2> QED BY <1>2, ModpowPower
<1>4. Legendre(a) <=> ~ Congruent(v, -1)
  <2>1. Legendre(a) <=> v % P # P - 1
    <3> HIDE DEF q2, v
    <3> QED BY <1>2, <1>3 DEF Legendre
  <2>2. Congruent(v, -1) <=> v % P = P - 1
    <3> HIDE DEF v
    <3> QED BY <1>3, OneResidue
  <2> QED BY <2>1, <2>2
<1>5. ~ Congruent(1, -1) /\ ~ Congruent(0, -1)
  <2>1. 1 % P = 1 /\ 0 % P = 0
    BY <1>1, ModSmall
  <2> QED BY <1>1, <2>1, OneResidue
<1>6. ASSUME NEW b \in Field, PfTimes(b, b) = a PROVE ~ Congruent(v, -1)
  <2> DEFINE bb == b * b  u == Power(b, q2)
  <2>1. b \in Int /\ bb \in Int
    BY FieldFacts
  <2>2. Congruent(a, bb)
    BY <1>6, <2>1, PfOperations
  <2>3. u \in Int /\ Power(bb, q2) = u * u
    BY <1>2, <2>1, PowerFacts, PowerTimes
  <2>4. Congruent(v, u * u)
    <3> HIDE DEF bb, u, q2
    <3> QED BY <1>1, <1>2, <2>1, <2>2, <2>3, PowerCongruent
  <2>5. CASE b = 0
    <3>1. u = 0
      <4> DEFINE m == q2 - 1
      <4>1. m \in Nat /\ m + 1 = q2
        BY <1>2
      <4> HIDE DEF m, q2
      <4>2. Power(b, m + 1) = b * Power(b, m) /\ Power(b, m) \in Int
        BY <2>1, <4>1, PowerFacts
      <4> QED BY <2>5, <4>1, <4>2
    <3>2. Congruent(v, 0)
      <4> HIDE DEF u
      <4> QED BY <2>4, <3>1
    <3> QED BY <1>5, <3>2 DEF Congruent
  <2>6. CASE b # 0
    <3>1. b \in Units
      BY <2>6 DEF Field, Units
    <3>2. Congruent(u * u, 1)
      BY <3>1, HalfOrder
    <3>3. Congruent(v, 1)
      <4> HIDE DEF u
      <4> QED BY <2>4, <3>2, CongruentTransitive
    <3> QED BY <1>5, <3>3 DEF Congruent
  <2> QED BY <2>5, <2>6
<1>7. ASSUME ~ Congruent(v, -1) PROVE \E b \in Field : PfTimes(b, b) = a
  <2>1. CASE a = 0
    <3>1. PfTimes(0, 0) = 0
      BY <1>1, ModSmall DEF PfTimes
    <3> QED BY <1>1, <2>1, <3>1
  <2>2. CASE a # 0
    <3> DEFINE t == Power(a, Q)
    <3>1. a \in Units
      BY <2>2 DEF Field, Units
    <3>2. t \in Int /\ v = t * t /\ (Congruent(v, 1) \/ Congruent(v, -1))
      BY <3>1, HalfOrder
    <3>3. Congruent(t, 1) \/ Congruent(t, -1)
      <4> HIDE DEF t, v
      <4>1. Congruent(t * t, 1 * 1)
        BY <1>7, <3>2
      <4> QED BY <3>2, <4>1, SquaresEqual
    <3> DEFINE w == RootFrom(a)
               ww == w * w
    <3>4. w \in Field /\ w \in Int /\ Congruent(ww, a)
      BY <3>3, Roots
    <3> HIDE DEF w
    <3>5. PfTimes(w, w) \in Field /\ Congruent(PfTimes(w, w), ww)
      BY <3>4, PfOperations
    <3>6. PfTimes(w, w) = a
      BY <3>4, <3>5, CongruentTransitive, FieldResidue
    <3> QED BY <3>4, <3>6
  <2> QED BY <2>1, <2>2
<1> QED BY <1>4, <1>6, <1>7

LEMMA InverseAndRootHold ==
  ASSUME NEW a \in Field
  PROVE InverseAndRoot(a)
<1>1. ASSUME a # 0 PROVE a \in Units
  BY <1>1 DEF Field, Units
<1>2. ASSUME a # 0
      PROVE PfTimes(a, PfInv(a)) = 1 /\ PfTimes(PfOver(1, a), a) = 1
  <2> DEFINE v == PfInv(a)
             o == PfTimes(1, v)
             av == a * v
             oa == o * a
  <2>1. a \in Int /\ v \in Int /\ Congruent(av, 1) /\ av \in Int /\ 1 * v = v
    BY <1>1, <1>2, PfInverse, FieldFacts
  <2> HIDE DEF v
  <2>2. o \in Int /\ Congruent(o, v)
    <3> DEFINE e == 1
    <3>1. e \in Int /\ e * v = v /\ o = PfTimes(e, v)
      BY <2>1
    <3> HIDE DEF e, o
    <3> QED BY <2>1, <3>1, PfOperations
  <2> HIDE DEF o
  <2>3. Congruent(oa, v * a) /\ v * a = av /\ oa \in Int
    <3>1. Congruent(a, a)
      BY DEF Congruent
    <3>2. Congruent(oa, v * a)
      BY <2>1, <2>2, <3>1, SameSum
    <3> QED BY <2>1, <2>2, <3>2
  <2>4. PfTimes(a, v) = av % P /\ PfTimes(o, a) = oa % P
    BY DEF PfTimes
  <2> HIDE DEF av, oa
  <2>5. Congruent(oa, 1)
    BY <2>1, <2>3, CongruentTransitive
  <2>6. av % P = 1 /\ oa % P = 1
    BY <2>1, <2>3, <2>5, OneResidue
  <2> QED BY <2>4, <2>6 DEF PfOver, o, v
<1>3. ASSUME a # 0
      PROVE modsqrt(PfTimes(a, a)) \in {a, P - a} /\ 2 * modsqrt(PfTimes(a, a)) < P
  BY <1>1, <1>3, RootOfSquare
<1> QED BY <1>2, <1>3, LegendreTells DEF InverseAndRoot

LEMMA NegationHolds ==
  ASSUME NEW a \in Field
  PROVE NegationOfZeroOnlyLooksDifferent(a)
<1>1. a \in Int /\ P \in Nat /\ P > 4
  BY FieldFacts
<1> DEFINE n == PfNeg(a)  m == -a
<1>2. n \in Int /\ Congruent(n, m) /\ m \in Int /\ n = P - a
  BY <1>1, PfOperations DEF PfNeg
<1>3. n \in Field <=> a # 0
  BY <1>1, <1>2 DEF Field
<1>4. ASSUME NEW b \in Field
      PROVE /\ PfPlus(b, n) = PfMinus(b, a)
            /\ PfTimes(b, n) = PfMinus(0, PfTimes(b, a))
            /\ PfMinus(b, n) = PfPlus(b, a)
  <2> DEFINE ba == b * a  c == PfTimes(b, a)  nba == b * m
  <2>1. b \in Int /\ Congruent(b, b) /\ Congruent(a, a) /\ Congruent(0, 0) /\ ba \in Int
    BY <1>1, FieldFacts DEF Congruent
  <2>2. b + m = b - a /\ b - m = b + a /\ nba = 0 - ba
    BY <1>1, <2>1
  <2>3. c \in Int /\ Congruent(c, ba)
    BY <1>1, <2>1, PfOperations
  <2> HIDE DEF n, m, ba, c
  <2>4. PfPlus(b, n) = (b + m) % P /\ PfTimes(b, n) = nba % P /\ PfMinus(b, n) = (b - m) % P
    BY <1>2, <2>1, PfOfResidues
  <2>5. PfMinus(b, a) = (b - a) % P /\ PfPlus(b, a) = (b + a) % P
    BY <1>1, <2>1, PfOfResidues
  <2>6. PfMinus(0, c) = (0 - ba) % P
    BY <2>1, <2>3, PfOfResidues
  <2> HIDE DEF nba
  <2> QED BY <2>2, <2>4, <2>5, <2>6 DEF c
<1> HIDE DEF m
<1> QED BY <1>3, <1>4 DEF NegationOfZeroOnlyLooksDifferent

\* The operators of PrimeField and FixedPoint: getInv and / invert the
\* multiplication, modsqrt the squaring and legendre tells the squares, for any
\* prime of the form 4 Q + 1 with Q odd; the negation of zero acts as zero; and
\* *, /, getInv and % of fixed-point numbers are within a unit of the exact value,
\* a quotient at most a whole one short of it, and cut off towards zero, for any
\* resolution and all numbers.
THEOREM NumbersHold == ComputationSpec => []NumbersAreRight
<1>1. ASSUME CaseGiven PROVE NumbersAreRight
  <2>1. CASE case = NoCase
    BY <2>1 DEF NoCase, NumbersAreRight, FieldInverses, NegationOfZero, FixedPointIsExact
  <2>2. CASE case \in Cases
    <3>1. case.kind = "field" => case.x \in Field
      BY <2>2, CasesAssumption
    <3>2. case.kind = "fixed" => case.x \in Int /\ case.y \in Int
      BY <2>2, CasesAssumption
    <3>3. FieldInverses
      BY <3>1, InverseAndRootHold DEF FieldInverses
    <3>4. NegationOfZero
      BY <3>1, NegationHolds DEF NegationOfZero
    <3>5. FixedPointIsExact
      BY <3>2, FixedPointFacts DEF FixedPointIsExact
    <3> QED BY <3>3, <3>4, <3>5 DEF NumbersAreRight
  <2> QED BY <1>1, <2>1, <2>2 DEF CaseGiven
<1> QED BY <1>1, CaseStays, PTL

-----------------------------------------------------------------------------
(* The shared inverse and quotient over the field                           *)

\* What is shared out opens to the secret, whatever the random numbers.
LEMMA PfSharizeOpens ==
  ASSUME NEW n \in Int, NEW r \in Numbers
  PROVE /\ pf!sharize(n, r) \in Numbers /\ Total(pf!sharize(n, r)) \in Int
        /\ Congruent(Total(pf!sharize(n, r)), n)
<1> DEFINE g == [r EXCEPT ![SP] = 0]
           m == pf!recons(g)
           c == PfMinus(n, m)
           h == pf!sharize(n, r)
           X == Total(g)
<1>1. g \in Numbers
  <2>1. g = [p \in Parties |-> IF p = SP THEN 0 ELSE r[p]]
    BY DEF Numbers
  <2> HIDE DEF g
  <2>2. \A p \in Parties : r[p] \in Int
    BY DEF Numbers
  <2> QED BY <2>1, <2>2 DEF Numbers
<1> HIDE DEF g
<1>2. X \in Int /\ m \in Int /\ Congruent(m, X)
  <2>1. m = X % P /\ X \in Int
    BY <1>1, PfRecons
  <2> HIDE DEF m, X
  <2> QED BY <2>1, SameFacts
<1> HIDE DEF m, X
<1>3. c \in Int /\ Congruent(c, n - m)
  BY <1>2, PfOperations
<1>4. h = [p \in Parties |-> IF p = SP THEN c ELSE r[p]]
  BY DEF pf!sharize, m, g
<1> HIDE DEF c
<1>5. h \in Numbers /\ PfShifted(h, g, c)
  <2>1. h \in Numbers
    BY <1>3, <1>4 DEF Numbers
  <2>2. ASSUME NEW e \in Parties PROVE h[e] = IF e = SP THEN g[e] + c ELSE g[e]
    BY <1>3, <1>4 DEF g, Numbers
  <2> HIDE DEF h
  <2> QED BY <2>1, <2>2 DEF PfShifted, Congruent
<1> HIDE DEF h
<1>6. Total(h) \in Int /\ Congruent(Total(h), X + c)
  BY <1>1, <1>3, <1>5, PfShift DEF X
<1>7. Congruent(X + c, n)
  <2> DEFINE nm == n - m  nx == n - X
  <2>1. nm \in Int /\ nx \in Int /\ X + nx = n
    BY <1>2
  <2>2. Congruent(n, n) /\ Congruent(X, X)
    BY DEF Congruent
  <2>3. Congruent(nm, nx)
    BY <1>2, <2>2, SameSum
  <2> HIDE DEF nx
  <2>4. Congruent(c, nx)
    BY <1>3, <2>3, CongruentTransitive
  <2>5. Congruent(X + c, X + nx)
    BY <1>2, <1>3, <2>1, <2>2, <2>4, SameSum
  <2> QED BY <2>1, <2>5
<1> QED BY <1>5, <1>6, <1>7, CongruentTransitive DEF h

LEMMA PfInvOpens ==
  ASSUME NEW s \in Numbers, NEW r \in Numbers, NEW rs \in Numbers, NEW tr, PfTriple(tr),
         pf!recons(s) # 0, pf!recons(r) # 0
  PROVE /\ pf!getInv(s, r, rs, tr) \in Numbers /\ Total(s) \in Int
        /\ Total(pf!getInv(s, r, rs, tr)) \in Int
        /\ Congruent(Total(pf!getInv(s, r, rs, tr)) * Total(s), 1)
<1> DEFINE X == Total(s)  R == Total(r)  XR == X * R
           pr == pf!MulShare(s, r, tr)
           u == pf!recons(pr)
           w == PfInv(u)
           sz == pf!sharize(w, rs)
           h == pf!MulShare(sz, r, tr)
<1>1. X \in Int /\ R \in Int /\ pr \in Numbers /\ Congruent(Total(pr), XR) /\ XR \in Int
  BY PfMulOpens
<1> HIDE DEF pr
<1>2. u = XR % P
  <2> HIDE DEF XR
  <2> QED BY <1>1, PfOpened
<1>3. ~ Congruent(X, 0) /\ ~ Congruent(R, 0)
  <2>1. pf!recons(s) = X % P /\ pf!recons(r) = R % P
    BY PfRecons
  <2> QED BY <1>1, <2>1, ZeroResidue
<1> HIDE DEF X, R
<1>4. ~ Congruent(XR, 0)
  <2> DEFINE m == X % P
  <2>1. m \in Field /\ m \in Int /\ Congruent(m, X)
    BY <1>1, SameFacts
  <2> HIDE DEF m
  <2>2. m \in Units
    BY <1>3, <2>1, UnitFacts DEF Congruent
  <2>3. ~ Congruent(m * R, 0)
    BY <1>1, <1>3, <2>2, Euclid
  <2>4. Congruent(m * R, XR)
    <3>1. Congruent(R, R)
      BY DEF Congruent
    <3> QED BY <1>1, <2>1, <3>1, SameSum
  <2> QED BY <2>3, <2>4 DEF Congruent
<1> HIDE DEF XR
<1>5. u \in Units /\ u \in Int /\ Congruent(u, XR)
  <2>1. u \in Field /\ u \in Int /\ Congruent(u, XR)
    BY <1>1, <1>2, SameFacts
  <2>2. ~ Congruent(u, 0)
    BY <1>4, <2>1 DEF Congruent
  <2> QED BY <2>1, <2>2, UnitFacts
<1> HIDE DEF u
<1>6. w \in Int /\ Congruent(u * w, 1)
  BY <1>5, PfInverse
<1> HIDE DEF w
<1>7. sz \in Numbers /\ Total(sz) \in Int /\ Congruent(Total(sz), w)
  BY <1>6, PfSharizeOpens
<1> HIDE DEF sz
<1>8. h \in Numbers /\ Total(h) \in Int /\ Congruent(Total(h), Total(sz) * R)
  BY <1>7, PfMulOpens DEF R
<1>9. pf!getInv(s, r, rs, tr) = h
  BY DEF pf!getInv, h, sz, w, u, pr
<1> HIDE DEF h
<1> DEFINE H == Total(h)  Z == Total(sz)  ZR == Z * R  wR == w * R
<1>10. H \in Int /\ Z \in Int /\ ZR \in Int /\ wR \in Int /\ Congruent(H, ZR) /\ Congruent(Z, w)
  BY <1>1, <1>6, <1>7, <1>8
<1> HIDE DEF H, Z
<1>11. Congruent(R, R) /\ Congruent(X, X) /\ Congruent(w, w)
  BY DEF Congruent
<1>12. Congruent(ZR, wR)
  BY <1>1, <1>6, <1>10, <1>11, SameSum
<1> HIDE DEF ZR
<1>13. Congruent(H, wR)
  BY <1>10, <1>12, CongruentTransitive
<1>14. wR * X = XR * w
  BY <1>1, <1>6 DEF XR
<1> HIDE DEF wR
<1>15. Congruent(H * X, wR * X)
  BY <1>1, <1>10, <1>11, <1>13, SameSum
<1>16. Congruent(u * w, XR * w)
  BY <1>1, <1>5, <1>6, <1>11, SameSum
<1>17. Congruent(H * X, 1)
  BY <1>6, <1>14, <1>15, <1>16 DEF Congruent
<1> QED BY <1>1, <1>8, <1>9, <1>17 DEF H, X

\* A quotient, times the divisor, is the dividend: n of q = n / b.
LEMMA PfQuotient ==
  ASSUME NEW h \in Numbers, NEW t \in Numbers, NEW n \in Int, NEW k \in Int,
         Congruent(Total(h), n * k), Congruent(k * Total(t), 1)
  PROVE PfTimes(pf!recons(h), pf!recons(t)) = n % P
<1> DEFINE H == Total(h)  Y == Total(t)  nk == n * k  kY == k * Y
<1>1. H \in Int /\ Y \in Int /\ PfTimes(pf!recons(h), pf!recons(t)) = (H * Y) % P
  <2>1. 0 \in Int
    OBVIOUS
  <2> QED BY <2>1, PfOnOpened, PfRecons
<1> HIDE DEF H, Y
<1>2. nk \in Int /\ kY \in Int /\ nk * Y = n * kY /\ n * 1 = n
  BY <1>1
<1>3. Congruent(H, nk) /\ Congruent(kY, 1) /\ Congruent(Y, Y) /\ Congruent(n, n)
  BY DEF Congruent, H, Y
<1> HIDE DEF nk, kY
<1>4. Congruent(H * Y, nk * Y)
  BY <1>1, <1>2, <1>3, SameSum
<1>5. Congruent(n * kY, n * 1)
  BY <1>2, <1>3, SameSum
<1>6. Congruent(H * Y, n)
  BY <1>2, <1>4, <1>5 DEF Congruent
<1> QED BY <1>1, <1>6 DEF Congruent

LEMMA PfQuotients ==
  ASSUME NEW k, PfCase(k), pf!recons(k.t) # 0, pf!recons(k.r) # 0
  PROVE LET a == pf!recons(k.s)  b == pf!recons(k.t)  r == k.r
        IN /\ PfTimes(pf!recons(pf!DivShare(k.s, k.t, r, r, k.triple)), b) = a
           /\ PfTimes(pf!recons(pf!ConstDiv(k.c, k.t, r, r, k.triple)), b) = k.c
           /\ PfTimes(pf!recons(pf!ConstDivVec(k.c, <<k.s, k.t>>, r, r, k.triple)[2]), b) = k.c
<1> DEFINE s == k.s  t == k.t  r == k.r  tr == k.triple  c == k.c
           v == pf!getInv(t, r, r, tr)
           V == Total(v)
<1>1. s \in Numbers /\ t \in Numbers /\ r \in Numbers /\ c \in Field /\ c \in Int /\ PfTriple(tr)
      /\ pf!recons(t) # 0 /\ pf!recons(r) # 0
  BY PfCaseFacts
<1> HIDE DEF s, t, r, tr, c
<1>2. v \in Numbers /\ V \in Int /\ Congruent(V * Total(t), 1)
  BY <1>1, PfInvOpens
<1>3. /\ pf!DivShare(s, t, r, r, tr) = pf!MulShare(s, v, tr)
      /\ pf!ConstDiv(c, t, r, r, tr) = pf!MulConst(v, c)
      /\ pf!ConstDivVec(c, <<s, t>>, r, r, tr)[2] = pf!MulConst(pf!MulConst(v, 1), c)
  <2>1. pf!DivShare(s, t, r, r, tr) = pf!MulShare(s, v, tr)
    BY DEF pf!DivShare
  <2>2. pf!ConstDiv(c, t, r, r, tr) = pf!MulConst(v, c)
    BY DEF pf!ConstDiv
  <2>3. pf!ConstDivVec(c, <<s, t>>, r, r, tr)[2] = pf!MulConst(pf!MulConst(v, 1), c)
    <3> DEFINE vs == pf!getMultiplicativeInvVec(<<s, t>>, r, r, tr)
    <3>1. 2 \in DOMAIN vs /\ vs[2] = pf!ConstDiv(1, t, r, r, tr)
      BY DEF pf!getMultiplicativeInvVec
    <3>2. pf!ConstDiv(1, t, r, r, tr) = pf!MulConst(v, 1)
      BY DEF pf!ConstDiv
    <3>3. pf!ConstDivVec(c, <<s, t>>, r, r, tr) = pf!VecMulConst(vs, c)
      BY DEF pf!ConstDivVec
    <3> HIDE DEF vs, v
    <3>4. pf!VecMulConst(vs, c)[2] = pf!MulConst(vs[2], c)
      BY <3>1 DEF pf!VecMulConst
    <3> QED BY <3>1, <3>2, <3>3, <3>4
  <2> QED BY <2>1, <2>2, <2>3
<1> HIDE DEF v
<1>4. PfTimes(pf!recons(pf!MulShare(s, v, tr)), pf!recons(t)) = pf!recons(s)
  <2> DEFINE h == pf!MulShare(s, v, tr)  X == Total(s)
  <2>1. h \in Numbers /\ X \in Int /\ Congruent(Total(h), X * V)
    BY <1>1, <1>2, PfMulOpens
  <2> HIDE DEF h, X, V
  <2>2. PfTimes(pf!recons(h), pf!recons(t)) = X % P
    BY <1>1, <1>2, <2>1, PfQuotient
  <2> QED BY <1>1, <2>2, PfRecons DEF h, X
<1>5. PfTimes(pf!recons(pf!MulConst(v, c)), pf!recons(t)) = c
  <2> DEFINE h == pf!MulConst(v, c)
  <2>1. h \in Numbers /\ Congruent(Total(h), V * c) /\ V * c = c * V
    BY <1>1, <1>2, PfMulConstOpens
  <2> HIDE DEF h, V
  <2>2. PfTimes(pf!recons(h), pf!recons(t)) = c % P
    BY <1>1, <1>2, <2>1, PfQuotient
  <2> QED BY <1>1, <2>2, SameFacts DEF h
<1>6. PfTimes(pf!recons(pf!MulConst(pf!MulConst(v, 1), c)), pf!recons(t)) = c
  <2> DEFINE e == 1
             g == pf!MulConst(v, e)
             h == pf!MulConst(g, c)
             G == Total(g)
  <2>1. e \in Int /\ V * e = V
    BY <1>2
  <2> HIDE DEF e
  <2>2. g \in Numbers /\ G \in Int /\ Congruent(G, V * e)
    BY <1>2, <2>1, PfMulConstOpens
  <2>3. Congruent(G, V)
    BY <2>1, <2>2
  <2> HIDE DEF g
  <2>4. h \in Numbers /\ Congruent(Total(h), G * c)
    BY <1>1, <2>2, PfMulConstOpens
  <2> HIDE DEF h, G, V
  <2>5. Congruent(G * c, V * c) /\ V * c = c * V
    <3>1. Congruent(c, c)
      BY DEF Congruent
    <3> QED BY <1>1, <1>2, <2>2, <2>3, <3>1, SameSum
  <2>6. Congruent(Total(h), c * V)
    BY <2>4, <2>5, CongruentTransitive
  <2>7. PfTimes(pf!recons(h), pf!recons(t)) = c % P
    BY <1>1, <1>2, <2>4, <2>6, PfQuotient
  <2> QED BY <1>1, <2>7, SameFacts DEF h, g, e
<1>7. /\ PfTimes(pf!recons(pf!DivShare(s, t, r, r, tr)), pf!recons(t)) = pf!recons(s)
      /\ PfTimes(pf!recons(pf!ConstDiv(c, t, r, r, tr)), pf!recons(t)) = c
      /\ PfTimes(pf!recons(pf!ConstDivVec(c, <<s, t>>, r, r, tr)[2]), pf!recons(t)) = c
  BY <1>3, <1>4, <1>5, <1>6
<1> QED BY <1>7 DEF s, t, r, tr, c

-----------------------------------------------------------------------------
(* The inverse and the remainder of fixed-point numbers                     *)

LEMMA TotalPositive ==
  ASSUME NEW D, IsFiniteSet(D), D # {}, NEW f \in [D -> Int], \A e \in D : f[e] > 0
  PROVE Total(f) > 0
<1> DEFINE Good == {T \in SUBSET D : SumUp(f)[T] >= 0 /\ (T # {} => SumUp(f)[T] > 0)}
<1>1. {} \in Good
  BY SumUpFacts
<1>2. ASSUME NEW T \in SUBSET D, T # {} /\ Pick(T) \in T /\ T \ {Pick(T)} \in Good
      PROVE T \in Good
  <2> DEFINE e == Pick(T)  U == T \ {e}
  <2>1. SumUp(f)[T] = f[e] + SumUp(f)[U] /\ f[e] \in Int /\ SumUp(f)[U] \in Int
    BY <1>2, SumStepFacts
  <2>2. f[e] > 0 /\ SumUp(f)[U] >= 0
    BY <1>2
  <2> HIDE DEF e, U
  <2>3. SumUp(f)[T] > 0 /\ SumUp(f)[T] >= 0
    BY <2>1, <2>2
  <2> QED BY <2>3
<1>3. SUBSET D \subseteq Good
  <2> HIDE DEF Good
  <2> QED BY <1>1, <1>2, SetInduction
<1>4. D \in Good /\ DOMAIN f = D
  BY <1>3
<1> QED BY <1>4 DEF Total

LEMMA WholeTotal ==
  ASSUME NEW s \in WholeNumbers
  PROVE \E n \in Int : Total(s) = n * Shift
<1> DEFINE e == 1
<1>1. e \in Int /\ Shift \in Int
  BY ShiftAssumption
<1> HIDE DEF e
<1> DEFINE h == sh!MulConst(s, e)  n == Total(h)
<1>2. Total(s) \in Int /\ n \in Int /\ n * Shift = Total(s) * e
  BY <1>1, FpScaleWhole
<1> HIDE DEF n
<1>3. Total(s) = n * Shift
  BY <1>2 DEF e
<1> QED BY <1>2, <1>3

LEMMA FpSharizeOpens ==
  ASSUME NEW n \in Int, NEW r \in Numbers
  PROVE sh!sharize(n, r) \in Numbers /\ Total(sh!sharize(n, r)) = n
<1> DEFINE g == [r EXCEPT ![SP] = 0]
           c == n - Total(g)
           h == sh!sharize(n, r)
<1>1. g = [p \in Parties |-> IF p = SP THEN 0 ELSE r[p]]
  BY DEF Numbers
<1> HIDE DEF g
<1>2. g \in Numbers
  <2>1. \A p \in Parties : r[p] \in Int
    BY DEF Numbers
  <2> QED BY <1>1, <2>1 DEF Numbers
<1>3. Total(g) \in Int
  BY <1>2, PartiesFacts, TotalType DEF Numbers
<1>4. h = [p \in Parties |-> IF p = SP THEN c ELSE r[p]]
  BY FpRecons DEF sh!sharize, FpMinus, g
<1>5. c \in Int /\ Total(g) + c = n
  BY <1>3
<1> HIDE DEF c
<1>6. h \in Numbers /\ Shifted(Parties, h, g, SP, c)
  <2>1. h \in Numbers
    BY <1>4, <1>5 DEF Numbers
  <2>2. ASSUME NEW e \in Parties PROVE h[e] = IF e = SP THEN g[e] + c ELSE g[e]
    <3>1. r[e] \in Int
      BY DEF Numbers
    <3> HIDE DEF h
    <3>2. h[e] = IF e = SP THEN c ELSE r[e]
      BY <1>4
    <3>3. g[e] = IF e = SP THEN 0 ELSE r[e]
      BY <1>1
    <3> QED BY <1>5, <3>1, <3>2, <3>3
  <2> HIDE DEF h
  <2> QED BY <2>1, <2>2 DEF Shifted
<1> HIDE DEF h
<1>7. Total(h) = Total(g) + c
  BY <1>2, <1>5, <1>6, PartiesFacts, TotalExcept DEF Numbers
<1> QED BY <1>5, <1>6, <1>7 DEF h

FpTriple(tr) ==
  /\ tr.a \in WholeNumbers /\ tr.b \in WholeNumbers /\ tr.c \in Numbers
  /\ Total(tr.c) * Shift = Total(tr.a) * Total(tr.b)

\* A product with a whole number is exact.
LEMMA FpMulWhole ==
  ASSUME NEW s \in Numbers, NEW t \in Numbers, NEW tr, FpTriple(tr), NEW n \in Int,
         Total(t) = n * Shift
  PROVE /\ sh!MulShare(s, t, tr) \in Numbers /\ Total(s) \in Int
        /\ Total(sh!MulShare(s, t, tr)) = Total(s) * n
<1> DEFINE X == Total(s)  m == Total(sh!MulShare(s, t, tr))
<1>1. Shift \in Nat /\ Shift > 0 /\ Shift \in Int
  BY ShiftAssumption
<1>2. /\ sh!MulShare(s, t, tr) \in Numbers /\ m \in Int /\ X \in Int
      /\ Abs(m * Shift - X * Total(t)) < Shift
  BY FpMulOpens DEF FpTriple
<1> HIDE DEF X, m
<1> DEFINE d == m - X * n
<1>3. d \in Int /\ m * Shift - X * Total(t) = d * Shift
  BY <1>1, <1>2
<1> HIDE DEF d
<1>4. Abs(d * Shift) < Shift /\ d * Shift \in Int
  BY <1>1, <1>2, <1>3
<1>5. d * Shift < Shift /\ -(d * Shift) < Shift
  BY <1>1, <1>4 DEF Abs
<1>6. d = 0
  <2>1. \A u, v \in Int : v > 0 /\ u >= 1 => u * v >= v
    OBVIOUS
  <2>2. ~ d >= 1
    BY <1>1, <1>3, <1>4, <1>5, <2>1
  <2> DEFINE e == -d
  <2>3. e \in Int /\ e * Shift = -(d * Shift) /\ e * Shift \in Int
    BY <1>1, <1>3
  <2> HIDE DEF e
  <2>4. ~ e >= 1
    BY <1>1, <1>5, <2>1, <2>3
  <2> QED BY <1>3, <2>2, <2>4 DEF e
<1>7. m = X * n
  <2>1. X * n \in Int
    BY <1>2
  <2> QED BY <1>2, <1>6, <2>1 DEF d
<1> QED BY <1>2, <1>7 DEF X, m

\* An inverse that is rounded towards zero and scaled by the mask.
LEMMA MaskedInverse ==
  ASSUME NEW a \in Int, NEW n \in Nat, n >= 1, Abs(a) >= Shift
  PROVE /\ a * n \in Int /\ a * n # 0
        /\ Abs(FpTimes(FpInv(a * n) * n, a) - Shift) <= FpTimes(n + 1, Abs(a))
<1> DEFINE SS == Shift * Shift
           u == a * n
           w == DecQuotient(SS, u)
           g == w * u
           T == Trunc(g, Shift)
           m == (n + 1) * Abs(a)
           V == Trunc(m, Shift)
<1>1. Shift \in Nat /\ Shift > 0 /\ Shift \in Int /\ Shift # 0 /\ Abs(Shift) = Shift
  BY ShiftAssumption DEF Abs
<1>2. SS \in Int /\ SS >= 0 /\ Abs(a) \in Int /\ Abs(a) > 0
  BY <1>1 DEF Abs
<1>3. u \in Int /\ u # 0 /\ Abs(u) = Abs(a) * n
  <2>1. a # 0
    BY <1>1 DEF Abs
  <2>2. u \in Int
    OBVIOUS
  <2>3. u # 0
    BY <2>1
  <2> QED BY <2>2, <2>3, AbsTimes
<1>4. w \in Int /\ 0 <= g /\ g <= SS /\ SS - g <= Abs(u)
  <2> HIDE DEF SS, u
  <2> QED BY <1>2, <1>3, DecQuotientFacts
<1>5. (w * n) * a = g
  <2> HIDE DEF w
  <2> QED BY <1>4
<1>6. g \in Int
  <2> HIDE DEF w, u
  <2> QED BY <1>3, <1>4
<1>7. T \in Int /\ T * Shift <= g /\ g - T * Shift < Shift
  <2> HIDE DEF g
  <2> QED BY <1>1, <1>4, <1>6, TruncFacts
<1>8. m \in Int /\ m >= 0 /\ m = Abs(a) * n + Abs(a) /\ Abs(a) * n \in Int
  <2> DEFINE b == Abs(a)
  <2>1. b \in Int /\ b > 0
    BY <1>2
  <2> HIDE DEF b
  <2>2. (n + 1) * b = b * n + b /\ b * n \in Int /\ b * n >= 0
    BY <2>1
  <2>3. (n + 1) * b \in Int /\ (n + 1) * b >= 0
    BY <2>1, <2>2
  <2> QED BY <2>2, <2>3 DEF b
<1>9. V \in Int /\ m - V * Shift < Shift
  <2> HIDE DEF m
  <2> QED BY <1>1, <1>8, TruncFacts
<1> HIDE DEF T, V
<1>10. T * Shift \in Int /\ V * Shift \in Int /\ (V + 1) * Shift = V * Shift + Shift
       /\ (Shift - T) * Shift = SS - T * Shift
  BY <1>1, <1>7, <1>9
<1> HIDE DEF SS, g, m
<1>11. (Shift - T) * Shift < (V + 1) * Shift
  BY <1>1, <1>2, <1>3, <1>4, <1>6, <1>7, <1>8, <1>9, <1>10
<1>12. \A e, f \in Int : e * Shift < f * Shift => e < f
  BY <1>1
<1>13. Shift - T <= V
  BY <1>1, <1>7, <1>9, <1>11, <1>12
<1>14. \A e, f \in Int : e * Shift <= f * Shift => e <= f
  BY <1>1
<1>15. T <= Shift
  BY <1>1, <1>2, <1>4, <1>6, <1>7, <1>10, <1>14 DEF SS
<1>16. Abs(T - Shift) <= V
  BY <1>1, <1>7, <1>9, <1>13, <1>15 DEF Abs
<1>17. FpTimes(FpInv(a * n) * n, a) = T /\ FpTimes(n + 1, Abs(a)) = V
  <2>1. FpInv(a * n) = w
    BY DEF FpInv, SS
  <2> HIDE DEF w
  <2> QED BY <1>5, <2>1 DEF FpTimes, T, V, m
<1> QED BY <1>3, <1>16, <1>17

LEMMA FpInverseOpens ==
  ASSUME NEW k, FpCase(k)
  PROVE LET a == sh!recons(k.s)  mask == sh!recons(k.r)
        IN Abs(a) >= One =>
             Abs(FpTimes(sh!recons(sh!getInv(k.s, k.r, k.r, k.triple)), a) - One)
               <= FpTimes(Trunc(mask, Shift) + 1, Abs(a))
<1> DEFINE s == k.s  r == k.r  tr == k.triple  a == Total(s)  mask == Total(r)
<1>1. s \in Numbers /\ r \in WholeNumbers /\ r \in Numbers /\ FpTriple(tr)
      /\ \A p \in Parties : r[p] > 0
  BY FpCaseFacts DEF FpTriple, WholeNumbers
<1>2. Shift \in Nat /\ Shift > 0 /\ Shift \in Int
  BY ShiftAssumption
<1> HIDE DEF s, r, tr
<1>3. PICK n \in Int : mask = n * Shift
  BY <1>1, WholeTotal
<1>4. mask > 0
  <2>1. Parties # {} /\ IsFiniteSet(Parties)
    BY PartiesFacts
  <2> QED BY <1>1, <2>1, TotalPositive DEF Numbers
<1> HIDE DEF mask
<1>5. n >= 1 /\ n \in Nat
  <2>1. \A e, f \in Int : f > 0 /\ e * f > 0 => e >= 1
    OBVIOUS
  <2> QED BY <1>2, <1>3, <1>4, <2>1
<1>6. Trunc(mask, Shift) = n
  BY <1>2, <1>3, TruncExact
<1> DEFINE pr == sh!MulShare(s, r, tr)
           u == a * n
           w == FpInv(u)
           sz == sh!sharize(w, r)
           h == sh!MulShare(sz, r, tr)
<1>7. a \in Int /\ Total(pr) = u
  BY <1>1, <1>3, FpMulWhole DEF mask
<1> HIDE DEF a
<1> SUFFICES ASSUME Abs(a) >= Shift
             PROVE Abs(FpTimes(sh!recons(sh!getInv(s, r, r, tr)), a) - Shift)
                     <= FpTimes(Trunc(mask, Shift) + 1, Abs(a))
  BY FpRecons DEF One, s, r, tr, a, mask
<1>8. u \in Int /\ u # 0 /\ Abs(FpTimes(w * n, a) - Shift) <= FpTimes(n + 1, Abs(a))
  BY <1>5, <1>7, MaskedInverse
<1>9. sh!recons(pr) = u
  BY <1>7, FpRecons
<1>10. sh!getInv(s, r, r, tr) = h
  BY <1>9 DEF sh!getInv
<1> HIDE DEF u
<1>11. w \in Int
  <2>1. Shift * Shift \in Int
    BY <1>2
  <2> QED BY <1>8, <2>1, DecQuotientFacts DEF FpInv
<1> HIDE DEF w
<1>12. sz \in Numbers /\ Total(sz) = w
  BY <1>1, <1>11, FpSharizeOpens
<1> HIDE DEF sz
<1>13. Total(h) = w * n
  BY <1>1, <1>3, <1>12, FpMulWhole DEF mask
<1>14. sh!recons(sh!getInv(s, r, r, tr)) = w * n
  BY <1>10, <1>13, FpRecons
<1> QED BY <1>6, <1>8, <1>14

LEMMA ModOpens ==
  ASSUME NEW k, ModCase(k)
  PROVE ShareMod(k.s, k.c, k.k) = FpRound(sh!recons(k.s) % k.c)
<1> DEFINE s == k.s  c == k.c  r == k.k  X == Total(s)
           kc == sh!MulConst(r, c)
           d == sh!SubShare(kc, s)
<1>1. s \in Numbers /\ r \in WholeNumbers /\ c \in Nat /\ c > 0 /\ c \in Int
  BY DEF ModCase, Numbers, WholeNumbers
<1>2. Shift \in Nat /\ Shift > 0 /\ Shift \in Int
  BY ShiftAssumption
<1>3. ShareMod(s, c, r) = FpRound((-sh!recons(d)) % c)
  BY DEF ShareMod
<1>4. sh!recons(s) = X
  BY FpRecons
<1> HIDE DEF s, c, r
<1>5. PICK n \in Int : Total(r) = n * Shift
  BY <1>1, WholeTotal
<1>6. kc \in Numbers /\ Total(kc) \in Int /\ Total(kc) * Shift = Total(r) * c
  BY <1>1, FpScaleWhole
<1>7. Total(kc) = n * c
  <2> DEFINE t == Total(kc)  v == n * c
  <2>1. v \in Int /\ (n * Shift) * c = v * Shift
    BY <1>1, <1>2
  <2>2. t \in Int /\ t * Shift = v * Shift
    BY <1>5, <1>6, <2>1
  <2> HIDE DEF t, v
  <2>3. t = v
    BY <1>2, <2>1, <2>2
  <2> QED BY <2>3 DEF t, v
<1> HIDE DEF kc
<1>8. X \in Int /\ sh!recons(d) = n * c - X
  BY <1>1, <1>6, <1>7, FpSubOpens, FpRecons
<1> HIDE DEF X, d
<1> DEFINE v == -sh!recons(d)  m == -n
<1>9. v \in Int /\ m \in Int /\ v = X + m * c
  BY <1>1, <1>8
<1> HIDE DEF v, m
<1>10. v % c = X % c
  BY <1>1, <1>8, <1>9, Congruence
<1>11. ShareMod(s, c, r) = FpRound(sh!recons(s) % c)
  BY <1>3, <1>4, <1>10 DEF v
<1> QED BY <1>11 DEF s, c, r

\* The operators of Share.hpp on shares and constants, +, -, *, / and %, and the
\* operations on vectors open to the operation on the hidden numbers: for any
\* number of parties, any way to share the arguments, any prime, any resolution,
\* any triple and any mask.
THEOREM ArithmeticOpens == ComputationSpec => []ArithmeticOpensRight
<1>1. ASSUME CaseGiven PROVE ArithmeticOpensRight
  <2>1. CASE case = NoCase
    BY <2>1 DEF NoCase, ArithmeticOpensRight, ConstantsEnterOnce, ProductsOpenRight,
                QuotientsOpenRight, ModIsRight
  <2>2. CASE case \in Cases
    <3>1. ASSUME case.kind = "pf" PROVE PfCase(case)
      BY <2>2, <3>1, CasesAssumption
    <3>2. ASSUME case.kind = "fp" PROVE FpCase(case)
      BY <2>2, <3>2, CasesAssumption
    <3>3. ASSUME case.kind = "mod" PROVE ModCase(case)
      BY <2>2, <3>3, CasesAssumption
    <3>4. ConstantsEnterOnce
      <4>1. ASSUME PfCase(case)
            PROVE case.s \in Numbers /\ case.t \in Numbers /\ case.c \in Field
        BY <4>1, PfCaseFacts
      <4>2. ASSUME FpCase(case) PROVE case.s \in Numbers /\ case.c \in Int
        BY <4>2, FpCaseFacts
      <4> QED BY <3>1, <3>2, <4>1, <4>2, PfConstants, FpConstants DEF ConstantsEnterOnce
    <3>5. ProductsOpenRight
      BY <3>1, <3>2, PfProducts, FpProducts DEF ProductsOpenRight
    <3>6. QuotientsOpenRight
      <4>1. ASSUME case.kind = "pf", pf!recons(case.t) # 0, pf!recons(case.r) # 0
            PROVE LET b == pf!recons(case.t)  r == case.r
                  IN /\ PfTimes(pf!recons(pf!DivShare(case.s, case.t, r, r, case.triple)), b)
                          = pf!recons(case.s)
                     /\ PfTimes(pf!recons(pf!ConstDiv(case.c, case.t, r, r, case.triple)), b) = case.c
                     /\ PfTimes(pf!recons(pf!ConstDivVec(case.c, <<case.s, case.t>>, r, r, case.triple)[2]), b)
                          = case.c
        BY <3>1, <4>1, PfQuotients
      <4> QED BY <3>2, <4>1, FpInverseOpens DEF QuotientsOpenRight
    <3>7. ModIsRight
      BY <3>3, ModOpens DEF ModIsRight
    <3> QED BY <3>4, <3>5, <3>6, <3>7 DEF ArithmeticOpensRight
  <2> QED BY <1>1, <2>1, <2>2 DEF CaseGiven
<1> QED BY <1>1, CaseStays, PTL

-----------------------------------------------------------------------------
(* Sums over an interval                                                    *)

\* A sum may begin with any member.
LEMMA SumRemove ==
  ASSUME NEW D, IsFiniteSet(D), NEW f \in [D -> Int], NEW T \in SUBSET D, NEW e \in T
  PROVE SumUp(f)[T] = f[e] + SumUp(f)[T \ {e}] /\ SumUp(f)[T \ {e}] \in Int
<1> DEFINE Free(U) == \A d \in U : SumUp(f)[U] = f[d] + SumUp(f)[U \ {d}]
           Bad == {U \in SUBSET D : ~ Free(U)}
<1>1. Bad = {}
  <2> SUFFICES ASSUME Bad # {} PROVE FALSE
    OBVIOUS
  <2>1. PICK U \in Bad : \A W \in SUBSET U : W # U => W \notin Bad
    <3> HIDE DEF Bad
    <3>1. Bad \in SUBSET (SUBSET D)
      BY DEF Bad
    <3> QED BY <3>1, LeastSet
  <2>2. U \in SUBSET D /\ ~ Free(U)
    OBVIOUS
  <2>3. PICK d \in U : SumUp(f)[U] # f[d] + SumUp(f)[U \ {d}]
    BY <2>2
  <2> DEFINE c == Pick(U)
             G == U \ {c}
             H == U \ {d}
             B == U \ {c, d}
  <2>4. c \in U /\ c \in D /\ d \in D /\ f[c] \in Int /\ f[d] \in Int
    BY <2>2, <2>3, PickFacts
  <2>5. SumUp(f)[U] = f[c] + SumUp(f)[G]
    BY <2>2, <2>3, SumUpFacts
  <2>6. c # d
    BY <2>3, <2>5
  <2>7. G \in SUBSET U /\ G # U /\ H \in SUBSET U /\ H # U /\ d \in G /\ c \in H
        /\ G \ {d} = B /\ H \ {c} = B /\ B \in SUBSET D
    BY <2>2, <2>3, <2>4, <2>6
  <2>8. Free(G) /\ Free(H)
    <3> HIDE DEF G, H
    <3>1. G \notin Bad /\ H \notin Bad
      BY <2>1, <2>7
    <3>2. G \in SUBSET D /\ H \in SUBSET D
      BY <2>2, <2>7
    <3> HIDE DEF Free
    <3> QED BY <3>1, <3>2
  <2>9. SumUp(f)[G] = f[d] + SumUp(f)[B] /\ SumUp(f)[H] = f[c] + SumUp(f)[B] /\ SumUp(f)[B] \in Int
    <3> HIDE DEF G, H, B
    <3> QED BY <2>7, <2>8, SumUpFacts
  <2> HIDE DEF c, G, H, B
  <2>10. SumUp(f)[U] = f[d] + SumUp(f)[H]
    BY <2>4, <2>5, <2>9
  <2> QED BY <2>3, <2>10 DEF H
<1>2. Free(T)
  BY <1>1
<1>3. T \ {e} \in SUBSET D
  OBVIOUS
<1> HIDE DEF Bad
<1> QED BY <1>2, <1>3, SumUpFacts

\* The sum of the first n elements.
Upto(f, n) == SumUp(f)[1..n]

LEMMA IntervalFinite ==
  ASSUME NEW n \in Nat
  PROVE IsFiniteSet(1..n) /\ Cardinality(1..n) = n
<1>1. 1 \in Int /\ n \in Int
  OBVIOUS
<1>2. IsFiniteSet(1..n) /\ Cardinality(1..n) = IF 1 > n THEN 0 ELSE n - 1 + 1
  BY <1>1, FS_Interval
<1> QED BY <1>2

LEMMA UptoFacts ==
  ASSUME NEW m \in Nat, NEW f \in [1..m -> Int]
  PROVE /\ Upto(f, 0) = 0 /\ Total(f) = Upto(f, m)
        /\ \A n \in 0..m : Upto(f, n) \in Int
        /\ \A n \in Nat : n < m => f[n + 1] \in Int /\ Upto(f, n + 1) = Upto(f, n) + f[n + 1]
<1>1. IsFiniteSet(1..m)
  BY IntervalFinite
<1>2. 1..0 = {}
  OBVIOUS
<1>3. SumUp(f)[{}] = 0 /\ \A T \in SUBSET (1..m) : SumUp(f)[T] \in Int
  BY <1>1, SumUpFacts
<1>4. \A n \in 0..m : 1..n \in SUBSET (1..m)
  OBVIOUS
<1>5. ASSUME NEW n \in Nat, n < m PROVE f[n + 1] \in Int /\ Upto(f, n + 1) = Upto(f, n) + f[n + 1]
  <2> DEFINE e == n + 1  T == 1..e
  <2>1. T \in SUBSET (1..m) /\ e \in T /\ T \ {e} = 1..n /\ e \in 1..m
    BY <1>5
  <2>2. f[e] \in Int
    BY <2>1
  <2> HIDE DEF e, T
  <2>3. SumUp(f)[T] = f[e] + SumUp(f)[T \ {e}] /\ SumUp(f)[T \ {e}] \in Int
    BY <1>1, <2>1, SumRemove
  <2>4. Upto(f, e) = f[e] + Upto(f, n) /\ Upto(f, n) \in Int
    BY <2>1, <2>3 DEF Upto, T
  <2> QED BY <2>2, <2>4 DEF e
<1>6. DOMAIN f = 1..m
  OBVIOUS
<1> QED BY <1>2, <1>3, <1>4, <1>5, <1>6 DEF Upto, Total

\* Induction up to a bound.
LEMMA BoundedInduction ==
  ASSUME NEW m \in Nat, NEW Good, 0 \in Good, \A n \in Nat : n < m /\ n \in Good => n + 1 \in Good
  PROVE 0..m \subseteq Good
<1> DEFINE G == {n \in Nat : n <= m => n \in Good}
<1>1. 0 \in G
  OBVIOUS
<1>2. ASSUME NEW n \in Nat, n \in G PROVE n + 1 \in G
  BY <1>2
<1>3. Nat \subseteq G
  <2> HIDE DEF G
  <2> QED BY <1>1, <1>2, NumberInduction
<1> QED BY <1>3

\* Only one summand is not 0.
LEMMA TotalSingle ==
  ASSUME NEW D, IsFiniteSet(D), NEW f \in [D -> Int], NEW e \in D, \A d \in D : d # e => f[d] = 0
  PROVE Total(f) = f[e] /\ f[e] \in Int
<1> DEFINE g == [d \in D |-> 0]  c == f[e]  zero == 0
<1>1. g \in [D -> Int] /\ c \in Int
  OBVIOUS
<1>2. \A d \in D : g[d] = 0 /\ f[d] \in Int
  OBVIOUS
<1>3. Shifted(D, f, g, e, c)
  <2> HIDE DEF g, c
  <2>1. \A d \in D : f[d] = IF d = e THEN g[d] + c ELSE g[d]
    BY <1>1, <1>2 DEF c
  <2> QED BY <2>1 DEF Shifted
<1>4. Weighted(D, g, zero, g, zero, g) /\ zero \in Int
  BY DEF Weighted
<1> HIDE DEF g, c, zero
<1>5. Total(f) = Total(g) + c
  BY <1>1, <1>3, TotalExcept
<1>6. Total(g) = zero * Total(g) + zero * Total(g) /\ Total(g) \in Int
  BY <1>1, <1>4, TotalLinear, TotalType
<1>7. Total(g) = 0
  BY <1>6 DEF zero
<1> QED BY <1>1, <1>5, <1>7 DEF c

LEMMA TotalZero ==
  ASSUME NEW D, IsFiniteSet(D), NEW f \in [D -> Int], \A d \in D : f[d] = 0
  PROVE Total(f) = 0
<1> DEFINE zero == 0
<1>1. Weighted(D, f, zero, f, zero, f) /\ zero \in Int
  BY DEF Weighted
<1> HIDE DEF zero
<1>2. Total(f) = zero * Total(f) + zero * Total(f) /\ Total(f) \in Int
  BY <1>1, TotalLinear, TotalType
<1> QED BY <1>2 DEF zero

\* The folds of Compare.cpp's second half.
LEMMA FieldSumIs ==
  ASSUME NEW m \in Nat, NEW f \in [1..m -> Int]
  PROVE FieldSum(f) = Total(f) % P /\ Total(f) \in Int
<1>1. FieldSum(f) = LET g[T \in SUBSET DOMAIN f] ==
                          IF T = {} THEN 0
                          ELSE (f[CHOOSE e \in T : TRUE] + g[T \ {CHOOSE e \in T : TRUE}]) % P
                    IN g[DOMAIN f]
  BY DEF FieldSum, FoldFunction, FoldFunctionOnSet, MapThenFoldSet, PfPlus
<1>2. PfSumUp(f)[DOMAIN f] =
        LET g[T \in SUBSET DOMAIN f] ==
              IF T = {} THEN 0
              ELSE (f[CHOOSE e \in T : TRUE] + g[T \ {CHOOSE e \in T : TRUE}]) % P
        IN g[DOMAIN f]
  BY DEF PfSumUp, Pick
<1>3. FieldSum(f) = PfSumUp(f)[DOMAIN f]
  BY <1>1, <1>2
<1>4. DOMAIN f = 1..m /\ 1..m \in SUBSET (1..m)
  OBVIOUS
<1>5. PfSumUp(f)[1..m] = SumUp(f)[1..m] % P
  BY <1>4, IntervalFinite, PfSumUpFacts
<1>6. Total(f) \in Int
  BY <1>4, IntervalFinite, TotalType
<1> QED BY <1>3, <1>4, <1>5, <1>6 DEF Total

LEMMA FoldIsTotal ==
  ASSUME NEW f
  PROVE FoldFunction(+, 0, f) = Total(f)
<1>1. FoldFunction(+, 0, f) = LET g[T \in SUBSET DOMAIN f] ==
                          IF T = {} THEN 0
                          ELSE f[CHOOSE e \in T : TRUE] + g[T \ {CHOOSE e \in T : TRUE}]
                    IN g[DOMAIN f]
  BY DEF FoldFunction, FoldFunctionOnSet, MapThenFoldSet
<1>2. Total(f) = LET g[T \in SUBSET DOMAIN f] ==
                       IF T = {} THEN 0
                       ELSE f[CHOOSE e \in T : TRUE] + g[T \ {CHOOSE e \in T : TRUE}]
                 IN g[DOMAIN f]
  BY DEF Total, SumUp, Pick
<1> QED BY <1>1, <1>2

-----------------------------------------------------------------------------
(* Bit vectors and their values                                             *)

LEMMA Pow2Facts ==
  /\ Pow2[0] = 1
  /\ \A n \in Nat : Pow2[n] \in Nat /\ Pow2[n] > 0 /\ Pow2[n + 1] = 2 * Pow2[n]
<1> DEFINE Doubled(g) == [n \in Nat |-> IF n = 0 THEN 1 ELSE 2 * g[n - 1]]
           w == [n \in Nat |-> Power(2, n)]
<1>1. Power(2, 0) = 1 /\ \A n \in Nat : Power(2, n + 1) = 2 * Power(2, n)
  <2> DEFINE two == 2
  <2>1. two \in Int
    OBVIOUS
  <2> HIDE DEF two
  <2>2. Power(two, 0) = 1 /\ \A n \in Nat : Power(two, n + 1) = two * Power(two, n)
    BY <2>1, PowerFacts
  <2> QED BY <2>2 DEF two
<1>2. w = Doubled(w)
  <2>1. ASSUME NEW n \in Nat PROVE w[n] = IF n = 0 THEN 1 ELSE 2 * w[n - 1]
    <3>1. CASE n = 0
      BY <1>1, <3>1
    <3>2. CASE n # 0
      <4> DEFINE m == n - 1
      <4>1. m \in Nat /\ n = m + 1
        BY <3>2
      <4> HIDE DEF m
      <4>2. w[n] = 2 * w[m]
        BY <1>1, <4>1
      <4> QED BY <3>2, <4>2 DEF m
    <3> QED BY <3>1, <3>2
  <2>2. w = [n \in Nat |-> w[n]]
    OBVIOUS
  <2> HIDE DEF w
  <2> QED BY <2>1, <2>2
<1>3. Pow2 = Doubled(Pow2)
  <2> HIDE DEF w
  <2> QED BY <1>2 DEF Pow2
<1>4. Pow2[0] = 1 /\ \A n \in Nat : Pow2[n + 1] = 2 * Pow2[n]
  <2> DEFINE g == Pow2
  <2>1. g = Doubled(g)
    BY <1>3
  <2> HIDE DEF g
  <2>2. \A n \in Nat : g[n] = IF n = 0 THEN 1 ELSE 2 * g[n - 1]
    BY <2>1
  <2>3. ASSUME NEW n \in Nat PROVE g[n + 1] = 2 * g[n]
    <3>1. n + 1 \in Nat /\ n + 1 # 0 /\ (n + 1) - 1 = n
      OBVIOUS
    <3> QED BY <2>2, <3>1
  <2>4. g[0] = 1
    BY <2>2
  <2> QED BY <2>3, <2>4 DEF g
<1> DEFINE Good == {n \in Nat : Pow2[n] \in Nat /\ Pow2[n] > 0}
<1>5. 0 \in Good
  BY <1>4
<1>6. ASSUME NEW n \in Nat, n \in Good PROVE n + 1 \in Good
  BY <1>4, <1>6
<1>7. Nat \subseteq Good
  <2> HIDE DEF Good
  <2> QED BY <1>5, <1>6, NumberInduction
<1> QED BY <1>4, <1>7

LEMMA TableFacts ==
  /\ L \in Nat /\ L >= 1 /\ Lambda \in Nat /\ Lambda >= 1 /\ L = Lambda * Lambda /\ Lambda <= L
  /\ P \in Nat /\ P > 4 /\ P % 2 = 1 /\ L + 1 < P /\ Pow2[L] > P /\ Pow2[L] \in Nat
<1>1. P \in Nat /\ P > 4 /\ Lambda \in Nat /\ Lambda >= 1 /\ L = Lambda * Lambda
  BY FieldFacts, TableAssumption
<1>2. L \in Nat /\ L >= 1 /\ Lambda <= L
  <2>1. \A u \in Nat : u >= 1 => u * u \in Nat /\ u * u >= 1 /\ u <= u * u
    OBVIOUS
  <2> QED BY <1>1, <2>1
<1>3. P % 2 = 1
  <2>1. Q \in Nat /\ P = 4 * Q + 1
    BY FieldAssumption
  <2>2. P = 2 * (2 * Q) + 1 /\ 2 * Q \in Int
    BY <2>1
  <2> QED BY <2>2, <1>1
<1> QED BY <1>1, <1>2, <1>3, TableAssumption, Pow2Facts

Places(b) == [k \in 1..L |-> b[k] * Pow2[L - k]]

LEMMA PlacesFacts ==
  ASSUME NEW b \in BitVectors
  PROVE /\ Places(b) \in [1..L -> Int] /\ Value(b) = Upto(Places(b), L)
        /\ Upto(Places(b), 0) = 0
        /\ \A n \in 0..L : Upto(Places(b), n) \in Int
        /\ \A n \in Nat : n < L => /\ b[n + 1] \in {0, 1} /\ L - (n + 1) \in Nat
                                   /\ Pow2[L - (n + 1)] \in Nat
                                   /\ Upto(Places(b), n + 1)
                                        = Upto(Places(b), n) + b[n + 1] * Pow2[L - (n + 1)]
<1> DEFINE f == Places(b)
<1>1. L \in Nat
  BY TableFacts
<1>2. ASSUME NEW k \in 1..L
      PROVE b[k] \in {0, 1} /\ L - k \in Nat /\ Pow2[L - k] \in Nat /\ b[k] * Pow2[L - k] \in Int
  <2>1. b[k] \in {0, 1} /\ L - k \in Nat
    BY <1>1 DEF BitVectors
  <2>2. Pow2[L - k] \in Nat
    BY <2>1, Pow2Facts
  <2> QED BY <2>1, <2>2
<1>3. f \in [1..L -> Int]
  BY <1>2 DEF Places
<1>4. ASSUME NEW k \in 1..L PROVE f[k] = b[k] * Pow2[L - k]
  BY DEF Places
<1>5. Value(b) = Total(f)
  BY FoldIsTotal DEF Value, Places
<1> HIDE DEF f
<1>6. /\ Upto(f, 0) = 0 /\ Total(f) = Upto(f, L) /\ \A n \in 0..L : Upto(f, n) \in Int
      /\ \A n \in Nat : n < L => f[n + 1] \in Int /\ Upto(f, n + 1) = Upto(f, n) + f[n + 1]
  BY <1>1, <1>3, UptoFacts
<1>7. ASSUME NEW n \in Nat, n < L
      PROVE /\ b[n + 1] \in {0, 1} /\ L - (n + 1) \in Nat /\ Pow2[L - (n + 1)] \in Nat
            /\ Upto(f, n + 1) = Upto(f, n) + b[n + 1] * Pow2[L - (n + 1)]
  <2> DEFINE k == n + 1
  <2>1. k \in 1..L
    BY <1>1, <1>7
  <2>2. Upto(f, k) = Upto(f, n) + f[k]
    BY <1>6, <1>7
  <2> HIDE DEF k
  <2>3. /\ b[k] \in {0, 1} /\ L - k \in Nat /\ Pow2[L - k] \in Nat
        /\ Upto(f, k) = Upto(f, n) + b[k] * Pow2[L - k]
    BY <1>2, <1>4, <2>1, <2>2
  <2> QED BY <2>3 DEF k
<1> QED BY <1>3, <1>5, <1>6, <1>7 DEF f

LEMMA ValueFacts ==
  ASSUME NEW b \in BitVectors
  PROVE Value(b) \in Nat /\ Value(b) % 2 = b[L] /\ b[L] \in {0, 1}
<1> DEFINE u(n) == Upto(Places(b), n)
           Good == {n \in 0..L : u(n) >= 0 /\ (n < L => \E q \in Int : u(n) = 2 * q)}
<1>1. L \in Nat /\ L >= 1
  BY TableFacts
<1>2. /\ Value(b) = u(L) /\ u(0) = 0 /\ \A n \in 0..L : u(n) \in Int
      /\ \A n \in Nat : n < L => /\ b[n + 1] \in {0, 1} /\ L - (n + 1) \in Nat
                                 /\ Pow2[L - (n + 1)] \in Nat
                                 /\ u(n + 1) = u(n) + b[n + 1] * Pow2[L - (n + 1)]
  BY PlacesFacts
<1> HIDE DEF u
<1>3. 0 \in Good
  <2>1. \E q \in Int : 0 = 2 * q
    OBVIOUS
  <2>2. u(0) >= 0 /\ \E q \in Int : u(0) = 2 * q
    BY <1>2, <2>1
  <2>3. 0 \in 0..L
    BY <1>1
  <2> QED BY <2>2, <2>3
<1>4. ASSUME NEW n \in Nat, n < L, n \in Good PROVE n + 1 \in Good
  <2> DEFINE k == n + 1  w == Pow2[L - k]  bk == b[k]  uk == u(k)
  <2>1. k \in 0..L /\ k \in Nat /\ bk \in {0, 1} /\ w \in Nat /\ uk = u(n) + bk * w /\ L - k \in Nat
    BY <1>1, <1>2, <1>4
  <2>2. u(n) \in Int /\ u(n) >= 0
    BY <1>2, <1>4
  <2>3. PICK q \in Int : u(n) = 2 * q
    BY <1>4
  <2>4. ASSUME k < L PROVE \E m \in Int : uk = 2 * m
    <3> DEFINE j == L - k - 1
    <3>1. j \in Nat /\ L - k = j + 1
      BY <1>1, <2>1, <2>4
    <3> HIDE DEF j
    <3>2. Pow2[j] \in Nat /\ w = 2 * Pow2[j]
      BY <3>1, Pow2Facts
    <3> DEFINE p == Pow2[j]
    <3> HIDE DEF w, bk, uk, p
    <3>3. bk \in Int /\ p \in Nat /\ w = 2 * p /\ bk * w = 2 * (bk * p) /\ bk * p \in Int
      BY <2>1, <3>2 DEF p
    <3>4. q + bk * p \in Int /\ uk = 2 * (q + bk * p)
      BY <2>1, <2>3, <3>3
    <3> QED BY <3>4
  <2> HIDE DEF w, bk
  <2>5. uk >= 0
    BY <2>1, <2>2
  <2> HIDE DEF k
  <2> QED BY <2>1, <2>4, <2>5 DEF k
<1>5. 0..L \subseteq Good
  <2> HIDE DEF Good
  <2> QED BY <1>1, <1>3, <1>4, BoundedInduction
<1> DEFINE m == L - 1
<1>6. m \in Nat /\ m < L /\ m \in 0..L /\ L \in 0..L /\ m + 1 = L /\ L - L = 0
  BY <1>1
<1>7. m \in Good /\ L \in Good
  BY <1>5, <1>6
<1>8. PICK q \in Int : u(m) = 2 * q
  BY <1>6, <1>7
<1>9. b[L] \in {0, 1} /\ u(L) = u(m) + b[L] * Pow2[0]
  <2>1. b[m + 1] \in {0, 1} /\ u(m + 1) = u(m) + b[m + 1] * Pow2[L - (m + 1)]
    BY <1>2, <1>6
  <2> HIDE DEF m
  <2> QED BY <1>6, <2>1
<1>10. u(L) = 2 * q + b[L]
  BY <1>8, <1>9, Pow2Facts
<1>11. u(L) \in Int /\ u(L) >= 0 /\ u(L) % 2 = b[L]
  <2> DEFINE bl == b[L]  ul == u(L)
  <2>1. bl \in {0, 1} /\ ul = 2 * q + bl
    BY <1>9, <1>10
  <2> HIDE DEF bl, ul
  <2>2. ul \in Int /\ ul % 2 = bl
    BY <2>1
  <2> QED BY <1>7, <2>2 DEF bl, ul
<1> QED BY <1>2, <1>9, <1>11

\* a and b are the same before place m, where a has 0 and b has 1.
FirstLess(a, b, m) == /\ m \in 1..L /\ a[m] = 0 /\ b[m] = 1
                      /\ \A k \in 1..L : k < m => a[k] = b[k]

LEMMA Lexicographic ==
  ASSUME NEW a \in BitVectors, NEW b \in BitVectors, NEW m, FirstLess(a, b, m)
  PROVE Value(a) < Value(b)
<1> DEFINE u(n) == Upto(Places(a), n)
           v(n) == Upto(Places(b), n)
           Good == {n \in 0..L : /\ n < m => u(n) = v(n)
                                 /\ n >= m => v(n) - u(n) >= Pow2[L - n]}
<1>1. L \in Nat /\ L >= 1 /\ m \in 1..L /\ m \in Nat
  BY TableFacts DEF FirstLess
<1>2. /\ Value(a) = u(L) /\ u(0) = 0 /\ \A n \in 0..L : u(n) \in Int
      /\ \A n \in Nat : n < L => /\ a[n + 1] \in {0, 1} /\ L - (n + 1) \in Nat
                                 /\ Pow2[L - (n + 1)] \in Nat
                                 /\ u(n + 1) = u(n) + a[n + 1] * Pow2[L - (n + 1)]
  BY PlacesFacts
<1>3. /\ Value(b) = v(L) /\ v(0) = 0 /\ \A n \in 0..L : v(n) \in Int
      /\ \A n \in Nat : n < L => /\ b[n + 1] \in {0, 1} /\ L - (n + 1) \in Nat
                                 /\ Pow2[L - (n + 1)] \in Nat
                                 /\ v(n + 1) = v(n) + b[n + 1] * Pow2[L - (n + 1)]
  BY PlacesFacts
<1> HIDE DEF u, v
<1>4. 0 \in Good
  BY <1>1, <1>2, <1>3
<1>5. ASSUME NEW n \in Nat, n < L, n \in Good PROVE n + 1 \in Good
  <2> DEFINE k == n + 1  w == Pow2[L - k]  ak == a[k]  bk == b[k]  un == u(n)  vn == v(n)
             uk == u(k)  vk == v(k)
  <2>1. /\ k \in 0..L /\ k \in 1..L /\ k \in Nat /\ w \in Nat /\ L - k \in Nat
        /\ ak \in {0, 1} /\ bk \in {0, 1} /\ uk = un + ak * w /\ vk = vn + bk * w
    BY <1>1, <1>2, <1>3, <1>5
  <2>2. un \in Int /\ vn \in Int
    BY <1>2, <1>3, <1>5
  <2>3. L - n = (L - k) + 1
    BY <1>1, <1>5
  <2>4. Pow2[L - n] = 2 * w
    BY <2>1, <2>3, Pow2Facts
  <2>5. (k < m => ak = bk) /\ (k = m => ak = 0 /\ bk = 1)
    BY <2>1 DEF FirstLess
  <2>6. (n < m => un = vn) /\ (n >= m => vn - un >= 2 * w)
    BY <1>5, <2>4
  <2> HIDE DEF w, ak, bk, un, vn, uk, vk
  <2>7. k < m => uk = vk
    BY <1>1, <1>5, <2>1, <2>5, <2>6 DEF k
  <2>8. k = m => vk - uk >= w
    <3>1. k = m => n < m
      BY <1>1 DEF k
    <3> HIDE DEF k
    <3> QED BY <3>1, <2>1, <2>2, <2>5, <2>6
  <2>9. k > m => vk - uk >= w
    <3>1. k > m => n >= m
      BY <1>1 DEF k
    <3>2. ak * w >= 0 /\ ak * w <= w /\ bk * w >= 0 /\ bk * w <= w /\ ak * w \in Int /\ bk * w \in Int
      BY <2>1
    <3> HIDE DEF k
    <3> QED BY <3>1, <3>2, <2>1, <2>2, <2>6
  <2> HIDE DEF k
  <2>10. k >= m => vk - uk >= w
    BY <1>1, <2>1, <2>8, <2>9
  <2>11. k \in Good
    BY <2>1, <2>7, <2>10 DEF uk, vk, w
  <2> QED BY <2>11 DEF k
<1>6. 0..L \subseteq Good
  <2> HIDE DEF Good
  <2> QED BY <1>1, <1>4, <1>5, BoundedInduction
<1>7. L \in 0..L /\ L >= m /\ L - L = 0
  BY <1>1
<1>8. v(L) - u(L) >= 1
  <2>1. v(L) - u(L) >= Pow2[L - L]
    BY <1>6, <1>7
  <2> QED BY <1>7, <2>1, Pow2Facts
<1>9. u(L) \in Int /\ v(L) \in Int
  BY <1>2, <1>3, <1>7
<1> QED BY <1>2, <1>3, <1>8, <1>9

LEMMA FirstDifference ==
  ASSUME NEW a \in BitVectors, NEW b \in BitVectors, a # b
  PROVE \E m \in 1..L : FirstLess(a, b, m) \/ FirstLess(b, a, m)
<1> DEFINE S == {k \in 1..L : a[k] # b[k]}
<1>1. L \in Nat
  BY TableFacts
<1>2. \A k \in 1..L : a[k] \in {0, 1} /\ b[k] \in {0, 1}
  BY DEF BitVectors
<1>3. S # {}
  <2>1. a = [k \in 1..L |-> a[k]] /\ b = [k \in 1..L |-> b[k]]
    BY DEF BitVectors
  <2> QED BY <2>1
<1>4. S \in SUBSET Nat
  BY <1>1
<1>5. PICK m \in S : \A k \in Nat : k < m => k \notin S
  <2> HIDE DEF S
  <2> QED BY <1>3, <1>4, LeastNumber
<1>6. m \in 1..L /\ a[m] # b[m] /\ \A k \in 1..L : k < m => a[k] = b[k]
  BY <1>1, <1>5
<1>7. FirstLess(a, b, m) \/ FirstLess(b, a, m)
  BY <1>2, <1>6 DEF FirstLess
<1> QED BY <1>6, <1>7

LEMMA ValueOrder ==
  ASSUME NEW a \in BitVectors, NEW b \in BitVectors
  PROVE /\ Value(a) < Value(b) <=> \E m \in 1..L : FirstLess(a, b, m)
        /\ Value(a) = Value(b) <=> a = b
<1>1. Value(a) \in Nat /\ Value(b) \in Nat
  BY ValueFacts
<1>2. ASSUME NEW m, FirstLess(a, b, m) PROVE Value(a) < Value(b)
  BY <1>2, Lexicographic
<1>3. ASSUME NEW m, FirstLess(b, a, m) PROVE Value(b) < Value(a)
  BY <1>3, Lexicographic
<1>4. a # b => \E m \in 1..L : FirstLess(a, b, m) \/ FirstLess(b, a, m)
  BY FirstDifference
<1> QED BY <1>1, <1>2, <1>3, <1>4

\* PFtoBS gives the bits of a number that fits.
LEMMA PFtoBSFacts ==
  ASSUME NEW n \in Nat, n < Pow2[L]
  PROVE PFtoBS(n) \in BitVectors /\ Value(PFtoBS(n)) = n
<1> DEFINE b == PFtoBS(n)
           u(k) == Upto(Places(b), k)
           Good == {k \in 0..L : u(k) = Pow2[L - k] * (n \div Pow2[L - k])}
<1>1. L \in Nat
  BY TableFacts
<1>2. ASSUME NEW k \in 1..L PROVE b[k] = (n \div Pow2[L - k]) % 2 /\ b[k] \in {0, 1}
  <2>1. b[k] = (n \div Pow2[L - k]) % 2 /\ L - k \in Nat
    BY <1>1 DEF PFtoBS
  <2> DEFINE w == Pow2[L - k]
  <2>2. w \in Nat /\ w > 0
    BY <2>1, Pow2Facts
  <2> HIDE DEF w
  <2>3. n \div w \in Int
    BY <2>2, Quotient
  <2> DEFINE q == n \div w
  <2> HIDE DEF q
  <2>4. q % 2 \in {0, 1}
    BY <2>3 DEF q
  <2> QED BY <2>1, <2>4 DEF q, w
<1>3. b \in BitVectors
  <2>1. b = [k \in 1..L |-> b[k]]
    BY DEF PFtoBS
  <2> HIDE DEF b
  <2> QED BY <1>2, <2>1 DEF BitVectors
<1> HIDE DEF b
<1>4. /\ Value(b) = u(L) /\ u(0) = 0 /\ \A k \in 0..L : u(k) \in Int
      /\ \A k \in Nat : k < L => /\ b[k + 1] \in {0, 1} /\ L - (k + 1) \in Nat
                                 /\ Pow2[L - (k + 1)] \in Nat
                                 /\ u(k + 1) = u(k) + b[k + 1] * Pow2[L - (k + 1)]
  BY <1>3, PlacesFacts
<1> HIDE DEF u
<1>5. 0 \in Good
  <2> DEFINE w == Pow2[L]
  <2>1. w \in Nat /\ w > 0 /\ n < w /\ L - 0 = L
    BY <1>1, Pow2Facts
  <2> HIDE DEF w
  <2>2. n = w * 0 + n
    BY <2>1
  <2>3. n \div w = 0
    BY <2>1, <2>2, QuotientUnique
  <2>4. w * (n \div w) = 0
    BY <2>1, <2>3
  <2>5. Pow2[L - 0] * (n \div Pow2[L - 0]) = 0
    BY <2>1, <2>4 DEF w
  <2> QED BY <1>1, <1>4, <2>5
<1>6. ASSUME NEW k \in Nat, k < L, k \in Good PROVE k + 1 \in Good
  <2> DEFINE j == k + 1  w == Pow2[L - j]  q == n \div w  h == q \div 2  c == q % 2
  <2>1. j \in 1..L /\ j \in 0..L /\ L - j \in Nat /\ L - k = (L - j) + 1
    BY <1>1, <1>6
  <2>2. w \in Nat /\ w > 0 /\ Pow2[L - k] = 2 * w
    BY <2>1, Pow2Facts
  <2>3. u(j) = u(k) + b[j] * w
    BY <1>4, <1>6
  <2>4. b[j] = c
    BY <1>2, <2>1
  <2> HIDE DEF j, w
  <2>5. q \in Int /\ q >= 0 /\ n = w * q + (n % w) /\ n % w \in Int /\ 0 <= n % w /\ n % w < w
    BY <2>2, Quotient
  <2> HIDE DEF q
  <2>6. h \in Int /\ c \in {0, 1} /\ q = 2 * h + c
    BY <2>5
  <2> HIDE DEF h, c
  <2> DEFINE r == n % w  d == 2 * w  s == w * c + r
  <2>7. d \in Nat /\ d > 0 /\ s \in Int /\ 0 <= s /\ s < d /\ n = d * h + s
    <3>1. r \in Int /\ 0 <= r /\ r < w /\ n = w * q + r
      BY <2>5
    <3> HIDE DEF r
    <3>2. w * q = d * h + w * c
      BY <2>2, <2>6
    <3>3. w * c \in Int /\ d * h \in Int /\ 0 <= w * c /\ w * c <= w
      BY <2>2, <2>6
    <3>4. d \in Nat /\ d > 0 /\ d = w + w
      BY <2>2
    <3> HIDE DEF d
    <3> QED BY <2>2, <3>1, <3>2, <3>3, <3>4
  <2>8. n \div d = h
    <3> HIDE DEF d, s
    <3> QED BY <2>6, <2>7, QuotientUnique
  <2>9. u(k) = d * h
    BY <1>6, <2>2, <2>8
  <2>10. u(j) = w * q
    <3>1. d * h + c * w = w * q
      BY <2>2, <2>6
    <3> QED BY <2>3, <2>4, <2>9, <3>1
  <2>11. j \in Good
    BY <2>1, <2>10 DEF w, q
  <2> QED BY <2>11 DEF j
<1>7. 0..L \subseteq Good
  <2> HIDE DEF Good
  <2> QED BY <1>1, <1>5, <1>6, BoundedInduction
<1>8. L \in 0..L /\ L - L = 0
  BY <1>1
<1>9. u(L) = n
  <2>1. u(L) = Pow2[L - L] * (n \div Pow2[L - L])
    BY <1>7, <1>8
  <2>2. u(L) = 1 * (n \div 1)
    BY <1>8, <2>1, Pow2Facts
  <2> QED BY <2>2
<1> QED BY <1>3, <1>4, <1>9 DEF b

-----------------------------------------------------------------------------
(* The multi-input gates                                                    *)

LEMMA DrawFacts ==
  ASSUME NEW rnd \in Draws, NEW k \in 1..L
  PROVE rnd[k].b \in Units /\ rnd[k].bd \in Units /\ rnd[k].b \in Int /\ rnd[k].bd \in Int
<1>1. rnd[k] \in [b : 1..(P - 1), bd : 1..(P - 1)]
  BY DEF Draws
<1>2. rnd[k].b \in 1..(P - 1) /\ rnd[k].bd \in 1..(P - 1)
  BY <1>1
<1> QED BY <1>2, FieldFacts DEF Units

LEMMA UnitTimes ==
  ASSUME NEW a \in Units, NEW b \in Units
  PROVE PfTimes(a, b) \in Units /\ a \in Int /\ b \in Int
<1> DEFINE n == PfTimes(a, b)  m == a * b
<1>1. a \in Int /\ b \in Int /\ m \in Int
  BY FieldFacts DEF Units
<1>2. n \in Field /\ n \in Int /\ Congruent(n, m)
  BY <1>1, PfOperations
<1>3. ~ Congruent(m, 0)
  <2>1. ~ Congruent(b, 0)
    BY <1>1, UnitFacts
  <2> QED BY <1>1, <2>1, Euclid
<1> HIDE DEF n, m
<1>4. ~ Congruent(n, 0)
  BY <1>2, <1>3 DEF Congruent
<1> QED BY <1>1, <1>2, <1>4, UnitFacts DEF n

\* The inverse of b from the opened product of b and b'.
Binv(d) == PfTimes(PfInv(PfTimes(d.b, d.bd)), d.bd)

LEMMA BinvFacts ==
  ASSUME NEW d, d.b \in Units, d.bd \in Units
  PROVE Binv(d) \in Int /\ Congruent(Binv(d) * d.b, 1)
<1> DEFINE b == d.b  c == d.bd  e == PfTimes(b, c)  n == PfInv(e)  nc == n * c  bc == b * c
           m == Binv(d)
<1>1. e \in Units /\ b \in Int /\ c \in Int
  BY UnitTimes
<1> HIDE DEF b, c
<1>2. e \in Int /\ Congruent(e, bc) /\ bc \in Int
  <2>1. e \in Int /\ Congruent(e, b * c)
    BY <1>1, PfOperations
  <2> QED BY <1>1, <2>1
<1> HIDE DEF e
<1>3. n \in Int /\ Congruent(e * n, 1)
  BY <1>1, PfInverse
<1> HIDE DEF n
<1>4. m \in Int /\ Congruent(m, nc) /\ nc \in Int
  <2>1. m = PfTimes(n, c)
    BY DEF Binv, n, e, b, c
  <2> QED BY <1>1, <1>3, <2>1, PfOperations
<1> HIDE DEF m
<1>5. Congruent(b, b) /\ Congruent(n, n)
  BY DEF Congruent
<1>6. Congruent(m * b, nc * b)
  BY <1>1, <1>4, <1>5, SameSum
<1>7. nc * b = bc * n
  BY <1>1, <1>3
<1> HIDE DEF bc, nc
<1>8. Congruent(e * n, bc * n)
  BY <1>2, <1>3, <1>5, SameSum
<1>9. Congruent(m * b, 1)
  BY <1>3, <1>6, <1>7, <1>8 DEF Congruent
<1> QED BY <1>4, <1>9 DEF m, b

LEMMA RunningFacts ==
  ASSUME NEW c \in [1..L -> Int]
  PROVE /\ Running(c)[0] = 1
        /\ \A k \in Nat : k < L => Running(c)[k + 1] = PfTimes(Running(c)[k], c[k + 1])
<1> DEFINE step == [kv \in Nat \X Int |->
                      IF kv[1] + 1 \in 1..L THEN PfTimes(kv[2], c[kv[1] + 1]) ELSE 0]
           Deeper(g) == [k \in 0..L |-> IF k = 0 THEN 1 ELSE PfTimes(g[k - 1], c[k])]
<1>1. L \in Nat
  BY TableFacts
<1>2. step \in [Nat \X Int -> Int]
  <2>1. ASSUME NEW kv \in Nat \X Int, kv[1] + 1 \in 1..L PROVE PfTimes(kv[2], c[kv[1] + 1]) \in Int
    <3> DEFINE n == kv[2]  m == c[kv[1] + 1]
    <3>1. n \in Int /\ m \in Int
      BY <2>1
    <3> HIDE DEF n, m
    <3>2. PfTimes(n, m) \in Int
      BY <3>1, PfOperations
    <3> QED BY <3>2 DEF n, m
  <2> QED BY <2>1
<1>3. PICK h : Iterates(h, Int, 1, step)
  <2> DEFINE one == 1
  <2>1. one \in Int
    OBVIOUS
  <2> HIDE DEF step, one
  <2>2. \E h : Iterates(h, Int, one, step)
    BY <1>2, <2>1, Recursion
  <2> QED BY <2>2 DEF one
<1>4. h \in [Nat -> Int] /\ h[0] = 1 /\ \A k \in Nat : h[k + 1] = step[<<k, h[k]>>]
  <2> HIDE DEF step
  <2> QED BY <1>3 DEF Iterates
<1>5. ASSUME NEW k \in Nat, k < L PROVE h[k + 1] = PfTimes(h[k], c[k + 1])
  <2>1. <<k, h[k]>> \in Nat \X Int /\ k + 1 \in 1..L
    BY <1>1, <1>4, <1>5
  <2> QED BY <1>4, <2>1
<1> DEFINE w == [k \in 0..L |-> h[k]]
<1>6. w = Deeper(w)
  <2>1. ASSUME NEW k \in 0..L PROVE w[k] = IF k = 0 THEN 1 ELSE PfTimes(w[k - 1], c[k])
    <3>1. CASE k = 0
      BY <1>4, <3>1
    <3>2. CASE k # 0
      <4> DEFINE j == k - 1
      <4>1. j \in Nat /\ j < L /\ k = j + 1 /\ j \in 0..L
        BY <1>1, <3>2
      <4> HIDE DEF j
      <4>2. w[k] = PfTimes(w[j], c[k])
        BY <1>5, <4>1
      <4> QED BY <3>2, <4>2 DEF j
    <3> QED BY <3>1, <3>2
  <2>2. w = [k \in 0..L |-> w[k]]
    OBVIOUS
  <2> HIDE DEF w
  <2> QED BY <2>1, <2>2
<1>7. Running(c) = Deeper(Running(c))
  <2> HIDE DEF w
  <2> QED BY <1>6 DEF Running
<1> DEFINE g == Running(c)
<1>8. g = Deeper(g)
  BY <1>7
<1> HIDE DEF g
<1>9. \A k \in 0..L : g[k] = IF k = 0 THEN 1 ELSE PfTimes(g[k - 1], c[k])
  BY <1>8
<1>10. ASSUME NEW k \in Nat, k < L PROVE g[k + 1] = PfTimes(g[k], c[k + 1])
  <2>1. k + 1 \in 0..L /\ k + 1 # 0 /\ (k + 1) - 1 = k
    BY <1>1, <1>10
  <2> QED BY <1>9, <2>1
<1>11. g[0] = 1
  BY <1>1, <1>9
<1> QED BY <1>10, <1>11 DEF g

\* One more factor: the b of the last one cancels.
Telescopes(r, a, bi, bf, b, pw, c, rr) ==
  /\ Congruent(c, (a * bi) * bf) /\ Congruent(rr, r * c)
  /\ Congruent(bi * b, 1) /\ Congruent(r * bf, pw)

LEMMA Telescope ==
  ASSUME NEW r \in Int, NEW a \in Int, NEW bi \in Int, NEW bf \in Int, NEW b \in Int, NEW pw \in Int,
         NEW c \in Int, NEW rr \in Int, Telescopes(r, a, bi, bf, b, pw, c, rr)
  PROVE Congruent(rr * b, a * pw)
<1> DEFINE abb == (a * bi) * bf  rc == r * c  rabb == r * abb  rb == r * bf  bb == bi * b  ap == a * pw
           arb == a * rb
<1>1. abb \in Int /\ rc \in Int /\ rabb \in Int /\ rb \in Int /\ bb \in Int /\ ap \in Int /\ arb \in Int
  OBVIOUS
<1>2. Congruent(r, r) /\ Congruent(a, a) /\ Congruent(b, b) /\ Congruent(c, abb) /\ Congruent(rr, rc)
      /\ Congruent(bb, 1) /\ Congruent(rb, pw) /\ Congruent(arb, arb)
  BY DEF Congruent, Telescopes
<1>3. rabb * b = arb * bb
  OBVIOUS
<1>4. arb * 1 = arb
  BY <1>1
<1> HIDE DEF abb
<1>5. Congruent(rc, rabb)
  BY <1>1, <1>2, SameSum
<1> HIDE DEF rc, rabb
<1>6. Congruent(rr, rabb)
  BY <1>2, <1>5, CongruentTransitive
<1>7. Congruent(rr * b, rabb * b)
  BY <1>1, <1>2, <1>6, SameSum
<1> HIDE DEF rb
<1>8. Congruent(arb, ap)
  BY <1>1, <1>2, SameSum
<1> HIDE DEF arb, bb, ap
<1>9. Congruent(arb * bb, arb * 1)
  <2> DEFINE e == 1
  <2>1. e \in Int /\ Congruent(bb, e)
    BY <1>2
  <2> HIDE DEF e
  <2>2. Congruent(arb * bb, arb * e)
    BY <1>1, <1>2, <2>1, SameSum
  <2> QED BY <2>2 DEF e
<1>10. Congruent(rr * b, ap)
  BY <1>3, <1>4, <1>7, <1>8, <1>9 DEF Congruent
<1> QED BY <1>10 DEF ap

Before(rnd, k) == IF k = 1 THEN PfTimes(NParties, PfInv(NParties)) ELSE rnd[k - 1].b

LEMMA BeforeFacts ==
  ASSUME NEW rnd \in Draws
  PROVE /\ \A k \in 1..(L + 1) : Before(rnd, k) \in Int
        /\ Congruent(Before(rnd, 1), 1) /\ \A k \in 1..L : Before(rnd, k + 1) = rnd[k].b
<1>1. L \in Nat
  BY TableFacts
<1>2. Before(rnd, 1) \in Int /\ Congruent(Before(rnd, 1), 1)
  <2> DEFINE n == NParties  m == PfInv(n)  nm == n * m
  <2>1. n \in Units /\ n \in Int
    BY TableAssumption, FieldFacts DEF Units
  <2> HIDE DEF n
  <2>2. m \in Int /\ Congruent(nm, 1)
    BY <2>1, PfInverse
  <2> HIDE DEF m
  <2>3. PfTimes(n, m) \in Int /\ Congruent(PfTimes(n, m), nm)
    BY <2>1, <2>2, PfOperations
  <2>4. Congruent(PfTimes(n, m), 1)
    BY <2>2, <2>3 DEF Congruent
  <2> QED BY <2>3, <2>4 DEF Before, n, m
<1>3. ASSUME NEW k \in 1..L PROVE Before(rnd, k + 1) = rnd[k].b /\ rnd[k].b \in Int
  <2>1. k + 1 # 1 /\ (k + 1) - 1 = k
    BY <1>1
  <2> QED BY <2>1, DrawFacts DEF Before
<1>4. ASSUME NEW k \in 1..(L + 1) PROVE Before(rnd, k) \in Int
  <2>1. CASE k = 1
    BY <1>2, <2>1
  <2>2. CASE k # 1
    <3> DEFINE j == k - 1
    <3>1. j \in 1..L /\ k = j + 1
      BY <1>1, <2>2
    <3> HIDE DEF j
    <3> QED BY <1>3, <3>1
  <2> QED BY <2>1, <2>2
<1> QED BY <1>2, <1>3, <1>4

\* The powers of A, whatever the random numbers that hide the opened ones.
LEMMA PowersFacts ==
  ASSUME NEW A \in Int, NEW rnd \in Draws
  PROVE \A k \in 1..L : Powers(A, rnd)[k] \in Int /\ Congruent(Powers(A, rnd)[k], Power(A, k))
<1> DEFINE c == [k \in 1..L |-> PfTimes(PfTimes(A, Binv(rnd[k])), Before(rnd, k))]
           run == Running(c)
           Good == {k \in 0..L : run[k] \in Int /\ Congruent(run[k] * Before(rnd, k + 1), Power(A, k))}
<1>1. L \in Nat /\ L >= 1
  BY TableFacts
<1>2. Powers(A, rnd) = [k \in 1..L |-> PfTimes(run[k], rnd[k].b)]
  BY DEF Powers, Binv, Before
<1>3. ASSUME NEW k \in 1..L
      PROVE /\ Binv(rnd[k]) \in Int /\ Before(rnd, k) \in Int /\ c[k] \in Int
            /\ Congruent(c[k], (A * Binv(rnd[k])) * Before(rnd, k))
            /\ Congruent(Binv(rnd[k]) * rnd[k].b, 1)
  <2> DEFINE bi == Binv(rnd[k])  bf == Before(rnd, k)  m == PfTimes(A, bi)  ab == A * bi
  <2>1. bi \in Int
    BY DrawFacts, BinvFacts
  <2>2. Congruent(bi * rnd[k].b, 1)
    BY DrawFacts, BinvFacts
  <2>3. k \in 1..(L + 1)
    BY <1>1
  <2>4. bf \in Int
    BY <2>3, BeforeFacts
  <2>5. c[k] = PfTimes(m, bf)
    OBVIOUS
  <2> HIDE DEF bi, bf, c
  <2>6. m \in Int /\ Congruent(m, ab) /\ ab \in Int
    <3>1. ab \in Int
      BY <2>1
    <3> QED BY <2>1, <3>1, PfOperations
  <2> HIDE DEF m, ab
  <2>7. c[k] \in Int /\ Congruent(c[k], m * bf)
    <3>1. PfTimes(m, bf) \in Int /\ Congruent(PfTimes(m, bf), m * bf)
      BY <2>4, <2>6, PfOperations
    <3> QED BY <2>5, <3>1
  <2>8. Congruent(bf, bf)
    BY DEF Congruent
  <2>9. Congruent(m * bf, ab * bf)
    BY <2>4, <2>6, <2>8, SameSum
  <2>10. Congruent(c[k], ab * bf)
    BY <2>7, <2>9, CongruentTransitive
  <2> QED BY <2>1, <2>4, <2>7, <2>10, <2>2 DEF bi, bf, ab
<1>4. c \in [1..L -> Int]
  <2>1. c = [k \in 1..L |-> c[k]]
    OBVIOUS
  <2> HIDE DEF c
  <2> QED BY <1>3, <2>1
<1> HIDE DEF c
<1>5. run[0] = 1 /\ \A k \in Nat : k < L => run[k + 1] = PfTimes(run[k], c[k + 1])
  BY <1>4, RunningFacts
<1> HIDE DEF run
<1>6. 0 \in Good
  <2> DEFINE bf == Before(rnd, 0 + 1)
  <2>1. 1 \in 1..(L + 1) /\ 0 + 1 = 1
    BY <1>1
  <2>2. bf \in Int /\ Congruent(bf, 1)
    BY <2>1, BeforeFacts
  <2> HIDE DEF bf
  <2>3. run[0] * bf = bf
    BY <1>5, <2>2
  <2>4. Congruent(run[0] * bf, Power(A, 0))
    BY <2>2, <2>3, PowerFacts
  <2>5. 0 \in 0..L
    BY <1>1
  <2> QED BY <1>5, <2>4, <2>5 DEF bf
<1>7. ASSUME NEW k \in Nat, k < L, k \in Good PROVE k + 1 \in Good
  <2> DEFINE j == k + 1  r == run[k]  rr == run[j]  b == rnd[j].b  bi == Binv(rnd[j])
             bf == Before(rnd, j)  cj == c[j]  pw == Power(A, k)
  <2>1. j \in 1..L /\ j \in 0..L
    BY <1>1, <1>7
  <2>2. r \in Int /\ Congruent(r * bf, pw)
    BY <1>7
  <2>3. rr = PfTimes(r, cj)
    BY <1>5, <1>7
  <2>4. pw \in Int /\ Power(A, j) = A * pw
    BY PowerFacts
  <2> HIDE DEF j
  <2>5. bi \in Int /\ bf \in Int /\ cj \in Int /\ Congruent(cj, (A * bi) * bf) /\ Congruent(bi * b, 1)
    BY <1>3, <2>1
  <2>6. b \in Int /\ Before(rnd, j + 1) = b
    BY <2>1, DrawFacts, BeforeFacts
  <2> HIDE DEF r, rr, b, bi, bf, cj, pw
  <2>7. rr \in Int /\ Congruent(rr, r * cj)
    BY <2>2, <2>3, <2>5, PfOperations
  <2>8. Congruent(rr * b, A * pw)
    <3>1. Telescopes(r, A, bi, bf, b, pw, cj, rr)
      BY <2>2, <2>5, <2>7 DEF Telescopes
    <3> QED BY <2>2, <2>4, <2>5, <2>6, <2>7, <3>1, Telescope
  <2>9. j \in Good
    BY <2>1, <2>4, <2>6, <2>7, <2>8 DEF rr
  <2> QED BY <2>9 DEF j
<1>8. 0..L \subseteq Good
  <2> HIDE DEF Good
  <2> QED BY <1>1, <1>6, <1>7, BoundedInduction
<1>9. ASSUME NEW k \in 1..L
      PROVE Powers(A, rnd)[k] \in Int /\ Congruent(Powers(A, rnd)[k], Power(A, k))
  <2> DEFINE r == run[k]  b == rnd[k].b
  <2>1. k \in 0..L
    BY <1>1
  <2>2. r \in Int /\ Congruent(r * b, Power(A, k))
    BY <1>8, <2>1, BeforeFacts
  <2>3. b \in Int
    BY DrawFacts
  <2>4. Powers(A, rnd)[k] = PfTimes(r, b)
    BY <1>2
  <2> HIDE DEF r, b
  <2>5. PfTimes(r, b) \in Int /\ Congruent(PfTimes(r, b), r * b)
    BY <2>2, <2>3, PfOperations
  <2> QED BY <2>2, <2>4, <2>5 DEF Congruent
<1> QED BY <1>9

\* f65Or and f65And are the polynomials whose tables they read.
LEMMA EvaluateIs ==
  ASSUME NEW A \in Field, NEW rnd \in Draws, NEW coef \in [1..(L + 1) -> Field]
  PROVE Evaluate(coef, Powers(A, rnd)) = Poly(coef, A)
<1> DEFINE pw == Powers(A, rnd)
           f == [k \in 1..(L + 1) |-> coef[k] * modpow(A, k - 1)]
           g == [k \in 1..L |-> PfTimes(coef[k + 1], pw[k])]
           c == coef[1]
           Good == {n \in 0..L : Congruent(Upto(f, n + 1), Upto(g, n) + c)}
           m == L + 1
<1>1. L \in Nat /\ m \in Nat /\ A \in Int /\ A \in Nat
  BY TableFacts, FieldFacts DEF Field
<1>2. \A k \in 1..m : coef[k] \in Int
  BY FieldFacts
<1>3. c \in Int /\ c = coef[1]
  BY <1>1, <1>2
<1>4. ASSUME NEW k \in 1..L
      PROVE /\ coef[k + 1] \in Int /\ g[k] \in Int /\ f[k + 1] \in Int /\ Congruent(f[k + 1], g[k])
  <2> DEFINE a == coef[k + 1]  p == pw[k]  q == Power(A, k)  o == modpow(A, k)
  <2>1. a \in Int /\ k \in Nat /\ k > 0 /\ k + 1 \in 1..m /\ (k + 1) - 1 = k
    BY <1>1, <1>2
  <2>2. p \in Int /\ Congruent(p, q)
    BY <1>1, PowersFacts
  <2>3. o \in Int /\ q \in Int /\ Congruent(o, q)
    BY <2>1, ModpowPower
  <2>4. g[k] = PfTimes(a, p)
    OBVIOUS
  <2>5. f[k + 1] = a * o
    BY <2>1
  <2> HIDE DEF a, p, q, o, f, g
  <2>6. PfTimes(a, p) \in Int /\ Congruent(PfTimes(a, p), a * p)
    BY <2>1, <2>2, PfOperations
  <2>7. Congruent(a, a) /\ Congruent(o, p)
    BY <2>2, <2>3 DEF Congruent
  <2>8. Congruent(a * o, a * p)
    BY <2>1, <2>2, <2>3, <2>7, SameSum
  <2>9. a * o \in Int
    BY <2>1, <2>3
  <2>10. Congruent(f[k + 1], g[k])
    BY <2>4, <2>5, <2>6, <2>8 DEF Congruent
  <2> QED BY <2>1, <2>4, <2>5, <2>6, <2>9, <2>10 DEF a
<1>5. f[1] = c
  <2>1. 1 \in 1..m /\ 1 - 1 = 0
    BY <1>1
  <2>2. modpow(A, 0) = 1
    BY <1>1, ModpowFacts
  <2>3. f[1] = coef[1] * modpow(A, 0)
    BY <2>1
  <2> HIDE DEF f
  <2>4. f[1] = c * 1
    BY <2>2, <2>3
  <2> QED BY <1>3, <2>4
<1>6. f \in [1..m -> Int]
  <2>1. ASSUME NEW k \in 1..m PROVE f[k] \in Int
    <3>1. CASE k = 1
      <4> HIDE DEF f
      <4> QED BY <1>3, <1>5, <3>1
    <3>2. CASE k # 1
      <4> DEFINE j == k - 1
      <4>1. j \in 1..L /\ k = j + 1
        BY <1>1, <3>2
      <4> HIDE DEF f, j
      <4> QED BY <1>4, <4>1
    <3> QED BY <3>1, <3>2
  <2>2. f = [k \in 1..m |-> f[k]]
    OBVIOUS
  <2> HIDE DEF f
  <2> QED BY <2>1, <2>2
<1>7. g \in [1..L -> Int]
  <2>1. g = [k \in 1..L |-> g[k]]
    OBVIOUS
  <2> HIDE DEF g
  <2> QED BY <1>4, <2>1
<1>8. Poly(coef, A) = Total(f) % P
  BY FoldIsTotal DEF Poly, PfMake
<1>9. Evaluate(coef, pw) = PfPlus(FieldSum(g), c)
  BY DEF Evaluate
<1> HIDE DEF f, g, c, m
<1>10. /\ Upto(f, 0) = 0 /\ Total(f) = Upto(f, m) /\ (\A n \in 0..m : Upto(f, n) \in Int)
       /\ \A n \in Nat : n < m => f[n + 1] \in Int /\ Upto(f, n + 1) = Upto(f, n) + f[n + 1]
  BY <1>1, <1>6, UptoFacts
<1>11. /\ Upto(g, 0) = 0 /\ Total(g) = Upto(g, L) /\ (\A n \in 0..L : Upto(g, n) \in Int)
       /\ \A n \in Nat : n < L => g[n + 1] \in Int /\ Upto(g, n + 1) = Upto(g, n) + g[n + 1]
  BY <1>1, <1>7, UptoFacts
<1>12. 0 \in Good
  <2>1. 0 \in Nat /\ 0 < m /\ 0 + 1 = 1 /\ 0 \in 0..L
    BY <1>1 DEF m
  <2>2. Upto(f, 0 + 1) = 0 + c /\ Upto(g, 0) + c = 0 + c
    BY <1>5, <1>10, <1>11, <2>1
  <2> QED BY <2>1, <2>2 DEF Congruent
<1>13. ASSUME NEW n \in Nat, n < L, n \in Good PROVE n + 1 \in Good
  <2> DEFINE j == n + 1  un == Upto(f, j)  vn == Upto(g, n)  fj == f[j + 1]  gj == g[j]
  <2>1. j \in 1..L /\ j \in 0..L /\ n \in 0..L /\ j \in Nat /\ j < m /\ j \in 0..m
    BY <1>1, <1>13 DEF m
  <2>2. Upto(f, j + 1) = un + fj /\ Upto(g, j) = vn + gj
    BY <1>10, <1>11, <1>13, <2>1
  <2>3. un \in Int /\ vn \in Int /\ Congruent(un, vn + c)
    BY <1>10, <1>11, <1>13, <2>1
  <2> HIDE DEF j
  <2>4. fj \in Int /\ gj \in Int /\ Congruent(fj, gj)
    BY <1>4, <2>1
  <2> HIDE DEF un, vn, fj, gj
  <2> DEFINE w == vn + c
  <2>5. w \in Int /\ Congruent(un, w) /\ w + gj = (vn + gj) + c
    BY <1>3, <2>3, <2>4
  <2> HIDE DEF w
  <2>6. Congruent(un + fj, w + gj)
    BY <2>3, <2>4, <2>5, SameSum
  <2>7. j \in Good
    BY <2>1, <2>2, <2>5, <2>6
  <2> QED BY <2>7 DEF j
<1>14. 0..L \subseteq Good
  <2> HIDE DEF Good
  <2> QED BY <1>1, <1>12, <1>13, BoundedInduction
<1> DEFINE F == Total(f)  G == Total(g)
<1>15. Congruent(F, G + c) /\ F \in Int /\ G \in Int
  <2>1. L \in 0..L /\ m = L + 1 /\ m \in 0..m
    BY <1>1 DEF m
  <2>2. Congruent(Upto(f, L + 1), Upto(g, L) + c)
    BY <1>14, <2>1
  <2> QED BY <1>10, <1>11, <2>1, <2>2
<1>16. FieldSum(g) = G % P
  BY <1>1, <1>7, FieldSumIs
<1> HIDE DEF F, G
<1> DEFINE s == G % P
<1>17. s \in Int /\ Congruent(s, G) /\ Congruent(c, c)
  BY <1>3, <1>15, SameFacts
<1> HIDE DEF s
<1>18. PfPlus(s, c) = (G + c) % P
  BY <1>3, <1>15, <1>17, PfOfResidues
<1>19. Evaluate(coef, pw) = F % P
  BY <1>9, <1>15, <1>16, <1>18 DEF Congruent, s
<1> QED BY <1>8, <1>19 DEF F, pw

\* How many of the first n are 1.
LEMMA CountFacts ==
  ASSUME NEW a \in BitVectors
  PROVE /\ a \in [1..L -> Int] /\ Total(a) \in 0..L
        /\ Total(a) = 0 <=> ~ \E k \in 1..L : a[k] = 1
        /\ Total(a) = L <=> \A k \in 1..L : a[k] = 1
<1> DEFINE u(n) == Upto(a, n)
           Good == {n \in 0..L : /\ u(n) \in 0..n
                                 /\ u(n) = 0 <=> ~ \E k \in 1..n : a[k] = 1
                                 /\ u(n) = n <=> \A k \in 1..n : a[k] = 1}
<1>1. L \in Nat
  BY TableFacts
<1>2. a \in [1..L -> Int] /\ \A k \in 1..L : a[k] \in {0, 1}
  BY DEF BitVectors
<1>3. /\ u(0) = 0 /\ Total(a) = u(L)
      /\ \A n \in Nat : n < L => u(n + 1) = u(n) + a[n + 1]
  BY <1>1, <1>2, UptoFacts
<1> HIDE DEF u
<1>4. 0 \in Good
  <2>1. 1..0 = {} /\ 0 \in 0..L /\ 0 \in 0..0
    BY <1>1
  <2> QED BY <1>3, <2>1
<1>5. ASSUME NEW n \in Nat, n < L, n \in Good PROVE n + 1 \in Good
  <2> DEFINE j == n + 1  b == a[j]  un == u(n)  uj == u(j)
  <2>1. j \in 1..L /\ j \in 0..L /\ b \in {0, 1} /\ uj = un + b
    BY <1>1, <1>2, <1>3, <1>5
  <2>2. /\ un \in 0..n /\ (un = 0 <=> ~ \E k \in 1..n : a[k] = 1)
        /\ (un = n <=> \A k \in 1..n : a[k] = 1)
    BY <1>5
  <2>3. \A k : k \in 1..j <=> k \in 1..n \/ k = j
    OBVIOUS
  <2>4. /\ (\E k \in 1..j : a[k] = 1) <=> ((\E k \in 1..n : a[k] = 1) \/ b = 1)
        /\ (\A k \in 1..j : a[k] = 1) <=> ((\A k \in 1..n : a[k] = 1) /\ b = 1)
    BY <2>3
  <2>5. j = n + 1
    OBVIOUS
  <2> HIDE DEF j, b, un, uj
  <2>6. uj \in 0..j /\ (uj = 0 <=> un = 0 /\ b = 0) /\ (uj = j <=> un = n /\ b = 1)
    BY <2>1, <2>2, <2>5
  <2>7. j \in Good
    BY <2>1, <2>2, <2>4, <2>6 DEF uj
  <2> QED BY <2>7 DEF j
<1>6. 0..L \subseteq Good
  <2> HIDE DEF Good
  <2> QED BY <1>1, <1>4, <1>5, BoundedInduction
<1>7. L \in Good
  BY <1>1, <1>6
<1> QED BY <1>2, <1>3, <1>7

LEMMA GateInput ==
  ASSUME NEW a \in BitVectors
  PROVE PfPlus(FieldSum(a), 1) = Total(a) + 1 /\ Total(a) + 1 \in Field /\ Total(a) + 1 \in 1..(L + 1)
<1> DEFINE n == Total(a)  m == n + 1
<1>1. L \in Nat /\ P \in Nat /\ L + 1 < P /\ n \in 0..L /\ n \in Int
  BY TableFacts, CountFacts
<1>2. FieldSum(a) = n % P
  BY <1>1, CountFacts, FieldSumIs
<1> HIDE DEF n
<1>3. n \in Field /\ m \in Field /\ m \in Int /\ m \in 1..(L + 1)
  BY <1>1 DEF Field
<1>4. n % P = n
  BY <1>1, <1>3, SameFacts
<1> HIDE DEF m
<1>5. m % P = m
  BY <1>3, SameFacts
<1> QED BY <1>2, <1>3, <1>4, <1>5 DEF PfPlus, n, m

LEMMA OrIs ==
  ASSUME NEW a \in BitVectors, NEW rnd \in Draws
  PROVE subUnboundedFanInOr(a, rnd) = Bit(\E k \in 1..L : a[k] = 1)
<1> DEFINE A == Total(a) + 1
<1>1. PfPlus(FieldSum(a), 1) = A /\ A \in Field /\ A \in 1..(L + 1)
  BY GateInput
<1>2. A = 1 <=> ~ \E k \in 1..L : a[k] = 1
  BY CountFacts
<1>3. subUnboundedFanInOr(a, rnd) = Evaluate(OrCoef, Powers(A, rnd))
  BY <1>1 DEF subUnboundedFanInOr
<1> HIDE DEF A
<1>4. OrCoef \in [1..(L + 1) -> Field] /\ Poly(OrCoef, A) = (IF A = 1 THEN 0 ELSE 1)
  BY <1>1, TableAssumption
<1>5. Evaluate(OrCoef, Powers(A, rnd)) = Poly(OrCoef, A)
  BY <1>1, <1>4, EvaluateIs
<1> QED BY <1>2, <1>3, <1>4, <1>5 DEF Bit

LEMMA AndIs ==
  ASSUME NEW a \in BitVectors, NEW rnd \in Draws
  PROVE subUnboundedFanInAnd(a, rnd) = Bit(\A k \in 1..L : a[k] = 1)
<1> DEFINE A == Total(a) + 1
<1>1. PfPlus(FieldSum(a), 1) = A /\ A \in Field /\ A \in 1..(L + 1)
  BY GateInput
<1>2. A = L + 1 <=> \A k \in 1..L : a[k] = 1
  BY CountFacts, TableFacts
<1>3. subUnboundedFanInAnd(a, rnd) = Evaluate(AndCoef, Powers(A, rnd))
  BY <1>1 DEF subUnboundedFanInAnd
<1> HIDE DEF A
<1>4. AndCoef \in [1..(L + 1) -> Field] /\ Poly(AndCoef, A) = (IF A = L + 1 THEN 1 ELSE 0)
  BY <1>1, TableAssumption
<1>5. Evaluate(AndCoef, Powers(A, rnd)) = Poly(AndCoef, A)
  BY <1>1, <1>4, EvaluateIs
<1> QED BY <1>2, <1>3, <1>4, <1>5 DEF Bit

-----------------------------------------------------------------------------
(* The prefix disjunctions                                                  *)

\* An operation of the field whose exact result is in the field.
LEMMA FieldOps ==
  ASSUME NEW a \in Int, NEW b \in Int
  PROVE /\ a + b \in Field => PfPlus(a, b) = a + b
        /\ a - b \in Field => PfMinus(a, b) = a - b
        /\ a * b \in Field => PfTimes(a, b) = a * b
<1> DEFINE s == a + b  d == a - b  m == a * b
<1>1. Congruent(a, a) /\ Congruent(b, b)
  BY DEF Congruent
<1>2. PfPlus(a, b) = s % P /\ PfMinus(a, b) = d % P /\ PfTimes(a, b) = m % P
  BY <1>1, PfOfResidues
<1>3. s \in Int /\ d \in Int /\ m \in Int
  OBVIOUS
<1> HIDE DEF s, d, m
<1>4. (s \in Field => s % P = s) /\ (d \in Field => d % P = d) /\ (m \in Field => m % P = m)
  BY <1>3, SameFacts
<1>5. (s \in Field => PfPlus(a, b) = s) /\ (d \in Field => PfMinus(a, b) = d)
      /\ (m \in Field => PfTimes(a, b) = m)
  BY <1>2, <1>4
<1> QED BY <1>5 DEF s, d, m

\* Bits in the field: products, complements and sums.
LEMMA BitOps ==
  ASSUME NEW u \in {0, 1}, NEW v \in {0, 1}
  PROVE /\ PfTimes(u, v) = u * v /\ PfPlus(u, v) = u + v
        /\ v <= u => PfMinus(u, v) = u - v
        /\ PfTimes(2, u) = 2 * u /\ PfMinus(1, u) = 1 - u
<1>1. 0 \in Field /\ 1 \in Field /\ 2 \in Field
  BY FieldFacts DEF Field
<1>2. u * v \in Field /\ u + v \in Field /\ (v <= u => u - v \in Field) /\ 2 * u \in Field /\ 1 - u \in Field
  BY <1>1
<1>3. u \in Int /\ v \in Int
  OBVIOUS
<1>4. PfTimes(u, v) = u * v /\ PfPlus(u, v) = u + v /\ (v <= u => PfMinus(u, v) = u - v)
  BY <1>2, <1>3, FieldOps
<1> DEFINE two == 2  one == 1
<1>5. two \in Int /\ one \in Int /\ two * u \in Field /\ one - u \in Field
  BY <1>2
<1> HIDE DEF two, one
<1>6. PfTimes(two, u) = two * u /\ PfMinus(one, u) = one - u
  BY <1>3, <1>5, FieldOps
<1> QED BY <1>4, <1>6 DEF two, one

\* The places of a vector in Lambda blocks of Lambda.
LEMMA BlockFacts ==
  /\ \A k, j \in Block : InBlock(k, j) \in 1..L
  /\ \A k, j, h, e \in Block : InBlock(h, e) <= InBlock(k, j) <=> h < k \/ (h = k /\ e <= j)
  /\ \A n \in 1..L : /\ (n - 1) \div Lambda + 1 \in Block /\ ((n - 1) % Lambda) + 1 \in Block
                     /\ n = InBlock((n - 1) \div Lambda + 1, ((n - 1) % Lambda) + 1)
<1> DEFINE m == Lambda
<1>1. m \in Nat /\ m >= 1 /\ L = m * m
  BY TableFacts
<1> HIDE DEF m
<1>2. ASSUME NEW k \in 1..m, NEW j \in 1..m PROVE (k - 1) * m + j \in 1..(m * m)
  <2>1. \A u, v \in Nat : u <= v => u * m <= v * m
    BY <1>1
  <2>2. k - 1 \in Nat /\ m - 1 \in Nat /\ k - 1 <= m - 1
    BY <1>1
  <2>3. (k - 1) * m <= (m - 1) * m
    BY <2>1, <2>2
  <2>4. (k - 1) * m \in Int /\ (k - 1) * m >= 0 /\ (m - 1) * m = m * m - m /\ m * m \in Int
    BY <1>1, <2>2
  <2> QED BY <1>1, <2>3, <2>4
<1>3. ASSUME NEW k \in 1..m, NEW j \in 1..m, NEW h \in 1..m, NEW e \in 1..m
      PROVE (h - 1) * m + e <= (k - 1) * m + j <=> h < k \/ (h = k /\ e <= j)
  <2> DEFINE a == (h - 1) * m  b == (k - 1) * m
  <2>1. a \in Int /\ b \in Int
    BY <1>1
  <2>2. \A u, v \in Int : u < v => u * m + m <= v * m
    <3>1. ASSUME NEW u \in Int, NEW v \in Int, u < v PROVE u * m + m <= v * m
      <4>1. u + 1 \in Int /\ u + 1 <= v /\ (u + 1) * m = u * m + m
        BY <1>1, <3>1
      <4>2. \A c, d \in Int : c <= d => c * m <= d * m
        BY <1>1
      <4> QED BY <4>1, <4>2
    <3> QED BY <3>1
  <2>3. h < k => a + m <= b
    <3>1. h < k => h - 1 < k - 1
      BY <1>1
    <3> QED BY <1>1, <2>2, <3>1
  <2>4. k < h => b + m <= a
    <3>1. k < h => k - 1 < h - 1
      BY <1>1
    <3> QED BY <1>1, <2>2, <3>1
  <2>5. h = k => a = b
    OBVIOUS
  <2> HIDE DEF a, b
  <2>6. a + e <= b + j <=> h < k \/ (h = k /\ e <= j)
    BY <1>1, <2>1, <2>3, <2>4, <2>5
  <2> QED BY <2>6 DEF a, b
<1>4. ASSUME NEW n \in 1..L
      PROVE /\ (n - 1) \div m + 1 \in 1..m /\ ((n - 1) % m) + 1 \in 1..m
            /\ n = (((n - 1) \div m + 1) - 1) * m + (((n - 1) % m) + 1)
  <2> DEFINE o == n - 1  q == o \div m  r == o % m
  <2>1. o \in Int /\ o >= 0 /\ o < m * m /\ m * m \in Int
    BY <1>1
  <2>2. n = o + 1
    BY <1>1
  <2> HIDE DEF o
  <2>3. q \in Int /\ q >= 0 /\ r \in Int /\ 0 <= r /\ r < m /\ o = m * q + r
    BY <1>1, <2>1, Quotient
  <2> HIDE DEF q, r
  <2>4. q < m
    <3>1. \A u \in Int : u >= m => m * u >= m * m
      BY <1>1
    <3>2. m * q \in Int /\ m * q <= o
      BY <1>1, <2>1, <2>3
    <3> QED BY <1>1, <2>1, <2>3, <3>1, <3>2
  <2>5. n = ((q + 1) - 1) * m + (r + 1)
    <3>1. ((q + 1) - 1) * m = m * q /\ m * q \in Int
      BY <1>1, <2>3
    <3> QED BY <2>1, <2>2, <2>3, <3>1
  <2>6. q + 1 \in 1..m /\ r + 1 \in 1..m
    BY <1>1, <2>3, <2>4
  <2> QED BY <2>5, <2>6 DEF q, r, o
<1> QED BY <1>1, <1>2, <1>3, <1>4 DEF Block, InBlock, m

Hit(a, k) == \E j \in Block : a[InBlock(k, j)] = 1
FirstHit(a, k) == Hit(a, k) /\ \A h \in Block : h < k => ~ Hit(a, h)

LEMMA OrOfBlocksIs ==
  ASSUME NEW a \in BitVectors, NEW rnd \in Draws, NEW k \in Block
  PROVE OrOfBlocks(a, rnd)[k] = Bit(Hit(a, k))
<1> DEFINE v == [j \in 1..L |-> IF j <= Lambda THEN a[InBlock(k, j)] ELSE 0]
<1>1. L \in Nat /\ Lambda \in Nat /\ Lambda <= L
  BY TableFacts
<1>2. \A n \in 1..L : a[n] \in {0, 1}
  BY DEF BitVectors
<1>3. ASSUME NEW j \in 1..L PROVE v[j] = (IF j \in Block THEN a[InBlock(k, j)] ELSE 0) /\ v[j] \in {0, 1}
  <2>1. j <= Lambda <=> j \in Block
    BY <1>1 DEF Block
  <2>2. j \in Block => InBlock(k, j) \in 1..L
    BY BlockFacts
  <2>3. v[j] = IF j <= Lambda THEN a[InBlock(k, j)] ELSE 0
    OBVIOUS
  <2> HIDE DEF v
  <2> QED BY <1>2, <2>1, <2>2, <2>3
<1>4. v \in BitVectors
  <2>1. v = [j \in 1..L |-> v[j]]
    OBVIOUS
  <2> HIDE DEF v
  <2> QED BY <1>3, <2>1 DEF BitVectors
<1>5. OrOfBlocks(a, rnd)[k] = subUnboundedFanInOr(v, rnd)
  BY DEF OrOfBlocks
<1> HIDE DEF v
<1>6. OrOfBlocks(a, rnd)[k] = Bit(\E j \in 1..L : v[j] = 1)
  BY <1>4, <1>5, OrIs
<1>7. (\E j \in 1..L : v[j] = 1) <=> Hit(a, k)
  <2>1. Block \subseteq 1..L
    BY <1>1 DEF Block
  <2> QED BY <1>3, <2>1 DEF Hit
<1> QED BY <1>6, <1>7 DEF Bit

LEMMA OrOfPrefixesIs ==
  ASSUME NEW v, \A j \in Block : v[j] \in {0, 1}, NEW rnd \in Draws, NEW k \in Block
  PROVE OrOfPrefixes(v, rnd)[k] = Bit(\E j \in 1..k : v[j] = 1)
<1> DEFINE w == subPadding0(v, k)
<1>1. L \in Nat /\ Lambda \in Nat /\ Lambda <= L /\ k \in 1..Lambda /\ k \in Nat
  BY TableFacts DEF Block
<1>2. ASSUME NEW j \in 1..L PROVE w[j] = (IF j <= k THEN v[j] ELSE 0) /\ w[j] \in {0, 1}
  <2>1. w[j] = IF j <= k THEN v[j] ELSE 0
    BY DEF subPadding0
  <2>2. j <= k => j \in Block
    BY <1>1 DEF Block
  <2> HIDE DEF w
  <2> QED BY <2>1, <2>2
<1>3. w \in BitVectors
  <2>1. w = [j \in 1..L |-> w[j]]
    BY DEF subPadding0
  <2> HIDE DEF w
  <2> QED BY <1>2, <2>1 DEF BitVectors
<1>4. OrOfPrefixes(v, rnd)[k] = subUnboundedFanInOr(w, rnd)
  BY DEF OrOfPrefixes
<1> HIDE DEF w
<1>5. OrOfPrefixes(v, rnd)[k] = Bit(\E j \in 1..L : w[j] = 1)
  BY <1>3, <1>4, OrIs
<1>6. (\E j \in 1..L : w[j] = 1) <=> \E j \in 1..k : v[j] = 1
  <2>1. \A j : j \in 1..k <=> j \in 1..L /\ j <= k
    BY <1>1
  <2> QED BY <1>2, <2>1
<1> QED BY <1>5, <1>6 DEF Bit

\* The place k of a block is the first one that is not 0, for the column j of it.
LEMMA FirstBlock ==
  ASSUME NEW a \in BitVectors, NEW f, \A k \in Block : f[k] = Bit(FirstHit(a, k)), NEW j \in Block
  PROVE LET w == FieldSum([k \in Block |-> PfTimes(f[k], a[InBlock(k, j)])])
        IN w \in {0, 1} /\ \A k \in Block : FirstHit(a, k) => w = a[InBlock(k, j)]
<1> DEFINE t == [k \in Block |-> PfTimes(f[k], a[InBlock(k, j)])]
           w == FieldSum(t)
<1>1. Lambda \in Nat /\ Block = 1..Lambda /\ IsFiniteSet(1..Lambda) /\ IsFiniteSet(Block)
  BY TableFacts, IntervalFinite DEF Block
<1>2. ASSUME NEW k \in Block
      PROVE /\ a[InBlock(k, j)] \in {0, 1} /\ f[k] \in {0, 1} /\ t[k] \in {0, 1} /\ t[k] \in Int
            /\ t[k] = IF FirstHit(a, k) THEN a[InBlock(k, j)] ELSE 0
  <2> DEFINE u == f[k]  v == a[InBlock(k, j)]
  <2>1. v \in {0, 1}
    BY BlockFacts DEF BitVectors
  <2>2. u = Bit(FirstHit(a, k)) /\ u \in {0, 1}
    BY DEF Bit
  <2>3. t[k] = PfTimes(u, v)
    OBVIOUS
  <2> HIDE DEF u, v, t
  <2>4. PfTimes(u, v) = u * v
    BY <2>1, <2>2, BitOps
  <2>5. t[k] = IF FirstHit(a, k) THEN v ELSE 0
    BY <2>1, <2>2, <2>3, <2>4 DEF Bit
  <2>6. t[k] \in {0, 1} /\ t[k] \in Int
    BY <2>1, <2>5
  <2> QED BY <2>1, <2>2, <2>5, <2>6 DEF u, v
<1>3. t \in [Block -> Int]
  <2>1. t = [k \in Block |-> t[k]]
    OBVIOUS
  <2> HIDE DEF t
  <2> QED BY <1>2, <2>1
<1> HIDE DEF t
<1>4. w = Total(t) % P
  BY <1>1, <1>3, FieldSumIs
<1>5. 0 \in Field /\ 1 \in Field /\ 0 \in Int /\ 1 \in Int
  BY FieldFacts DEF Field
<1>6. 0 % P = 0 /\ 1 % P = 1
  BY <1>5, SameFacts
<1>7. ASSUME NEW k \in Block, FirstHit(a, k) PROVE w = a[InBlock(k, j)]
  <2>1. ASSUME NEW h \in Block, h # k PROVE ~ FirstHit(a, h)
    <3>1. h \in Int /\ k \in Int
      BY <1>1
    <3>2. h < k \/ k < h
      BY <2>1, <3>1
    <3> QED BY <1>7, <3>2 DEF FirstHit
  <2>2. \A h \in Block : h # k => t[h] = 0
    BY <1>2, <2>1
  <2>3. Total(t) = t[k]
    BY <1>1, <1>3, <2>2, TotalSingle
  <2>4. t[k] = a[InBlock(k, j)] /\ t[k] \in {0, 1}
    BY <1>2, <1>7
  <2> QED BY <1>4, <1>6, <2>3, <2>4
<1>8. ASSUME \A k \in Block : ~ FirstHit(a, k) PROVE w = 0
  <2>1. \A h \in Block : t[h] = 0
    BY <1>2, <1>8
  <2>2. Total(t) = 0
    BY <1>1, <1>3, <2>1, TotalZero
  <2> QED BY <1>4, <1>6, <2>2
<1>9. w \in {0, 1}
  <2>1. CASE \E k \in Block : FirstHit(a, k)
    BY <1>2, <1>7, <2>1
  <2>2. CASE \A k \in Block : ~ FirstHit(a, k)
    BY <1>8, <2>2
  <2> QED BY <2>1, <2>2
<1> QED BY <1>7, <1>9 DEF t

LEMMA FirstHitExists ==
  ASSUME NEW a, NEW k \in Block, Hit(a, k)
  PROVE \E h \in Block : h <= k /\ FirstHit(a, h)
<1> DEFINE S == {h \in Block : Hit(a, h)}
<1>1. Block \in SUBSET Nat /\ k \in Nat
  BY TableFacts DEF Block
<1>2. S \in SUBSET Nat /\ S # {} /\ k \in S
  BY <1>1
<1> HIDE DEF S
<1>3. PICK h \in S : \A n \in Nat : n < h => n \notin S
  BY <1>2, LeastNumber
<1>4. h \in Block /\ Hit(a, h) /\ h \in Nat
  BY <1>1, <1>3 DEF S
<1>5. h <= k
  BY <1>1, <1>2, <1>3, <1>4
<1>6. FirstHit(a, h)
  BY <1>1, <1>3, <1>4 DEF FirstHit, S
<1> QED BY <1>4, <1>5, <1>6

\* y of subPrefixOr: whether one of the blocks up to k is not 0.
BlockPrefixes(a, y0) == \A h \in Block : y0[h] = Bit(\E g \in 1..h : Hit(a, g))

\* f of subPrefixOr marks the first block that is not 0.
LEMMA FirstBlockMark ==
  ASSUME NEW a, NEW x1, NEW y0, NEW k \in Block,
         x1[1] = Bit(Hit(a, 1)), BlockPrefixes(a, y0)
  PROVE (IF k = 1 THEN x1[1] ELSE PfMinus(y0[k], y0[k - 1])) = Bit(FirstHit(a, k))
<1>1. Lambda \in Nat /\ Block = 1..Lambda /\ k \in Nat /\ k >= 1
  BY TableFacts DEF Block
<1>2. CASE k = 1
  <2>1. \A h \in Block : ~ (h < 1)
    BY <1>1
  <2>2. FirstHit(a, 1) <=> Hit(a, 1)
    BY <2>1 DEF FirstHit
  <2> QED BY <1>2, <2>2 DEF Bit
<1>3. CASE k # 1
  <2> DEFINE j == k - 1  u == y0[k]  v == y0[j]
  <2>1. j \in Block /\ \A g : g \in 1..k <=> g \in 1..j \/ g = k
    BY <1>1, <1>3
  <2>2. \A h : h \in 1..j <=> h \in Block /\ h < k
    BY <1>1, <1>3
  <2> HIDE DEF j
  <2>3. u = Bit(\E g \in 1..k : Hit(a, g)) /\ v = Bit(\E g \in 1..j : Hit(a, g))
    BY <2>1 DEF BlockPrefixes
  <2>4. u \in {0, 1} /\ v \in {0, 1} /\ v <= u
    BY <2>1, <2>3 DEF Bit
  <2>5. FirstHit(a, k) <=> u = 1 /\ v = 0
    BY <2>1, <2>2, <2>3 DEF FirstHit, Bit
  <2> HIDE DEF u, v
  <2>6. PfMinus(u, v) = u - v
    BY <2>4, BitOps
  <2>7. PfMinus(u, v) = Bit(FirstHit(a, k))
    BY <2>4, <2>5, <2>6 DEF Bit
  <2> QED BY <1>3, <2>7 DEF u, v, j
<1> QED BY <1>2, <1>3

LEMMA PrefixOrIs ==
  ASSUME NEW a \in BitVectors, NEW rnd \in Draws
  PROVE subPrefixOr(a, rnd) = [n \in 1..L |-> Bit(\E k \in 1..n : a[k] = 1)]
<1> DEFINE u == OrOfBlocks(a, rnd)
           v == OrOfPrefixes(u, rnd)
           f == [k \in Block |-> IF k = 1 THEN u[1] ELSE PfMinus(v[k], v[k - 1])]
           w == [j \in Block |-> FieldSum([k \in Block |-> PfTimes(f[k], a[InBlock(k, j)])])]
           b0 == OrOfPrefixes(w, rnd)
           kk(n) == (n - 1) \div Lambda + 1
           jj(n) == ((n - 1) % Lambda) + 1
           r(n) == PfPlus(PfTimes(f[kk(n)], b0[jj(n)]), PfMinus(v[kk(n)], f[kk(n)]))
<1>1. subPrefixOr(a, rnd) = [n \in 1..L |-> r(n)]
  BY DEF subPrefixOr, PrefixFrom
<1>2. L \in Nat /\ Lambda \in Nat /\ Lambda >= 1 /\ Block = 1..Lambda /\ 1 \in Block
  BY TableFacts DEF Block
<1>3. \A k \in Block : u[k] = Bit(Hit(a, k))
  BY OrOfBlocksIs
<1> HIDE DEF u
<1>4. ASSUME NEW k \in Block PROVE v[k] = Bit(\E h \in 1..k : Hit(a, h))
  <2>1. \A j \in Block : u[j] \in {0, 1}
    BY <1>3 DEF Bit
  <2>2. v[k] = Bit(\E h \in 1..k : u[h] = 1)
    BY <2>1, OrOfPrefixesIs
  <2>3. 1..k \subseteq Block
    BY <1>2
  <2>4. (\E h \in 1..k : u[h] = 1) <=> \E h \in 1..k : Hit(a, h)
    BY <1>3, <2>3 DEF Bit
  <2> QED BY <2>2, <2>4 DEF Bit
<1> HIDE DEF v
<1>5. ASSUME NEW k \in Block PROVE f[k] = Bit(FirstHit(a, k))
  <2>1. f[k] = IF k = 1 THEN u[1] ELSE PfMinus(v[k], v[k - 1])
    OBVIOUS
  <2>2. u[1] = Bit(Hit(a, 1))
    BY <1>2, <1>3
  <2>3. BlockPrefixes(a, v)
    BY <1>4 DEF BlockPrefixes
  <2> HIDE DEF f
  <2> QED BY <2>1, <2>2, <2>3, FirstBlockMark
<1> HIDE DEF f
<1>6. ASSUME NEW j \in Block
      PROVE w[j] \in {0, 1} /\ \A k \in Block : FirstHit(a, k) => w[j] = a[InBlock(k, j)]
  <2> DEFINE wj == FieldSum([k \in Block |-> PfTimes(f[k], a[InBlock(k, j)])])
  <2>1. wj \in {0, 1} /\ \A k \in Block : FirstHit(a, k) => wj = a[InBlock(k, j)]
    BY <1>5, FirstBlock
  <2>2. w[j] = wj
    OBVIOUS
  <2> HIDE DEF w, wj
  <2> QED BY <2>1, <2>2
<1> HIDE DEF w
<1>7. \A j \in Block : b0[j] = Bit(\E e \in 1..j : w[e] = 1)
  BY <1>6, OrOfPrefixesIs
<1> HIDE DEF b0
<1>8. ASSUME NEW n \in 1..L PROVE r(n) = Bit(\E m \in 1..n : a[m] = 1)
  <2> DEFINE k == kk(n)  j == jj(n)  fk == f[k]  bj == b0[j]  vk == v[k]
  <2>1. k \in Block /\ j \in Block /\ n = InBlock(k, j)
    BY BlockFacts
  <2>2. r(n) = PfPlus(PfTimes(fk, bj), PfMinus(vk, fk))
    OBVIOUS
  <2> HIDE DEF k, j
  <2>3. fk = Bit(FirstHit(a, k)) /\ bj = Bit(\E e \in 1..j : w[e] = 1)
        /\ vk = Bit(\E h \in 1..k : Hit(a, h))
    BY <1>4, <1>5, <1>7, <2>1
  <2>4. fk \in {0, 1} /\ bj \in {0, 1} /\ vk \in {0, 1} /\ fk <= vk
    <3>1. FirstHit(a, k) => \E h \in 1..k : Hit(a, h)
      BY <1>2, <2>1 DEF FirstHit
    <3> QED BY <2>3, <3>1 DEF Bit
  <2> HIDE DEF fk, bj, vk, r
  <2>5. r(n) = fk * bj + (vk - fk)
    <3>1. PfTimes(fk, bj) = fk * bj
      BY <2>4, BitOps
    <3>2. PfMinus(vk, fk) = vk - fk
      BY <2>4, BitOps
    <3> DEFINE p == fk * bj  q == vk - fk
    <3>3. p \in {0, 1} /\ q \in {0, 1}
      BY <2>4
    <3> HIDE DEF p, q
    <3>4. PfPlus(p, q) = p + q
      BY <3>3, BitOps
    <3> QED BY <2>2, <3>1, <3>2, <3>4 DEF p, q
  <2>6. \A m : m \in 1..n <=> m \in 1..L /\ m <= n
    BY <1>2
  <2>7. (\E m \in 1..n : a[m] = 1) <=>
          \E h, e \in Block : InBlock(h, e) <= InBlock(k, j) /\ a[InBlock(h, e)] = 1
    <3>1. ASSUME NEW m \in 1..n, a[m] = 1
          PROVE \E h, e \in Block : InBlock(h, e) <= InBlock(k, j) /\ a[InBlock(h, e)] = 1
      <4>1. m \in 1..L /\ m <= n
        BY <2>6
      <4>2. kk(m) \in Block /\ jj(m) \in Block /\ m = InBlock(kk(m), jj(m))
        BY <4>1, BlockFacts
      <4> HIDE DEF kk, jj
      <4> QED BY <2>1, <3>1, <4>1, <4>2
    <3>2. ASSUME NEW h \in Block, NEW e \in Block, InBlock(h, e) <= InBlock(k, j), a[InBlock(h, e)] = 1
          PROVE \E m \in 1..n : a[m] = 1
      <4>1. InBlock(h, e) \in 1..L
        BY BlockFacts
      <4> QED BY <2>1, <2>6, <3>2, <4>1
    <3> QED BY <3>1, <3>2
  <2>8. (\E m \in 1..n : a[m] = 1) <=>
          \E h, e \in Block : (h < k \/ (h = k /\ e <= j)) /\ a[InBlock(h, e)] = 1
    BY <2>1, <2>7, BlockFacts
  <2>9. CASE FirstHit(a, k)
    <3>1. \A e : e \in 1..j <=> e \in Block /\ e <= j
      BY <1>2, <2>1
    <3>2. (\E m \in 1..n : a[m] = 1) <=> \E e \in 1..j : a[InBlock(k, e)] = 1
      BY <2>1, <2>8, <2>9, <3>1 DEF FirstHit, Hit
    <3>3. (\E e \in 1..j : w[e] = 1) <=> \E e \in 1..j : a[InBlock(k, e)] = 1
      BY <1>6, <2>1, <2>9, <3>1
    <3>4. fk = 1 /\ vk = 1
      BY <2>3, <2>4, <2>9 DEF Bit
    <3>5. r(n) = bj
      BY <2>4, <2>5, <3>4
    <3> QED BY <2>3, <3>2, <3>3, <3>5 DEF Bit
  <2>10. CASE ~ FirstHit(a, k)
    <3>1. fk = 0
      BY <2>3, <2>10 DEF Bit
    <3>2. r(n) = vk
      BY <2>4, <2>5, <3>1
    <3>3. k \in Nat /\ \A h : h \in 1..k <=> h \in Block /\ h <= k
      BY <1>2, <2>1
    <3>4. ASSUME NEW h \in 1..k, Hit(a, h) PROVE \E m \in 1..n : a[m] = 1
      <4>1. PICK g \in Block : g <= h /\ FirstHit(a, g)
        BY <3>3, <3>4, FirstHitExists
      <4>2. g # k
        BY <2>10, <4>1
      <4>3. g < k
        BY <1>2, <3>3, <4>1, <4>2
      <4> QED BY <2>8, <4>1, <4>3 DEF FirstHit, Hit
    <3>5. ASSUME NEW m \in 1..n, a[m] = 1 PROVE \E h \in 1..k : Hit(a, h)
      <4>1. PICK h, e \in Block : (h < k \/ (h = k /\ e <= j)) /\ a[InBlock(h, e)] = 1
        BY <2>8, <3>5
      <4>2. h <= k
        BY <1>2, <3>3, <4>1
      <4> QED BY <3>3, <4>1, <4>2 DEF Hit
    <3> QED BY <2>3, <3>2, <3>4, <3>5 DEF Bit
  <2> QED BY <2>9, <2>10
<1> HIDE DEF r
<1> QED BY <1>1, <1>8

-----------------------------------------------------------------------------
(* Comparing bit by bit                                                     *)

\* Exclusive or.
LEMMA DifferIs ==
  ASSUME NEW u \in {0, 1}, NEW v \in {0, 1}
  PROVE PfMinus(PfPlus(u, v), PfTimes(2, PfTimes(u, v))) = Bit(u # v)
<1> DEFINE s == u + v  p == u * v  q == 2 * p  d == s - q
<1>1. s \in Int /\ p \in {0, 1} /\ q \in Int /\ d \in {0, 1} /\ d = Bit(u # v)
  BY DEF Bit
<1>2. PfPlus(u, v) = s /\ PfTimes(u, v) = p
  BY BitOps
<1> HIDE DEF p
<1>3. PfTimes(2, p) = q
  BY <1>1, BitOps
<1>4. d \in Field
  <2>1. 0 \in Field /\ 1 \in Field
    BY FieldFacts DEF Field
  <2> QED BY <1>1, <2>1
<1> HIDE DEF s, q
<1>5. PfMinus(s, q) = d
  BY <1>1, <1>4, FieldOps
<1> QED BY <1>1, <1>2, <1>3, <1>5

FirstDiff(a, b, k) == a[k] # b[k] /\ \A j \in 1..L : j < k => a[j] = b[j]

\* d rises where the first difference is.
LEMMA RiseIs ==
  ASSUME NEW a, NEW b, NEW d, \A n \in 1..L : d[n] = Bit(\E k \in 1..n : a[k] # b[k]), NEW k \in 1..L
  PROVE (IF k = 1 THEN d[1] ELSE PfMinus(d[k], d[k - 1])) = Bit(FirstDiff(a, b, k))
<1>1. L \in Nat /\ k \in Nat /\ k >= 1 /\ 1 \in 1..L
  BY TableFacts
<1>2. CASE k = 1
  <2>1. \A j \in 1..L : ~ (j < 1)
    BY <1>1
  <2>2. \A j : j \in 1..1 <=> j = 1
    OBVIOUS
  <2>3. d[1] = Bit(\E j \in 1..1 : a[j] # b[j])
    BY <1>1
  <2> QED BY <1>2, <2>1, <2>2, <2>3 DEF Bit, FirstDiff
<1>3. CASE k # 1
  <2> DEFINE j == k - 1  u == d[k]  v == d[j]
  <2>1. j \in 1..L /\ \A g : g \in 1..k <=> g \in 1..j \/ g = k
    BY <1>1, <1>3
  <2>2. \A h : h \in 1..j <=> h \in 1..L /\ h < k
    BY <1>1, <1>3
  <2> HIDE DEF j
  <2>3. u = Bit(\E g \in 1..k : a[g] # b[g]) /\ v = Bit(\E g \in 1..j : a[g] # b[g])
    BY <2>1
  <2>4. u \in {0, 1} /\ v \in {0, 1} /\ v <= u
    BY <2>1, <2>3 DEF Bit
  <2>5. FirstDiff(a, b, k) <=> u = 1 /\ v = 0
    BY <2>1, <2>2, <2>3 DEF FirstDiff, Bit
  <2> HIDE DEF u, v
  <2>6. PfMinus(u, v) = u - v
    BY <2>4, BitOps
  <2>7. PfMinus(u, v) = Bit(FirstDiff(a, b, k))
    BY <2>4, <2>5, <2>6 DEF Bit
  <2> QED BY <1>3, <2>7 DEF u, v, j
<1> QED BY <1>2, <1>3

Rising(a, b, d) ==
  \A k \in 1..L : (IF k = 1 THEN d[1] ELSE PfMinus(d[k], d[k - 1])) = Bit(FirstDiff(a, b, k))

LEMMA BitAtFirstIs ==
  ASSUME NEW a \in BitVectors, NEW b \in BitVectors, NEW d, Rising(a, b, d)
  PROVE BitAtFirst(d, b) = Bit(\E m \in 1..L : FirstLess(a, b, m))
<1> DEFINE t == [k \in 1..L |-> PfTimes(IF k = 1 THEN d[1] ELSE PfMinus(d[k], d[k - 1]), b[k])]
           w == FieldSum(t)
<1>1. L \in Nat /\ IsFiniteSet(1..L)
  BY TableFacts, IntervalFinite
<1>2. \A k \in 1..L : a[k] \in {0, 1} /\ b[k] \in {0, 1}
  BY DEF BitVectors
<1>3. ASSUME NEW k \in 1..L
      PROVE t[k] \in Int /\ t[k] = IF FirstDiff(a, b, k) THEN b[k] ELSE 0
  <2> DEFINE u == IF k = 1 THEN d[1] ELSE PfMinus(d[k], d[k - 1])  v == b[k]
  <2>1. v \in {0, 1}
    BY <1>2
  <2>2. u = Bit(FirstDiff(a, b, k))
    BY DEF Rising
  <2>3. t[k] = PfTimes(u, v)
    OBVIOUS
  <2> HIDE DEF u, v, t
  <2>4. u \in {0, 1}
    BY <2>2 DEF Bit
  <2>5. PfTimes(u, v) = u * v
    BY <2>1, <2>4, BitOps
  <2>6. t[k] = IF FirstDiff(a, b, k) THEN v ELSE 0
    BY <2>1, <2>2, <2>3, <2>5 DEF Bit
  <2> QED BY <2>1, <2>6 DEF v
<1>4. t \in [1..L -> Int]
  <2>1. t = [k \in 1..L |-> t[k]]
    OBVIOUS
  <2> HIDE DEF t
  <2> QED BY <1>3, <2>1
<1>5. BitAtFirst(d, b) = w
  BY DEF BitAtFirst
<1> HIDE DEF t
<1>6. w = Total(t) % P
  BY <1>1, <1>4, FieldSumIs
<1>7. 0 % P = 0 /\ 1 % P = 1
  <2>1. 0 \in Field /\ 1 \in Field /\ 0 \in Int /\ 1 \in Int
    BY FieldFacts DEF Field
  <2> QED BY <2>1, SameFacts
<1>8. \A k \in 1..L : FirstLess(a, b, k) <=> FirstDiff(a, b, k) /\ b[k] = 1
  BY <1>2 DEF FirstLess, FirstDiff
<1>9. \A k, h \in 1..L : FirstDiff(a, b, k) /\ FirstDiff(a, b, h) => k = h
  <2>1. \A k, h \in 1..L : k < h \/ h < k \/ k = h
    BY <1>1
  <2> QED BY <2>1 DEF FirstDiff
<1>10. CASE \E m \in 1..L : FirstDiff(a, b, m)
  <2>1. PICK m \in 1..L : FirstDiff(a, b, m)
    BY <1>10
  <2>2. \A h \in 1..L : h # m => t[h] = 0
    BY <1>3, <1>9, <2>1
  <2>3. Total(t) = t[m] /\ t[m] = b[m]
    BY <1>1, <1>3, <1>4, <2>1, <2>2, TotalSingle
  <2>4. w = b[m]
    BY <1>2, <1>6, <1>7, <2>3
  <2>5. (\E k \in 1..L : FirstLess(a, b, k)) <=> b[m] = 1
    BY <1>8, <1>9, <2>1
  <2> QED BY <1>2, <1>5, <2>4, <2>5 DEF Bit
<1>11. CASE ~ \E m \in 1..L : FirstDiff(a, b, m)
  <2>1. \A h \in 1..L : t[h] = 0
    BY <1>3, <1>11
  <2>2. Total(t) = 0
    BY <1>1, <1>4, <2>1, TotalZero
  <2> QED BY <1>5, <1>6, <1>7, <1>8, <1>11, <2>2 DEF Bit
<1> QED BY <1>10, <1>11

\* Comparing bit by bit is comparing the integers.
LEMMA BitwiseLessThanIs ==
  ASSUME NEW a \in BitVectors, NEW b \in BitVectors, NEW rnd \in Draws
  PROVE subBitwiseLessThan(a, b, rnd) = Bit(Value(a) < Value(b))
<1> DEFINE differ == [k \in 1..L |-> PfMinus(PfPlus(a[k], b[k]), PfTimes(2, PfTimes(a[k], b[k])))]
           d == subPrefixOr(differ, rnd)
<1>1. L \in Nat
  BY TableFacts
<1>2. \A k \in 1..L : a[k] \in {0, 1} /\ b[k] \in {0, 1}
  BY DEF BitVectors
<1>3. ASSUME NEW k \in 1..L PROVE differ[k] = Bit(a[k] # b[k])
  <2> DEFINE u == a[k]  v == b[k]
  <2>1. u \in {0, 1} /\ v \in {0, 1}
    BY <1>2
  <2>2. differ[k] = PfMinus(PfPlus(u, v), PfTimes(2, PfTimes(u, v)))
    OBVIOUS
  <2> HIDE DEF u, v, differ
  <2>3. differ[k] = Bit(u # v)
    BY <2>1, <2>2, DifferIs
  <2> QED BY <2>3 DEF u, v
<1>4. differ \in BitVectors
  <2>1. differ = [k \in 1..L |-> differ[k]]
    OBVIOUS
  <2> HIDE DEF differ
  <2>2. \A k \in 1..L : differ[k] \in {0, 1}
    BY <1>3 DEF Bit
  <2> QED BY <2>1, <2>2 DEF BitVectors
<1>5. subBitwiseLessThan(a, b, rnd) = BitAtFirst(d, b)
  BY DEF subBitwiseLessThan
<1> HIDE DEF differ
<1>6. d = [n \in 1..L |-> Bit(\E k \in 1..n : differ[k] = 1)]
  BY <1>4, PrefixOrIs
<1> HIDE DEF d
<1>7. ASSUME NEW n \in 1..L PROVE d[n] = Bit(\E k \in 1..n : a[k] # b[k])
  <2>1. d[n] = Bit(\E k \in 1..n : differ[k] = 1)
    BY <1>6
  <2>2. 1..n \subseteq 1..L
    BY <1>1
  <2>3. (\E k \in 1..n : differ[k] = 1) <=> \E k \in 1..n : a[k] # b[k]
    BY <1>3, <2>2 DEF Bit
  <2> QED BY <2>1, <2>3 DEF Bit
<1>8. Rising(a, b, d)
  BY <1>7, RiseIs DEF Rising
<1>9. BitAtFirst(d, b) = Bit(\E m \in 1..L : FirstLess(a, b, m))
  BY <1>8, BitAtFirstIs
<1>10. Value(a) < Value(b) <=> \E m \in 1..L : FirstLess(a, b, m)
  BY ValueOrder
<1> QED BY <1>5, <1>9, <1>10 DEF Bit

-----------------------------------------------------------------------------
(* The random bit and the comparisons over the field                        *)

\* An operation of the field whose exact result is off by one P.
LEMMA WrapOps ==
  ASSUME NEW a \in Int, NEW b \in Int
  PROVE /\ a + b - P \in Field => PfPlus(a, b) = a + b - P
        /\ a - b + P \in Field => PfMinus(a, b) = a - b + P
        /\ a * b - P \in Field => PfTimes(a, b) = a * b - P
<1> DEFINE s == a + b  d == a - b  m == a * b
<1>1. Congruent(a, a) /\ Congruent(b, b)
  BY DEF Congruent
<1>2. PfPlus(a, b) = s % P /\ PfMinus(a, b) = d % P /\ PfTimes(a, b) = m % P
  BY <1>1, PfOfResidues
<1>3. s \in Int /\ d \in Int /\ m \in Int
  OBVIOUS
<1> HIDE DEF s, d, m
<1>4. ASSUME NEW n \in Int, NEW v \in Int, n = v + P \/ v = n + P, v \in Field PROVE n % P = v
  <2>1. Congruent(v + P, v) /\ v % P = v /\ Congruent(n + P, n)
    BY <1>4, SameFacts
  <2> QED BY <1>4, <2>1 DEF Congruent
<1> DEFINE s1 == s - P  d1 == d + P  m1 == m - P
<1>5. s1 \in Int /\ d1 \in Int /\ m1 \in Int /\ s = s1 + P /\ d1 = d + P /\ m = m1 + P
  BY <1>3, FieldFacts
<1> HIDE DEF s1, d1, m1
<1>6. (s1 \in Field => s % P = s1) /\ (d1 \in Field => d % P = d1) /\ (m1 \in Field => m % P = m1)
  BY <1>3, <1>4, <1>5
<1>7. /\ s1 \in Field => PfPlus(a, b) = s1
      /\ d1 \in Field => PfMinus(a, b) = d1
      /\ m1 \in Field => PfTimes(a, b) = m1
  BY <1>2, <1>6
<1>8. s1 = a + b - P /\ d1 = a - b + P /\ m1 = a * b - P
  <2>1. (a + b) - P = a + b - P
    BY FieldFacts
  <2> QED BY <2>1 DEF s, d, m, s1, d1, m1
<1> QED BY <1>7, <1>8

\* 2 a in the field, and two sums.
LEMMA TwiceIs ==
  ASSUME NEW a \in Field
  PROVE PfTimes(2, a) \in Field /\ PfTimes(2, a) = IF 2 * a < P THEN 2 * a ELSE 2 * a - P
<1> DEFINE two == 2  m == two * a
<1>1. P \in Nat /\ a \in Int /\ two \in Int /\ m \in Int /\ 0 <= a /\ a < P /\ P > 4
  BY FieldFacts DEF Field
<1>2. IF m < P THEN m \in Field ELSE m - P \in Field
  BY <1>1 DEF Field
<1> HIDE DEF two
<1>3. PfTimes(two, a) = IF m < P THEN m ELSE m - P
  BY <1>1, <1>2, FieldOps, WrapOps
<1> HIDE DEF m
<1>4. PfTimes(two, a) \in Field
  BY <1>2, <1>3
<1> QED BY <1>3, <1>4 DEF m, two

LEMMA PlusIs ==
  ASSUME NEW a \in Field, NEW b \in Field
  PROVE PfPlus(a, b) \in Field /\ PfPlus(a, b) = IF a + b < P THEN a + b ELSE a + b - P
<1>1. P \in Nat /\ a \in Int /\ b \in Int /\ 0 <= a /\ a < P /\ 0 <= b /\ b < P
  BY FieldFacts DEF Field
<1>2. IF a + b < P THEN a + b \in Field ELSE a + b - P \in Field
  BY <1>1 DEF Field
<1>3. PfPlus(a, b) = IF a + b < P THEN a + b ELSE a + b - P
  BY <1>1, <1>2, FieldOps, WrapOps
<1> QED BY <1>2, <1>3

LEMMA MinusIs ==
  ASSUME NEW a \in Field, NEW b \in Field
  PROVE PfMinus(a, b) \in Field /\ PfMinus(a, b) = IF b <= a THEN a - b ELSE a - b + P
<1>1. P \in Nat /\ a \in Int /\ b \in Int /\ 0 <= a /\ a < P /\ 0 <= b /\ b < P
  BY FieldFacts DEF Field
<1>2. IF b <= a THEN a - b \in Field ELSE a - b + P \in Field
  BY <1>1 DEF Field
<1>3. PfMinus(a, b) = IF b <= a THEN a - b ELSE a - b + P
  BY <1>1, <1>2, FieldOps, WrapOps
<1> QED BY <1>2, <1>3

\* subRBS makes 1 of the smaller of two opposite elements and 0 of the greater.
LEMMA RandomBitIs ==
  ASSUME NEW a \in Units
  PROVE subRBS(a) = Bit(2 * a < P)
<1> DEFINE root == modsqrt(PfTimes(a, a))
           inv == PfInv(root)
           q == PfTimes(inv, a)
           two == 2
           h == PfInv(two)
           one == 1
           mone == P - 1
<1>1. P \in Nat /\ P > 4 /\ a \in Int /\ 1 <= a /\ a < P /\ P % 2 = 1
  BY FieldFacts, TableFacts DEF Units
<1>2. root \in {a, P - a} /\ 2 * root < P
  BY RootOfSquare
<1> HIDE DEF root
<1>3. root \in Units /\ root \in Int /\ two \in Units /\ two \in Int
  BY <1>1, <1>2 DEF Units
<1>4. inv \in Int /\ Congruent(root * inv, 1)
  BY <1>3, PfInverse
<1> HIDE DEF two
<1>5. h \in Int /\ Congruent(two * h, 1)
  BY <1>3, PfInverse
<1> HIDE DEF inv, h
<1>6. q \in Field /\ q \in Int /\ Congruent(q, inv * a)
  BY <1>1, <1>4, PfOperations
<1>7. one \in Field /\ mone \in Field /\ one \in Int /\ mone \in Int
  BY <1>1 DEF Field
<1>8. subRBS(a) = PfTimes(h, PfPlus(q, one))
  BY DEF subRBS, h, two, q, inv, root, one
<1> HIDE DEF q
<1>9. CASE root = a
  <2>1. 2 * a < P
    BY <1>2, <1>9
  <2>2. root * inv = inv * a
    BY <1>1, <1>3, <1>4, <1>9
  <2>3. Congruent(q, one)
    BY <1>4, <1>6, <2>2 DEF Congruent, one
  <2>4. q = one
    BY <1>6, <1>7, <2>3, FieldResidue
  <2>5. PfPlus(q, one) = two
    <3>1. one + one \in Field /\ one + one = 2
      BY <1>1 DEF Field, one
    <3> HIDE DEF one
    <3> QED BY <1>7, <2>4, <3>1, FieldOps DEF two
  <2>6. PfTimes(h, two) \in Field /\ Congruent(PfTimes(h, two), h * two)
    BY <1>3, <1>5, PfOperations
  <2>7. h * two = two * h
    BY <1>3, <1>5
  <2>8. Congruent(PfTimes(h, two), one)
    BY <1>5, <2>6, <2>7 DEF Congruent, one
  <2>9. PfTimes(h, two) = one
    BY <1>7, <2>6, <2>8, FieldResidue
  <2> QED BY <1>8, <2>1, <2>5, <2>9 DEF Bit, one
<1>10. CASE root = P - a /\ root # a
  <2>1. ~(2 * a < P)
    BY <1>1, <1>2, <1>10
  <2> DEFINE m == root * inv  g == inv * a  big == inv * P
  <2>2. m \in Int /\ g \in Int /\ big \in Int /\ g = big - m
    <3>1. m = (P - a) * inv
      BY <1>10
    <3>2. (P - a) * inv = P * inv - a * inv
      BY <1>1, <1>4
    <3>3. P * inv = inv * P /\ a * inv = inv * a /\ inv * P \in Int /\ inv * a \in Int
      BY <1>1, <1>4
    <3>4. m = big - g /\ big \in Int /\ g \in Int
      BY <3>1, <3>2, <3>3
    <3> HIDE DEF m, g, big
    <3> QED BY <3>4
  <2>3. Congruent(big, 0)
    <3>1. \E k \in Int : big = k * P
      BY <1>4
    <3> HIDE DEF big
    <3> QED BY <2>2, <3>1, ZeroResidue
  <2> HIDE DEF m, g, big
  <2> DEFINE o == 0
  <2>4. Congruent(m, one) /\ Congruent(big, o) /\ o \in Int
    BY <1>4, <2>3 DEF m, one
  <2> HIDE DEF o, one
  <2>5. Congruent(big - m, o - one)
    BY <1>7, <2>2, <2>4, SameSum
  <2>6. Congruent(g, -1)
    BY <2>2, <2>5 DEF o, one
  <2>7. Congruent(q, g)
    BY <1>6 DEF g
  <2>8. Congruent(q, -1)
    BY <2>6, <2>7 DEF Congruent
  <2>9. q % P = P - 1 /\ q % P = q
    BY <1>6, <2>8, OneResidue, SameFacts
  <2>10. PfPlus(q, one) = 0
    <3>1. q + one - P = 0 /\ 0 \in Field /\ q + one - P \in Field
      BY <1>1, <1>7, <2>9 DEF Field, one
    <3> QED BY <1>6, <1>7, <3>1, WrapOps
  <2>11. PfTimes(h, o) = o
    <3>1. h * o = o /\ o \in Field
      BY <1>1, <1>5 DEF o, Field
    <3> QED BY <1>5, <2>4, <3>1, FieldOps
  <2> QED BY <1>8, <2>1, <2>10, <2>11 DEF Bit, o
<1> QED BY <1>2, <1>9, <1>10

LEMMA SameBitIs ==
  ASSUME NEW u \in {0, 1}, NEW v \in {0, 1}
  PROVE SameBit(u, v) = Bit(u = v)
<1> DEFINE nu == 1 - u  nv == 1 - v
<1>1. nu \in {0, 1} /\ nv \in {0, 1} /\ PfMinus(1, u) = nu /\ PfMinus(1, v) = nv
  BY BitOps
<1> HIDE DEF nu, nv
<1>2. PfTimes(u, nv) = u * nv /\ PfTimes(nu, v) = nu * v
  BY <1>1, BitOps
<1> DEFINE e == u * nv  f == nu * v  g == e + f
<1>3. e \in {0, 1} /\ f \in {0, 1} /\ g \in {0, 1} /\ 1 - g = Bit(u = v)
  BY DEF nu, nv, Bit
<1>4. SameBit(u, v) = PfMinus(1, PfPlus(e, f))
  BY <1>1, <1>2 DEF SameBit
<1> HIDE DEF e, f
<1>5. PfPlus(e, f) = g
  BY <1>3, BitOps
<1> HIDE DEF g
<1>6. PfMinus(1, g) = 1 - g
  BY <1>3, BitOps
<1> QED BY <1>3, <1>4, <1>5, <1>6

\* Random bits below P stand for the element of the field that they open to.
LEMMA ProperFacts ==
  ASSUME NEW r \in ProperBits
  PROVE r \in BitVectors /\ Value(r) \in Field /\ BStoSC(r) = Value(r)
        /\ Value(r) % 2 = r[L] /\ r[L] \in {0, 1}
<1>1. r \in BitVectors /\ Value(r) < P
  BY DEF ProperBits
<1>2. Value(r) \in Nat /\ Value(r) % 2 = r[L] /\ r[L] \in {0, 1}
  BY <1>1, ValueFacts
<1>3. Value(r) \in Field
  BY <1>1, <1>2, FieldFacts DEF Field
<1>4. Value(r) % P = Value(r)
  BY <1>2, <1>3, SameFacts
<1> QED BY <1>1, <1>2, <1>3, <1>4 DEF BStoSC, PfMake

\* The bits of an opened element.
LEMMA OpenedBits ==
  ASSUME NEW c \in Field
  PROVE PFtoBS(c) \in BitVectors /\ Value(PFtoBS(c)) = c
<1>1. c \in Nat /\ c < Pow2[L]
  BY TableFacts DEF Field
<1> QED BY <1>1, PFtoBSFacts

\* Whether 2 a wraps, from c = 2 a + r: c is below r if the sum wraps, and the
\* parities of c and r differ if just one of them does.
LEMMA HalfIs ==
  ASSUME NEW a \in Field, NEW r \in ProperBits, NEW rnd \in Draws
  PROVE subHalfLessThan(a, r, rnd) = Bit(2 * a < P)
<1> DEFINE R == Value(r)
           t == PfTimes(2, a)
           c == PfPlus(t, R)
           bits == PFtoBS(c)
           less == subBitwiseLessThan(bits, r, rnd)
           low == IF c % 2 = 0 THEN r[L] ELSE PfMinus(1, r[L])
<1>1. r \in BitVectors /\ R \in Field /\ BStoSC(r) = R /\ R % 2 = r[L] /\ r[L] \in {0, 1}
  BY ProperFacts
<1>2. subHalfLessThan(a, r, rnd) = SameBit(less, low)
  BY <1>1 DEF subHalfLessThan
<1> HIDE DEF R
<1>3. t \in Field /\ t = IF 2 * a < P THEN 2 * a ELSE 2 * a - P
  BY TwiceIs
<1> HIDE DEF t
<1>4. c \in Field /\ c = IF t + R < P THEN t + R ELSE t + R - P
  BY <1>1, <1>3, PlusIs
<1> HIDE DEF c
<1>5. bits \in BitVectors /\ Value(bits) = c
  BY <1>4, OpenedBits
<1> HIDE DEF bits
<1>6. less = Bit(c < R)
  BY <1>1, <1>5, BitwiseLessThanIs DEF R
<1> HIDE DEF less
<1>7. PfMinus(1, r[L]) = 1 - r[L]
  BY <1>1, BitOps
<1>8. P \in Nat /\ P % 2 = 1
  BY TableFacts
<1>9. a \in 0..(P - 1) /\ t \in 0..(P - 1) /\ R \in 0..(P - 1) /\ c \in 0..(P - 1)
  BY <1>1, <1>3, <1>4 DEF Field
<1>10. low = Bit(c % 2 # R % 2)
  <2>1. c % 2 \in {0, 1}
    BY <1>8, <1>9
  <2> QED BY <1>1, <1>7, <2>1 DEF Bit
<1> HIDE DEF low
<1>11. SameBit(less, low) = Bit(less = low)
  <2>1. less \in {0, 1} /\ low \in {0, 1}
    BY <1>6, <1>10 DEF Bit
  <2> QED BY <2>1, SameBitIs
<1>12. (c < R <=> c % 2 # R % 2) <=> 2 * a < P
  <2>1. c < R <=> ~(t + R < P)
    BY <1>4, <1>8, <1>9
  <2>2. CASE 2 * a < P
    <3>1. t = 2 * a
      BY <1>3, <2>2
    <3> QED BY <1>4, <1>8, <1>9, <2>1, <2>2, <3>1
  <2>3. CASE ~(2 * a < P)
    <3>1. t = 2 * a - P
      BY <1>3, <2>3
    <3> QED BY <1>4, <1>8, <1>9, <2>1, <2>3, <3>1
  <2> QED BY <2>2, <2>3
<1> QED BY <1>2, <1>6, <1>10, <1>11, <1>12 DEF Bit

\* What the three halves say of a < b.
LEMMA ByHalvesIs ==
  ASSUME NEW w \in {0, 1}, NEW u \in {0, 1}, NEW v \in {0, 1}
  PROVE LessByHalves(w, u, v) = IF u = v THEN 1 - u ELSE w
<1> DEFINE uv == u * v
           s == u + v
           dd == 2 * uv
           e == s - dd
           we == w * e
           f == we + 1
           g == f - v
           h == g - u
           hh == IF h < 0 THEN h + P ELSE h
<1>1. P \in Nat /\ P > 4
  BY FieldFacts
<1>2. uv \in {0, 1} /\ s \in 0..2 /\ dd \in {0, 2} /\ e \in {0, 1} /\ we \in {0, 1} /\ f \in 1..2
      /\ g \in 0..2 /\ h \in (-1)..2 /\ (h < 0 => h = -1 /\ uv = 1 /\ u = v /\ u = 1)
      /\ (h >= 0 => h + uv = (IF u = v THEN 1 - u ELSE w))
  OBVIOUS
<1>3. PfTimes(u, v) = uv /\ PfPlus(u, v) = s
  BY BitOps
<1>4. LessByHalves(w, u, v)
        = PfPlus(PfMinus(PfMinus(PfPlus(PfTimes(w, PfMinus(s, PfTimes(2, uv))), 1), v), u), uv)
  BY <1>3 DEF LessByHalves
<1>5. e = s - dd /\ f = we + 1 /\ g = f - v /\ h = g - u
  OBVIOUS
<1> HIDE DEF uv, s
<1>6. PfTimes(2, uv) = dd
  BY <1>2, BitOps
<1> HIDE DEF dd
<1>7. PfMinus(s, dd) = e
  BY <1>1, <1>2, <1>5, FieldOps DEF Field
<1> HIDE DEF e
<1>8. PfTimes(w, e) = we
  BY <1>2, BitOps
<1> HIDE DEF we
<1> DEFINE one == 1
<1>9. PfPlus(we, one) = f
  <2>1. we + one \in Field /\ we + one = f /\ we \in Int /\ one \in Int
    BY <1>1, <1>2, <1>5 DEF Field
  <2> HIDE DEF one, f
  <2> QED BY <2>1, FieldOps
<1> HIDE DEF f
<1>10. PfMinus(f, v) = g
  BY <1>1, <1>2, <1>5, FieldOps DEF Field
<1> HIDE DEF g
<1>11. PfMinus(g, u) = hh
  <2>1. g \in Field /\ u \in Field
    BY <1>1, <1>2 DEF Field
  <2>2. PfMinus(g, u) = IF u <= g THEN g - u ELSE g - u + P
    BY <2>1, MinusIs
  <2> QED BY <1>1, <1>2, <1>5, <2>2
<1>12. hh \in Field /\ uv \in Field
  BY <1>1, <1>2 DEF Field
<1> HIDE DEF hh
<1>13. PfPlus(hh, uv) = IF hh + uv < P THEN hh + uv ELSE hh + uv - P
  BY <1>12, PlusIs
<1>14. PfPlus(hh, uv) = IF u = v THEN 1 - u ELSE w
  <2>1. CASE h < 0
    BY <1>1, <1>2, <1>13, <2>1 DEF hh
  <2>2. CASE h >= 0
    <3>1. hh = h /\ h + uv = (IF u = v THEN 1 - u ELSE w) /\ h + uv < P
      BY <1>1, <1>2, <2>2 DEF hh
    <3> QED BY <1>13, <3>1
  <2> QED BY <1>2, <2>1, <2>2
<1> QED BY <1>4, <1>6, <1>7, <1>8, <1>9, <1>10, <1>11, <1>14 DEF one

LEMMA ComparisonTestIs ==
  ASSUME NEW a \in Field, NEW b \in Field, NEW r, \A n \in 1..3 : r[n] \in ProperBits,
         NEW rnd \in Draws
  PROVE comparisonTest(a, b, r, rnd) = Bit(a < b)
<1> DEFINE d == PfMinus(a, b)
           w == subHalfLessThan(a, r[1], rnd)
           u == subHalfLessThan(b, r[2], rnd)
           v == subHalfLessThan(d, r[3], rnd)
<1>1. r[1] \in ProperBits /\ r[2] \in ProperBits /\ r[3] \in ProperBits
  OBVIOUS
<1>2. d \in Field /\ d = IF b <= a THEN a - b ELSE a - b + P
  BY MinusIs
<1>3. comparisonTest(a, b, r, rnd) = LessByHalves(w, u, v)
  BY DEF comparisonTest
<1> HIDE DEF d
<1>4. w = Bit(2 * a < P)
  BY <1>1, HalfIs
<1>5. u = Bit(2 * b < P)
  BY <1>1, HalfIs
<1>6. v = Bit(2 * d < P)
  BY <1>1, <1>2, HalfIs
<1> HIDE DEF w, u, v
<1>7. LessByHalves(w, u, v) = IF u = v THEN 1 - u ELSE w
  BY <1>4, <1>5, <1>6, ByHalvesIs DEF Bit
<1>8. P \in Nat /\ P % 2 = 1 /\ a \in 0..(P - 1) /\ b \in 0..(P - 1) /\ d \in 0..(P - 1)
  BY <1>2, TableFacts DEF Field
<1>9. (IF u = v THEN 1 - u ELSE w) = Bit(a < b)
  BY <1>2, <1>4, <1>5, <1>6, <1>8 DEF Bit
<1> QED BY <1>3, <1>7, <1>9

LEMMA EqualityTestIs ==
  ASSUME NEW a \in Field, NEW b \in Field, NEW r \in ProperBits, NEW rnd \in Draws
  PROVE equalityTest(a, b, r, rnd) = Bit(a = b)
<1> DEFINE R == Value(r)
           d == PfMinus(a, b)
           n == PfPlus(d, R)
           c == PFtoBS(n)
           e == [k \in 1..L |-> IF c[k] = 1 THEN r[k] ELSE PfMinus(1, r[k])]
<1>1. r \in BitVectors /\ R \in Field /\ BStoSC(r) = R
  BY ProperFacts
<1>2. equalityTest(a, b, r, rnd) = subUnboundedFanInAnd(e, rnd)
  BY <1>1 DEF equalityTest
<1> HIDE DEF R
<1>3. d \in Field /\ d = IF b <= a THEN a - b ELSE a - b + P
  BY MinusIs
<1> HIDE DEF d
<1>4. n \in Field /\ n = IF d + R < P THEN d + R ELSE d + R - P
  BY <1>1, <1>3, PlusIs
<1> HIDE DEF n
<1>5. c \in BitVectors /\ Value(c) = n
  BY <1>4, OpenedBits
<1> HIDE DEF c
<1>6. ASSUME NEW k \in 1..L PROVE e[k] = Bit(c[k] = r[k])
  <2> DEFINE u == c[k]  v == r[k]
  <2>1. u \in {0, 1} /\ v \in {0, 1}
    BY <1>1, <1>5 DEF BitVectors
  <2>2. e[k] = IF u = 1 THEN v ELSE PfMinus(1, v)
    OBVIOUS
  <2> HIDE DEF u, v, e
  <2>3. PfMinus(1, v) = 1 - v
    BY <2>1, BitOps
  <2>4. e[k] = Bit(u = v)
    BY <2>1, <2>2, <2>3 DEF Bit
  <2> QED BY <2>4 DEF u, v
<1>7. e \in BitVectors
  <2>1. e = [k \in 1..L |-> e[k]]
    OBVIOUS
  <2> HIDE DEF e
  <2>2. \A k \in 1..L : e[k] \in {0, 1}
    BY <1>6 DEF Bit
  <2> QED BY <2>1, <2>2 DEF BitVectors
<1> HIDE DEF e
<1>8. subUnboundedFanInAnd(e, rnd) = Bit(\A k \in 1..L : e[k] = 1)
  BY <1>7, AndIs
<1>9. (\A k \in 1..L : e[k] = 1) <=> c = r
  <2>1. (\A k \in 1..L : e[k] = 1) <=> \A k \in 1..L : c[k] = r[k]
    BY <1>6 DEF Bit
  <2>2. c \in [1..L -> {0, 1}] /\ r \in [1..L -> {0, 1}]
    BY <1>1, <1>5 DEF BitVectors
  <2>3. c = [k \in 1..L |-> c[k]] /\ r = [k \in 1..L |-> r[k]]
    BY <2>2
  <2>4. (\A k \in 1..L : c[k] = r[k]) => c = r
    <3> SUFFICES ASSUME \A k \in 1..L : c[k] = r[k] PROVE c = r
      OBVIOUS
    <3>1. [k \in 1..L |-> c[k]] = [k \in 1..L |-> r[k]]
      OBVIOUS
    <3> QED BY <2>3, <3>1
  <2> QED BY <2>1, <2>4
<1>10. c = r <=> n = R
  BY <1>1, <1>5, ValueOrder DEF R
<1>11. n = R <=> a = b
  <2>1. P \in Nat /\ a \in 0..(P - 1) /\ b \in 0..(P - 1) /\ d \in 0..(P - 1) /\ R \in 0..(P - 1)
    BY <1>1, <1>3, FieldFacts DEF Field
  <2> QED BY <1>3, <1>4, <2>1
<1> QED BY <1>2, <1>8, <1>9, <1>10, <1>11 DEF Bit

\* r is compared with two bounds instead of a with c1 and c2: a = c - r, or
\* c - r + P when the sum wrapped.
LEMMA IntervalTestIs ==
  ASSUME NEW a \in Field, NEW c1 \in Field, NEW c2 \in Field, c1 < c2,
         NEW r \in ProperBits, NEW rnd \in Draws,
         PfPlus(a, BStoSC(r)) \notin {c1, c2 - 1}
  PROVE intervalTest(c1, a, c2, r, rnd) = Bit(c1 < a /\ a < c2)
<1> DEFINE R == Value(r)
           c == PfPlus(a, R)
           between == c1 < c /\ c < c2
           one == 1
           m1 == PfMinus(c, c1)
           m2 == PfMinus(c, c2)
           r_low == IF between THEN PfMinus(m1, one) ELSE m2
           r_high == IF between THEN PfPlus(m2, one) ELSE m1
           lows == PFtoBS(r_low)
           highs == PFtoBS(r_high)
           u == subBitwiseLessThan(lows, r, rnd)
           v == subBitwiseLessThan(r, highs, rnd)
           inside == PfTimes(u, v)
<1>1. r \in BitVectors /\ R \in Field /\ BStoSC(r) = R
  BY ProperFacts
<1>2. intervalTest(c1, a, c2, r, rnd) = IF between THEN PfMinus(1, inside) ELSE inside
  BY <1>1 DEF intervalTest
<1>3. c # c1 /\ c # c2 - 1
  BY <1>1
<1> HIDE DEF R
<1>4. c \in Field /\ c = IF a + R < P THEN a + R ELSE a + R - P
  BY <1>1, PlusIs
<1> HIDE DEF c
<1>5. m1 \in Field /\ m1 = IF c1 <= c THEN c - c1 ELSE c - c1 + P
  BY <1>4, MinusIs
<1>6. m2 \in Field /\ m2 = IF c2 <= c THEN c - c2 ELSE c - c2 + P
  BY <1>4, MinusIs
<1>7. one \in Field
  BY FieldFacts DEF Field
<1>8. P \in Nat /\ P > 4 /\ a \in 0..(P - 1) /\ c \in 0..(P - 1) /\ c1 \in 0..(P - 1)
      /\ c2 \in 0..(P - 1) /\ R \in 0..(P - 1) /\ m1 \in 0..(P - 1) /\ m2 \in 0..(P - 1)
  BY <1>1, <1>4, <1>5, <1>6, FieldFacts DEF Field
<1> HIDE DEF m1, m2, one
<1>9. PfMinus(m1, one) \in Field /\ PfMinus(m1, one) = IF one <= m1 THEN m1 - one ELSE m1 - one + P
  BY <1>5, <1>7, MinusIs
<1>10. PfPlus(m2, one) \in Field /\ PfPlus(m2, one) = IF m2 + one < P THEN m2 + one ELSE m2 + one - P
  BY <1>6, <1>7, PlusIs
<1>11. r_low \in Field /\ r_high \in Field
  BY <1>5, <1>6, <1>9, <1>10
<1>12. between => r_low = c - c1 - 1 /\ r_high = c - c2 + P + 1
  <2> SUFFICES ASSUME between PROVE r_low = c - c1 - 1 /\ r_high = c - c2 + P + 1
    OBVIOUS
  <2>1. m1 = c - c1 /\ m2 = c - c2 + P
    BY <1>5, <1>6, <1>8
  <2>2. one <= m1 /\ m2 + one < P
    BY <1>3, <1>8, <2>1 DEF one
  <2> QED BY <1>8, <1>9, <1>10, <2>1, <2>2 DEF one
<1>13. ~ between => r_low = m2 /\ r_high = m1
  OBVIOUS
<1>14. between <=> c1 < c /\ c < c2
  OBVIOUS
<1> HIDE DEF r_low, r_high, between
<1>15. lows \in BitVectors /\ Value(lows) = r_low /\ highs \in BitVectors /\ Value(highs) = r_high
  BY <1>11, OpenedBits
<1> HIDE DEF lows, highs
<1>16. u = Bit(r_low < R)
  BY <1>1, <1>15, BitwiseLessThanIs DEF R
<1>17. v = Bit(R < r_high)
  BY <1>1, <1>15, BitwiseLessThanIs DEF R
<1> HIDE DEF u, v
<1>18. inside = Bit(r_low < R /\ R < r_high)
  <2>1. u \in {0, 1} /\ v \in {0, 1}
    BY <1>16, <1>17 DEF Bit
  <2>2. PfTimes(u, v) = u * v
    BY <2>1, BitOps
  <2> QED BY <1>16, <1>17, <2>1, <2>2 DEF Bit
<1> HIDE DEF inside
<1>19. PfMinus(1, inside) = 1 - inside
  <2>1. inside \in {0, 1}
    BY <1>18 DEF Bit
  <2> QED BY <2>1, BitOps
<1>20. CASE between
  <2>1. (r_low < R /\ R < r_high) <=> ~(c1 < a /\ a < c2)
    BY <1>3, <1>4, <1>8, <1>12, <1>14, <1>20
  <2> QED BY <1>2, <1>18, <1>19, <1>20, <2>1 DEF Bit
<1>21. CASE ~ between
  <2>1. (r_low < R /\ R < r_high) <=> (c1 < a /\ a < c2)
    BY <1>3, <1>4, <1>5, <1>6, <1>8, <1>13, <1>14, <1>21
  <2> QED BY <1>2, <1>18, <1>21, <2>1 DEF Bit
<1> QED BY <1>20, <1>21

\* The constructor of PrimeField takes what Fp2Pf makes of a number in range.
LEMMA Fp2PfIs ==
  ASSUME NEW n \in Int, n + P \div 2 \in Field
  PROVE Fp2Pf(n) \in Field /\ Fp2Pf(n) = n + P \div 2
<1> DEFINE v == n + P \div 2
<1>1. v \in Field /\ v \in Int /\ Fp2Pf(n) = v % P
  BY FieldFacts DEF Fp2Pf, PfMake
<1> HIDE DEF v
<1>2. v % P = v
  BY <1>1, SameFacts
<1> QED BY <1>1, <1>2 DEF v

\* The protocols of Compare.cpp over the field, from the random bit over the gates,
\* the prefixes and the bitwise comparison up to the tests for <, = and an
\* interval, agree with the order of the integers: for any prime of the kind and
\* any length of the bit vectors that holds it, any tables with the values they
\* are made for, all inputs in range, and every random number that the tests do
\* not exclude.
THEOREM FieldProtocols == ComputationSpec => []FieldProtocolsAreRight
<1>1. ASSUME CaseGiven PROVE FieldProtocolsAreRight
  <2>1. CASE case = NoCase
    BY <2>1 DEF NoCase, FieldProtocolsAreRight, RandomBitsAreBits, GatesAreRight, BitwiseIsRight,
                HalfIsRight, FieldComparisonsAreRight, IntervalIsRight
  <2>2. CASE case \in Cases
    <3>1. ASSUME case.kind = "field" PROVE case.x \in Field /\ case.rnd \in Draws
      BY <2>2, <3>1, CasesAssumption
    <3>2. ASSUME case.kind = "bits"
          PROVE case.a \in BitVectors /\ case.others \subseteq BitVectors /\ case.rnd \in Draws
      BY <2>2, <3>2, CasesAssumption
    <3>3. ASSUME case.kind = "pair" PROVE PairCase(case)
      BY <2>2, <3>3, CasesAssumption
    <3>4. ASSUME case.kind = "interval" PROVE IntervalCase(case)
      BY <2>2, <3>4, CasesAssumption
    <3>5. RandomBitsAreBits
      <4>1. ASSUME case.kind = "field", case.x # 0 PROVE subRBS(case.x) = Bit(2 * case.x < P)
        <5>1. case.x \in Units
          BY <3>1, <4>1, FieldFacts DEF Field, Units
        <5> QED BY <5>1, RandomBitIs
      <4> QED BY <4>1 DEF RandomBitsAreBits
    <3>6. GatesAreRight
      BY <3>2, OrIs, AndIs, PrefixOrIs DEF GatesAreRight
    <3>7. BitwiseIsRight
      <4>1. ASSUME case.kind = "bits", NEW b \in case.others
            PROVE subBitwiseLessThan(case.a, b, case.rnd) = Bit(Value(case.a) < Value(b))
        BY <3>2, <4>1, BitwiseLessThanIs
      <4> QED BY <4>1 DEF BitwiseIsRight
    <3>8. HalfIsRight
      BY <3>1, HalfIs DEF HalfIsRight
    <3>9. FieldComparisonsAreRight
      <4> SUFFICES ASSUME case.kind = "pair"
                   PROVE LET a == Fp2Pf(case.x)  b == Fp2Pf(case.y)
                         IN /\ comparisonTest(a, b, case.r, case.rnd) = Bit(case.x < case.y)
                            /\ \A r \in ProperBits :
                                 equalityTest(a, b, r, case.rnd) = Bit(case.x = case.y)
        BY DEF FieldComparisonsAreRight
      <4> DEFINE n == case.x  m == case.y  r0 == case.r  a == Fp2Pf(n)  b == Fp2Pf(m)
                 rnd == case.rnd  h == P \div 2
      <4>1. n \in Int /\ m \in Int /\ n + h \in Field /\ m + h \in Field /\ rnd \in Draws
            /\ \A k \in 1..3 : r0[k] \in ProperBits
        BY <3>3 DEF PairCase
      <4>2. h \in Int
        BY FieldFacts
      <4>3. a \in Field /\ b \in Field /\ a = n + h /\ b = m + h
        BY <4>1, Fp2PfIs
      <4> HIDE DEF n, m, r0, a, b, rnd, h
      <4>4. comparisonTest(a, b, r0, rnd) = Bit(a < b)
        BY <4>1, <4>3, ComparisonTestIs
      <4>5. \A r \in ProperBits : equalityTest(a, b, r, rnd) = Bit(a = b)
        BY <4>1, <4>3, EqualityTestIs
      <4>6. (a < b <=> n < m) /\ (a = b <=> n = m)
        BY <4>1, <4>2, <4>3
      <4>7. /\ comparisonTest(a, b, r0, rnd) = Bit(n < m)
            /\ \A r \in ProperBits : equalityTest(a, b, r, rnd) = Bit(n = m)
        BY <4>4, <4>5, <4>6 DEF Bit
      <4> QED BY <4>7 DEF n, m, r0, a, b, rnd
    <3>10. IntervalIsRight
      <4>1. ASSUME case.kind = "interval", NEW r \in ProperBits,
                   PfPlus(case.a, BStoSC(r)) \notin {case.c1, case.c2 - 1}
            PROVE intervalTest(case.c1, case.a, case.c2, r, case.rnd)
                    = Bit(case.c1 < case.a /\ case.a < case.c2)
        <5>1. case.a \in Field /\ case.c1 \in Field /\ case.c2 \in Field /\ case.c1 < case.c2
              /\ case.rnd \in Draws
          BY <3>4, <4>1 DEF IntervalCase
        <5> QED BY <4>1, <5>1, IntervalTestIs
      <4> QED BY <4>1 DEF IntervalIsRight
    <3> QED BY <3>5, <3>6, <3>7, <3>8, <3>9, <3>10 DEF FieldProtocolsAreRight
  <2> QED BY <1>1, <2>1, <2>2 DEF CaseGiven
<1> QED BY <1>1, CaseStays, PTL
=============================================================================
