------------------------- MODULE Randomness_proofs -------------------------
(***************************************************************************)
(* Proofs about the numbers and triples that the threads of jobs draw, for *)
(* any parties, jobs and products, any size of the batches and of the      *)
(* vector of numbers, and whatever requests fail.                          *)
(***************************************************************************)
EXTENDS Randomness, TLAPS

Points == {"idle", "check", "last", "pop", "multiply", "ended", "failed"}

TypeOK ==
  /\ pc \in [Parties -> [Jobs -> Points]]
  /\ rands \in [Parties -> Seq(Nat)] /\ fresh \in [Parties -> Nat]
  /\ number \in [Parties -> [Jobs -> Nat]] /\ overlap \in [Parties -> BOOLEAN]
  /\ queue \in [Parties -> [Jobs -> Seq(Nat)]] /\ served \in [Parties -> Nat]
  /\ taken \in [Parties -> [Jobs -> Seq(Nat)]]
  /\ outOfStep \in BOOLEAN /\ errors \in Nat

-----------------------------------------------------------------------------
(* Triples                                                                  *)

\* What a party holds and has used was served to it.
ServedInv ==
  \A p \in Parties, j \in Jobs :
    /\ \A n \in DOMAIN taken[p][j] : taken[p][j][n] <= served[p]
    /\ \A n \in DOMAIN queue[p][j] : queue[p][j][n] <= served[p]

\* A triple is in the queue of one thread, once, and not used yet.
QueueInv ==
  \A p \in Parties, j, k \in Jobs :
    /\ \A m \in DOMAIN queue[p][j], n \in DOMAIN queue[p][k] :
         queue[p][j][m] = queue[p][k][n] => j = k /\ m = n
    /\ \A m \in DOMAIN taken[p][j], n \in DOMAIN queue[p][k] :
         taken[p][j][m] # queue[p][k][n]

OnceInv == TypeOK /\ ServedInv /\ QueueInv /\ TriplesUsedOnce

\* The queue a product takes its triple from: refilled if it is short.
Filled(p, j) ==
  IF Len(queue[p][j]) < Threshold THEN queue[p][j] \o Batch(p) ELSE queue[p][j]

ServedAfter(p, j) ==
  IF Len(queue[p][j]) < Threshold THEN served[p] + Threshold ELSE served[p]

Complete(p, j) == Len(taken[p][j]) = Products

\* No party makes more products than the job has.  A job starts, somewhere, when
\* all parties have made every product of the earlier ones, since SP has ended
\* them.
StagesInv ==
  /\ \A p \in Parties, j \in Jobs :
       /\ Len(taken[p][j]) <= Products
       /\ taken[p][j] # << >> => pc[p][j] # "idle"
       /\ taken[p][j] = << >> => queue[p][j] = << >>
       /\ pc[p][j] # "failed"
       /\ pc[p][j] = "ended" => \A q \in Parties : Complete(q, j)
  /\ \A p, q \in Parties, j, k \in Jobs :
       pc[p][j] # "idle" /\ k < j => Complete(q, k)

\* Party p is ready for the next product of job j or has come that far.
Front(p, j) ==
  /\ \A k \in Jobs : k < j => Complete(p, k)
  /\ \A k \in Jobs : k > j => taken[p][k] = << >>

\* Two parties that are equally far have the same triples; one that is a
\* product ahead is where the other will be.
PairsInv ==
  \A p, q \in Parties, j \in Jobs :
    /\ Len(taken[p][j]) <= Len(taken[q][j]) + 1
    /\ Len(taken[p][j]) = Len(taken[q][j]) =>
         /\ taken[p][j] = taken[q][j]
         /\ ~ Complete(p, j) => queue[p][j] = queue[q][j]
         /\ Front(p, j) /\ Front(q, j) => served[p] = served[q]
    /\ Len(taken[p][j]) = Len(taken[q][j]) + 1 =>
         /\ taken[p][j] = Append(taken[q][j], Head(Filled(q, j)))
         /\ ~ Complete(p, j) => queue[p][j] = Tail(Filled(q, j))
         /\ served[p] = ServedAfter(q, j)

StepInv == TypeOK /\ (~ outOfStep => StagesInv /\ PairsInv)

-----------------------------------------------------------------------------
(* Numbers                                                                  *)

Drawn(p, j) == pc[p][j] \notin {"idle", "check", "last"}

\* As long as threads of a party have not met in the generator: at most one is
\* inside, the vector holds different numbers that nobody has drawn, but for the
\* one the thread inside has read and not yet removed, and all that were drawn
\* are different.
NumbersOK(p) ==
  /\ \A j, k \in Jobs : Inside(p, j) /\ Inside(p, k) => j = k
  /\ \A m \in DOMAIN rands[p] : rands[p][m] \in 1..fresh[p]
  /\ \A m, n \in DOMAIN rands[p] : rands[p][m] = rands[p][n] => m = n
  /\ \A j \in Jobs : Inside(p, j) => rands[p] # << >>
  /\ \A j \in Jobs : Drawn(p, j) =>
       /\ number[p][j] \in 1..fresh[p]
       /\ \A n \in DOMAIN rands[p] : rands[p][n] = number[p][j] => pc[p][j] = "pop"
       /\ pc[p][j] = "pop" => number[p][j] = rands[p][Len(rands[p])]
  /\ \A j, k \in Jobs : Drawn(p, j) /\ Drawn(p, k) /\ j # k => number[p][j] # number[p][k]

DrawInv == TypeOK /\ \A p \in Parties : ~ overlap[p] => NumbersOK(p)

-----------------------------------------------------------------------------
(* What the actions do to the sequences                                     *)

\* The elements of s \o t.
LEMMA Concatenation ==
  ASSUME NEW s \in Seq(Nat), NEW t \in Seq(Nat)
  PROVE  /\ s \o t \in Seq(Nat) /\ Len(s \o t) = Len(s) + Len(t)
         /\ \A n \in 1..Len(s) : (s \o t)[n] = s[n]
         /\ \A n \in 1..Len(t) : (s \o t)[Len(s) + n] = t[n]
OBVIOUS

\* A batch is Threshold triples that the party has not been served before.
LEMMA BatchIsNew ==
  ASSUME TypeOK, NEW p \in Parties
  PROVE  /\ Batch(p) \in Seq(Nat) /\ Len(Batch(p)) = Threshold
         /\ \A n \in 1..Threshold : Batch(p)[n] = served[p] + n
BY RandomnessAssumption DEF TypeOK, Batch

\* The queue that a triple is taken from holds the old queue and, if it was
\* short, a batch after it; it is never empty.
LEMMA FilledIs ==
  ASSUME TypeOK, NEW p \in Parties, NEW j \in Jobs
  PROVE  LET old == queue[p][j]
             new == Filled(p, j)
         IN /\ new \in Seq(Nat) /\ new # << >> /\ Len(new) \in Nat \ {0}
            /\ Len(new) >= Len(old)
            /\ \A n \in 1..Len(old) : new[n] = old[n]
            /\ \A n \in 1..Len(new) : n > Len(old) => new[n] = served[p] + (n - Len(old))
            /\ ServedAfter(p, j) \in Nat
            /\ ServedAfter(p, j) = served[p] + (Len(new) - Len(old))
<1> DEFINE old == queue[p][j]
<1>1. old \in Seq(Nat) /\ served[p] \in Nat /\ Threshold \in Nat /\ Threshold > 0
  BY RandomnessAssumption DEF TypeOK
<1>2. CASE Len(old) < Threshold
  <2>1. /\ Filled(p, j) = old \o Batch(p)
        /\ ServedAfter(p, j) = served[p] + Threshold
    BY <1>2 DEF Filled, ServedAfter
  <2> DEFINE new == old \o Batch(p)
  <2>2. /\ new \in Seq(Nat) /\ Len(new) = Len(old) + Threshold
        /\ \A n \in 1..Len(old) : new[n] = old[n]
        /\ \A n \in 1..Threshold : new[Len(old) + n] = served[p] + n
    <3> DEFINE b == Batch(p)
    <3>1. b \in Seq(Nat) /\ Len(b) = Threshold /\ \A n \in 1..Threshold : b[n] = served[p] + n
      BY BatchIsNew
    <3> HIDE DEF b, old
    <3>2. /\ old \o b \in Seq(Nat) /\ Len(old \o b) = Len(old) + Len(b)
          /\ \A n \in 1..Len(old) : (old \o b)[n] = old[n]
          /\ \A n \in 1..Len(b) : (old \o b)[Len(old) + n] = b[n]
      BY <1>1, <3>1, Concatenation
    <3> QED BY <3>1, <3>2 DEF b
  <2> HIDE DEF new, old
  <2>3. \A n \in 1..Len(new) : n > Len(old) => new[n] = served[p] + (n - Len(old))
    <3> SUFFICES ASSUME NEW n \in 1..Len(new), n > Len(old)
                 PROVE  new[n] = served[p] + (n - Len(old))
      OBVIOUS
    <3>1. n - Len(old) \in 1..Threshold /\ Len(old) + (n - Len(old)) = n
      BY <1>1, <2>2
    <3> QED BY <2>2, <3>1
  <2>4. /\ Filled(p, j) = new /\ ServedAfter(p, j) = served[p] + Threshold
        /\ queue[p][j] = old
    BY <2>1 DEF new, old
  <2>5. /\ new # << >> /\ Len(new) \in Nat \ {0} /\ Len(new) >= Len(old)
        /\ served[p] + Threshold \in Nat /\ Len(new) - Len(old) = Threshold
    BY SMTT(30), <1>1, <2>2
  <2> QED BY <2>2, <2>3, <2>4, <2>5
<1>3. CASE ~(Len(old) < Threshold)
  <2>1. Filled(p, j) = old /\ ServedAfter(p, j) = served[p]
    BY <1>3 DEF Filled, ServedAfter
  <2> QED BY <1>1, <1>3, <2>1
<1> QED BY <1>2, <1>3

\* takeOutTriple uses the first triple of that queue and keeps the others.
LEMMA TakeOutTripleDoes ==
  ASSUME TypeOK, NEW p \in Parties, NEW j \in Jobs, TakeOutTriple(p, j)
  PROVE  /\ taken' = [taken EXCEPT ![p][j] = Append(@, Head(Filled(p, j)))]
         /\ queue' = [queue EXCEPT ![p][j] = Tail(Filled(p, j))]
         /\ served' = [served EXCEPT ![p] = ServedAfter(p, j)]
         /\ UNCHANGED <<pc, randVars, outOfStep, errors>>
<1>1. CASE Len(queue[p][j]) < Threshold
  BY <1>1 DEF TakeOutTriple, Use, Filled, ServedAfter
<1>2. CASE ~(Len(queue[p][j]) < Threshold)
  BY <1>2 DEF TakeOutTriple, Use, Filled, ServedAfter, TypeOK
<1> QED BY <1>1, <1>2

-----------------------------------------------------------------------------
LEMMA TypeStep == TypeOK /\ [Next]_vars => TypeOK'
<1> SUFFICES ASSUME TypeOK, [Next]_vars PROVE TypeOK'
  OBVIOUS
<1>1. ASSUME NEW p \in Parties, NEW j \in Jobs, Start(p, j) PROVE TypeOK'
  BY <1>1 DEF Start, Goto, TypeOK, Points, randVars
<1>2. ASSUME NEW p \in Parties, NEW j \in Jobs, Generate(p, j) PROVE TypeOK'
  <2>1. fresh[p] + NHold \in Nat /\ [n \in 1..NHold |-> fresh[p] + n] \in Seq(Nat)
    <3>1. fresh[p] \in Nat /\ NHold \in Nat
      BY RandomnessAssumption DEF TypeOK
    <3>2. [n \in 1..NHold |-> fresh[p] + n] \in [1..NHold -> Nat]
      BY <3>1
    <3>3. [n \in 1..NHold |-> fresh[p] + n] \in Seq(Nat)
      BY <3>1, <3>2
    <3> QED BY <3>1, <3>3
  <2>2. rands' \in [Parties -> Seq(Nat)] /\ fresh' \in [Parties -> Nat]
    BY <1>2, <2>1 DEF Generate, TypeOK
  <2>3. pc' \in [Parties -> [Jobs -> Points]] /\ overlap' \in [Parties -> BOOLEAN]
    BY <1>2 DEF Generate, Goto, TypeOK, Points
  <2> QED BY <1>2, <2>2, <2>3 DEF Generate, TypeOK, tripleVars
<1>3. ASSUME NEW p \in Parties, NEW j \in Jobs, ReadLast(p, j) PROVE TypeOK'
  <2>1. (IF rands[p] = << >> THEN 0 ELSE rands[p][Len(rands[p])]) \in Nat
    BY DEF TypeOK
  <2> QED BY <1>3, <2>1 DEF ReadLast, Goto, TypeOK, Points, tripleVars
<1>4. ASSUME NEW p \in Parties, NEW j \in Jobs, PopBack(p, j) PROVE TypeOK'
  <2>1. SubSeq(rands[p], 1, Len(rands[p]) - 1) \in Seq(Nat)
    BY DEF TypeOK
  <2> QED BY <1>4, <2>1 DEF PopBack, Goto, TypeOK, Points, tripleVars
<1>5. ASSUME NEW p \in Parties, NEW j \in Jobs, TakeOutTriple(p, j) PROVE TypeOK'
  <2>1. /\ Append(taken[p][j], Head(Filled(p, j))) \in Seq(Nat)
        /\ Tail(Filled(p, j)) \in Seq(Nat) /\ ServedAfter(p, j) \in Nat
    BY SMTT(30), FilledIs DEF TypeOK
  <2>2. /\ taken' = [taken EXCEPT ![p][j] = Append(@, Head(Filled(p, j)))]
        /\ queue' = [queue EXCEPT ![p][j] = Tail(Filled(p, j))]
        /\ served' = [served EXCEPT ![p] = ServedAfter(p, j)]
        /\ UNCHANGED <<pc, randVars, outOfStep, errors>>
    BY <1>5, TakeOutTripleDoes
  <2> QED BY <2>1, <2>2 DEF TypeOK, randVars
<1>6. ASSUME NEW p \in Parties, NEW j \in Jobs, ReadTriplesFails(p, j) PROVE TypeOK'
  <2>1. served' \in [Parties -> Nat]
    <3>1. [served EXCEPT ![p] = @ + Threshold] \in [Parties -> Nat]
      BY SMTT(30), RandomnessAssumption DEF TypeOK
    <3> QED BY <1>6, <3>1 DEF ReadTriplesFails, TypeOK
  <2>2. pc' \in [Parties -> [Jobs -> Points]]
    <3>1. pc' = pc \/ pc' = [pc EXCEPT ![p][j] = "failed"]
      BY <1>6, Zenon DEF ReadTriplesFails, Goto
    <3>2. pc \in [Parties -> [Jobs -> Points]] /\ "failed" \in Points
      BY DEF TypeOK, Points
    <3> QED BY <3>1, <3>2
  <2>3. outOfStep' \in BOOLEAN
    BY <1>6, Zenon DEF ReadTriplesFails, TypeOK
  <2> QED BY <1>6, <2>1, <2>2, <2>3 DEF ReadTriplesFails, TypeOK, randVars
<1>7. ASSUME NEW p \in Parties, NEW j \in Jobs, End(p, j) PROVE TypeOK'
  BY <1>7 DEF End, Goto, TypeOK, Points, randVars
<1>8. CASE UNCHANGED vars
  BY <1>8 DEF vars, randVars, tripleVars, TypeOK
<1> QED BY <1>1, <1>2, <1>3, <1>4, <1>5, <1>6, <1>7, <1>8 DEF Next, Step

LEMMA TypeInit == Init => TypeOK
<1> SUFFICES ASSUME Init PROVE TypeOK
  OBVIOUS
<1>1. pc \in [Parties -> [Jobs -> Points]]
  BY DEF Init, Points
<1>2. rands \in [Parties -> Seq(Nat)] /\ fresh \in [Parties -> Nat] /\ served \in [Parties -> Nat]
  BY DEF Init
<1>3. number \in [Parties -> [Jobs -> Nat]]
  BY DEF Init
<1>4. queue \in [Parties -> [Jobs -> Seq(Nat)]] /\ taken \in [Parties -> [Jobs -> Seq(Nat)]]
  BY DEF Init
<1>5. overlap \in [Parties -> BOOLEAN] /\ outOfStep \in BOOLEAN /\ errors \in Nat
  BY DEF Init
<1> QED BY <1>1, <1>2, <1>3, <1>4, <1>5 DEF TypeOK

-----------------------------------------------------------------------------
(* No triple is used twice                                                  *)

LEMMA OnceInit == Init => OnceInv
<1> SUFFICES ASSUME Init PROVE OnceInv
  OBVIOUS
<1>1. \A p \in Parties, j \in Jobs : taken[p][j] = << >> /\ queue[p][j] = << >>
  BY DEF Init
<1> QED BY <1>1, TypeInit DEF OnceInv, ServedInv, QueueInv, TriplesUsedOnce

\* Triples are numbered, and what a party has is numbered up to served.
LEMMA TripleNumbers ==
  ASSUME OnceInv, NEW p \in Parties, NEW j \in Jobs
  PROVE  /\ served[p] \in Nat
         /\ taken[p][j] \in Seq(Nat) /\ DOMAIN taken[p][j] = 1..Len(taken[p][j])
         /\ Len(taken[p][j]) \in Nat
         /\ \A n \in 1..Len(taken[p][j]) : taken[p][j][n] \in Nat /\ taken[p][j][n] <= served[p]
         /\ queue[p][j] \in Seq(Nat) /\ DOMAIN queue[p][j] = 1..Len(queue[p][j])
         /\ Len(queue[p][j]) \in Nat
         /\ \A n \in 1..Len(queue[p][j]) : queue[p][j][n] \in Nat /\ queue[p][j][n] <= served[p]
<1>1. taken[p][j] \in Seq(Nat) /\ queue[p][j] \in Seq(Nat) /\ served[p] \in Nat
  BY DEF OnceInv, TypeOK
<1>2. /\ \A n \in DOMAIN taken[p][j] : taken[p][j][n] <= served[p]
      /\ \A n \in DOMAIN queue[p][j] : queue[p][j][n] <= served[p]
  BY DEF OnceInv, ServedInv
<1> QED BY SMTT(30), <1>1, <1>2

\* The triples a product may be made with, which the party holds or is about
\* to be served, are different from each other and from all it has used, and
\* no other thread of the party has them.
LEMMA FilledIsNew ==
  ASSUME OnceInv, NEW p \in Parties, NEW j \in Jobs
  PROVE  /\ \A n \in 1..Len(Filled(p, j)) : Filled(p, j)[n] <= ServedAfter(p, j)
         /\ \A m, n \in 1..Len(Filled(p, j)) : Filled(p, j)[m] = Filled(p, j)[n] => m = n
         /\ \A k \in Jobs : \A m \in DOMAIN taken[p][k] : \A n \in 1..Len(Filled(p, j)) :
              Filled(p, j)[n] # taken[p][k][m]
         /\ \A k \in Jobs \ {j} : \A m \in DOMAIN queue[p][k] : \A n \in 1..Len(Filled(p, j)) :
              Filled(p, j)[n] # queue[p][k][m]
<1> DEFINE old == queue[p][j]
           new == Filled(p, j)
<1>1. /\ new \in Seq(Nat) /\ Len(new) \in Nat /\ Len(old) \in Nat /\ Len(new) >= Len(old)
      /\ \A n \in 1..Len(old) : new[n] = old[n]
      /\ \A n \in 1..Len(new) : n > Len(old) => new[n] = served[p] + (n - Len(old))
      /\ ServedAfter(p, j) = served[p] + (Len(new) - Len(old))
      /\ served[p] \in Nat
  BY SMTT(30), FilledIs DEF OnceInv, TypeOK
<1>2. /\ \A n \in 1..Len(old) : old[n] <= served[p] /\ old[n] \in Nat
      /\ \A m, n \in 1..Len(old) : old[m] = old[n] => m = n
  BY TripleNumbers DEF OnceInv, QueueInv
<1>3. \A k \in Jobs : \A m \in DOMAIN taken[p][k] :
        /\ taken[p][k][m] \in Nat /\ taken[p][k][m] <= served[p]
        /\ \A n \in 1..Len(old) : old[n] # taken[p][k][m]
  <2>1. \A k \in Jobs : \A m \in DOMAIN taken[p][k] : \A n \in DOMAIN old :
          old[n] # taken[p][k][m]
    BY DEF OnceInv, QueueInv
  <2> QED BY <2>1, TripleNumbers
<1>4. \A k \in Jobs \ {j} : \A m \in DOMAIN queue[p][k] :
        /\ queue[p][k][m] \in Nat /\ queue[p][k][m] <= served[p]
        /\ \A n \in 1..Len(old) : old[n] # queue[p][k][m]
  <2>1. \A k \in Jobs \ {j} : \A m \in DOMAIN queue[p][k] : \A n \in DOMAIN old :
          old[n] # queue[p][k][m]
    BY DEF OnceInv, QueueInv
  <2> QED BY <2>1, TripleNumbers
<1> HIDE DEF old, new
<1>5. \A n \in 1..Len(new) : new[n] <= ServedAfter(p, j)
  <2> TAKE n \in 1..Len(new)
  <2>1. CASE n \in 1..Len(old)
    BY <2>1, <1>1, <1>2
  <2>2. CASE n > Len(old)
    BY <2>2, <1>1
  <2> QED BY <2>1, <2>2, <1>1
<1>6. \A m, n \in 1..Len(new) : new[m] = new[n] => m = n
  <2> SUFFICES ASSUME NEW m \in 1..Len(new), NEW n \in 1..Len(new), new[m] = new[n]
               PROVE  m = n
    OBVIOUS
  <2>1. CASE m \in 1..Len(old) /\ n \in 1..Len(old)
    BY <2>1, <1>1, <1>2
  <2>2. CASE m \in 1..Len(old) /\ n > Len(old)
    BY <2>2, <1>1, <1>2
  <2>3. CASE m > Len(old) /\ n \in 1..Len(old)
    BY <2>3, <1>1, <1>2
  <2>4. CASE m > Len(old) /\ n > Len(old)
    BY SMTT(30), <2>4, <1>1
  <2> QED BY <2>1, <2>2, <2>3, <2>4, <1>1
\* What is new is above all that was served.
<1>7. ASSUME NEW x \in Nat, x <= served[p], \A n \in 1..Len(old) : old[n] # x,
             NEW n \in 1..Len(new)
      PROVE  new[n] # x
  <2>1. CASE n \in 1..Len(old)
    BY <1>1, <1>7, <2>1
  <2>2. CASE n > Len(old)
    <3>1. new[n] = served[p] + (n - Len(old))
      BY <1>1, <2>2
    <3> QED BY <1>1, <1>7, <2>2, <3>1
  <2> QED BY <1>1, <2>1, <2>2
<1>8. \A k \in Jobs : \A m \in DOMAIN taken[p][k] : \A n \in 1..Len(new) : new[n] # taken[p][k][m]
  <2> TAKE k \in Jobs
  <2> TAKE m \in DOMAIN taken[p][k]
  <2>1. /\ taken[p][k][m] \in Nat /\ taken[p][k][m] <= served[p]
        /\ \A n \in 1..Len(old) : old[n] # taken[p][k][m]
    BY <1>3
  <2> QED BY <1>7, <2>1
<1>9. \A k \in Jobs \ {j} : \A m \in DOMAIN queue[p][k] : \A n \in 1..Len(new) :
        new[n] # queue[p][k][m]
  <2> TAKE k \in Jobs \ {j}
  <2> TAKE m \in DOMAIN queue[p][k]
  <2>1. /\ queue[p][k][m] \in Nat /\ queue[p][k][m] <= served[p]
        /\ \A n \in 1..Len(old) : old[n] # queue[p][k][m]
    BY <1>4
  <2> QED BY <1>7, <2>1
<1> QED BY <1>5, <1>6, <1>8, <1>9 DEF new

LEMMA TakeOutTripleOnce ==
  ASSUME OnceInv, NEW p \in Parties, NEW j \in Jobs, TakeOutTriple(p, j)
  PROVE  ServedInv' /\ QueueInv' /\ TriplesUsedOnce'
<1> DEFINE new == Filled(p, j)
           t == taken[p][j]
<1>1. /\ taken' = [taken EXCEPT ![p][j] = Append(t, Head(new))]
      /\ queue' = [queue EXCEPT ![p][j] = Tail(new)]
      /\ served' = [served EXCEPT ![p] = ServedAfter(p, j)]
  BY TakeOutTripleDoes DEF OnceInv
<1>2. /\ new \in Seq(Nat) /\ new # << >> /\ Len(new) \in Nat \ {0} /\ t \in Seq(Nat)
      /\ ServedAfter(p, j) \in Nat /\ served[p] \in Nat /\ ServedAfter(p, j) >= served[p]
  BY FilledIs DEF OnceInv, TypeOK
<1>3. /\ \A n \in 1..Len(new) : new[n] <= ServedAfter(p, j)
      /\ \A m, n \in 1..Len(new) : new[m] = new[n] => m = n
      /\ \A k \in Jobs : \A m \in DOMAIN taken[p][k] : \A n \in 1..Len(new) :
           new[n] # taken[p][k][m]
      /\ \A k \in Jobs \ {j} : \A m \in DOMAIN queue[p][k] : \A n \in 1..Len(new) :
           new[n] # queue[p][k][m]
  BY FilledIsNew
<1> HIDE DEF new
\* The sequences after the step, of this thread and of the others.
<1>4. /\ DOMAIN taken'[p][j] = 1..(Len(t) + 1)
      /\ \A n \in 1..Len(t) : taken'[p][j][n] = t[n]
      /\ taken'[p][j][Len(t) + 1] = new[1]
      /\ DOMAIN t = 1..Len(t) /\ Len(t) \in Nat
  BY <1>1, <1>2 DEF OnceInv, TypeOK
<1>5. /\ DOMAIN queue'[p][j] = 1..(Len(new) - 1)
      /\ \A n \in 1..(Len(new) - 1) : queue'[p][j][n] = new[n + 1]
  BY <1>1, <1>2 DEF OnceInv, TypeOK
<1>6. /\ \A q \in Parties, k \in Jobs : q # p \/ k # j =>
           taken'[q][k] = taken[q][k] /\ queue'[q][k] = queue[q][k]
      /\ \A q \in Parties : served'[q] = IF q = p THEN ServedAfter(p, j) ELSE served[q]
  BY <1>1 DEF OnceInv, TypeOK
<1>7. \A q \in Parties, k \in Jobs :
        /\ \A n \in DOMAIN taken[q][k] : taken[q][k][n] \in Nat /\ taken[q][k][n] <= served[q]
        /\ \A n \in DOMAIN queue[q][k] : queue[q][k][n] \in Nat /\ queue[q][k][n] <= served[q]
        /\ served[q] \in Nat
  BY TripleNumbers
<1>8. ServedInv'
  <2> SUFFICES ASSUME NEW q \in Parties, NEW k \in Jobs
               PROVE  /\ \A n \in DOMAIN taken'[q][k] : taken'[q][k][n] <= served'[q]
                      /\ \A n \in DOMAIN queue'[q][k] : queue'[q][k][n] <= served'[q]
    BY DEF ServedInv
  <2>1. CASE q = p /\ k = j
    <3>1. \A n \in 1..(Len(t) + 1) : taken'[p][j][n] <= ServedAfter(p, j)
      <4> TAKE n \in 1..(Len(t) + 1)
      <4>1. CASE n = Len(t) + 1
        BY <4>1, <1>2, <1>3, <1>4
      <4>2. CASE n \in 1..Len(t)
        <5>1. t[n] \in Nat /\ t[n] <= served[p] /\ taken'[p][j][n] = t[n]
          BY <4>2, <1>4, <1>7
        <5> QED BY <5>1, <1>2
      <4> QED BY <4>1, <4>2, <1>4
    <3>2. \A n \in 1..(Len(new) - 1) : queue'[p][j][n] <= ServedAfter(p, j)
      <4> TAKE n \in 1..(Len(new) - 1)
      <4>1. n + 1 \in 1..Len(new)
        BY <1>2
      <4> QED BY <4>1, <1>3, <1>5
    <3> QED BY <2>1, <3>1, <3>2, <1>4, <1>5, <1>6
  <2>2. CASE q # p \/ k # j
    <3>1. served[q] <= served'[q] /\ served'[q] \in Nat
      BY <1>2, <1>6, <1>7
    <3>2. taken'[q][k] = taken[q][k] /\ queue'[q][k] = queue[q][k]
      BY <2>2, <1>6
    <3> QED BY <3>1, <3>2, <1>7
  <2> QED BY <2>1, <2>2
<1>9. QueueInv'
  <2> SUFFICES ASSUME NEW q \in Parties, NEW k \in Jobs, NEW l \in Jobs
               PROVE  /\ \A m \in DOMAIN queue'[q][k], n \in DOMAIN queue'[q][l] :
                           queue'[q][k][m] = queue'[q][l][n] => k = l /\ m = n
                      /\ \A m \in DOMAIN taken'[q][k], n \in DOMAIN queue'[q][l] :
                           taken'[q][k][m] # queue'[q][l][n]
    BY DEF QueueInv
  <2>0. /\ \A m \in DOMAIN queue[q][k], n \in DOMAIN queue[q][l] :
             queue[q][k][m] = queue[q][l][n] => k = l /\ m = n
        /\ \A m \in DOMAIN taken[q][k], n \in DOMAIN queue[q][l] :
             taken[q][k][m] # queue[q][l][n]
    BY DEF OnceInv, QueueInv
  <2>1. CASE q # p \/ (k # j /\ l # j)
    BY <2>0, <2>1, <1>6
  <2>2. CASE q = p /\ k = j /\ l = j
    <3>1. \A m \in 1..(Len(new) - 1), n \in 1..(Len(new) - 1) :
            queue'[p][j][m] = queue'[p][j][n] => m = n
      <4> SUFFICES ASSUME NEW m \in 1..(Len(new) - 1), NEW n \in 1..(Len(new) - 1),
                          new[m + 1] = new[n + 1]
                   PROVE  m = n
        BY <1>5
      <4>1. m + 1 \in 1..Len(new) /\ n + 1 \in 1..Len(new)
        BY <1>2
      <4>2. m + 1 = n + 1
        BY <4>1, <1>3
      <4> QED BY <4>2
    <3>2. \A m \in 1..(Len(t) + 1), n \in 1..(Len(new) - 1) :
            taken'[p][j][m] # queue'[p][j][n]
      <4> SUFFICES ASSUME NEW m \in 1..(Len(t) + 1), NEW n \in 1..(Len(new) - 1)
                   PROVE  taken'[p][j][m] # new[n + 1]
        BY <1>5
      <4>1. n + 1 \in 1..Len(new) /\ 1 \in 1..Len(new) /\ n + 1 # 1
        BY <1>2
      <4>2. CASE m = Len(t) + 1
        BY <4>1, <4>2, <1>3, <1>4
      <4>3. CASE m \in 1..Len(t)
        BY <4>1, <4>3, <1>3, <1>4
      <4> QED BY <4>2, <4>3, <1>4
    <3> QED BY SMTT(30), <2>2, <3>1, <3>2, <1>4, <1>5
  <2>3. CASE q = p /\ k = j /\ l # j
    <3>1. \A m \in 1..(Len(new) - 1), n \in DOMAIN queue[p][l] :
            queue'[p][j][m] # queue[p][l][n]
      <4> SUFFICES ASSUME NEW m \in 1..(Len(new) - 1), NEW n \in DOMAIN queue[p][l]
                   PROVE  new[m + 1] # queue[p][l][n]
        BY <1>5
      <4>1. m + 1 \in 1..Len(new)
        BY <1>2
      <4> QED BY <2>3, <4>1, <1>3
    <3>2. \A m \in 1..(Len(t) + 1), n \in DOMAIN queue[p][l] :
            taken'[p][j][m] # queue[p][l][n]
      <4> SUFFICES ASSUME NEW m \in 1..(Len(t) + 1), NEW n \in DOMAIN queue[p][l]
                   PROVE  taken'[p][j][m] # queue[p][l][n]
        OBVIOUS
      <4>1. 1 \in 1..Len(new)
        BY <1>2
      <4>2. CASE m = Len(t) + 1
        BY <2>3, <4>1, <4>2, <1>3, <1>4
      <4>3. CASE m \in 1..Len(t)
        BY <2>0, <2>3, <4>3, <1>4
      <4> QED BY <4>2, <4>3, <1>4
    <3>3. queue'[p][l] = queue[p][l]
      BY <2>3, <1>6
    <3>4. /\ \A m \in DOMAIN queue'[p][j], n \in DOMAIN queue[p][l] :
               queue'[p][j][m] # queue[p][l][n]
          /\ \A m \in DOMAIN taken'[p][j], n \in DOMAIN queue[p][l] :
               taken'[p][j][m] # queue[p][l][n]
      BY <3>1, <3>2, <1>4, <1>5
    <3> QED BY <2>3, <3>3, <3>4
  <2>4. CASE q = p /\ k # j /\ l = j
    <3>1. \A m \in DOMAIN queue[p][k], n \in 1..(Len(new) - 1) :
            queue[p][k][m] # queue'[p][j][n]
      <4> SUFFICES ASSUME NEW m \in DOMAIN queue[p][k], NEW n \in 1..(Len(new) - 1)
                   PROVE  queue[p][k][m] # new[n + 1]
        BY <1>5
      <4>1. n + 1 \in 1..Len(new)
        BY <1>2
      <4> QED BY <2>4, <4>1, <1>3
    <3>2. \A m \in DOMAIN taken[p][k], n \in 1..(Len(new) - 1) :
            taken[p][k][m] # queue'[p][j][n]
      <4> SUFFICES ASSUME NEW m \in DOMAIN taken[p][k], NEW n \in 1..(Len(new) - 1)
                   PROVE  taken[p][k][m] # new[n + 1]
        BY <1>5
      <4>1. n + 1 \in 1..Len(new)
        BY <1>2
      <4> QED BY <4>1, <1>3
    <3>3. queue'[p][k] = queue[p][k] /\ taken'[p][k] = taken[p][k]
      BY <2>4, <1>6
    <3> QED BY <2>4, <3>1, <3>2, <3>3, <1>5
  <2> QED BY <2>1, <2>2, <2>3, <2>4
<1>10. TriplesUsedOnce'
  <2> SUFFICES ASSUME NEW q \in Parties, NEW k \in Jobs, NEW l \in Jobs,
                      NEW m \in DOMAIN taken'[q][k], NEW n \in DOMAIN taken'[q][l],
                      taken'[q][k][m] = taken'[q][l][n]
               PROVE  k = l /\ m = n
    BY DEF TriplesUsedOnce
  <2>0. \A a \in DOMAIN taken[q][k], b \in DOMAIN taken[q][l] :
          taken[q][k][a] = taken[q][l][b] => k = l /\ a = b
    BY DEF OnceInv, TriplesUsedOnce
  <2>1. 1 \in 1..Len(new)
    BY <1>2
  <2>2. CASE q # p \/ (k # j /\ l # j)
    BY <2>0, <2>2, <1>6
  <2>3. CASE q = p /\ k = j /\ l = j
    <3>1. m \in 1..(Len(t) + 1) /\ n \in 1..(Len(t) + 1)
      BY <2>3, <1>4
    <3>2. CASE m \in 1..Len(t) /\ n \in 1..Len(t)
      BY <2>0, <2>3, <3>2, <1>4
    <3>3. CASE m = Len(t) + 1 /\ n \in 1..Len(t)
      BY <2>1, <2>3, <3>3, <1>3, <1>4
    <3>4. CASE m \in 1..Len(t) /\ n = Len(t) + 1
      BY <2>1, <2>3, <3>4, <1>3, <1>4
    <3> QED BY <2>3, <3>1, <3>2, <3>3, <3>4, <1>4
  <2>4. CASE q = p /\ k = j /\ l # j
    <3>1. m \in 1..(Len(t) + 1) /\ taken'[p][l] = taken[p][l]
      BY <2>4, <1>4, <1>6
    <3>2. CASE m = Len(t) + 1
      BY <2>1, <2>4, <3>1, <3>2, <1>3, <1>4
    <3>3. CASE m \in 1..Len(t)
      BY <2>0, <2>4, <3>1, <3>3, <1>4
    <3> QED BY <3>1, <3>2, <3>3, <1>4
  <2>5. CASE q = p /\ k # j /\ l = j
    <3>1. n \in 1..(Len(t) + 1) /\ taken'[p][k] = taken[p][k]
      BY <2>5, <1>4, <1>6
    <3>2. CASE n = Len(t) + 1
      BY <2>1, <2>5, <3>1, <3>2, <1>3, <1>4
    <3>3. CASE n \in 1..Len(t)
      BY <2>0, <2>5, <3>1, <3>3, <1>4
    <3> QED BY <3>1, <3>2, <3>3, <1>4
  <2> QED BY <2>2, <2>3, <2>4, <2>5
<1> QED BY <1>8, <1>9, <1>10

LEMMA OnceStep == OnceInv /\ [Next]_vars => OnceInv'
<1> SUFFICES ASSUME OnceInv, [Next]_vars PROVE OnceInv'
  OBVIOUS
<1>1. TypeOK'
  BY TypeStep DEF OnceInv
<1>2. ASSUME UNCHANGED <<queue, served, taken>> PROVE OnceInv'
  BY <1>1, <1>2 DEF OnceInv, ServedInv, QueueInv, TriplesUsedOnce
<1>3. ASSUME NEW p \in Parties, NEW j \in Jobs, TakeOutTriple(p, j) PROVE OnceInv'
  BY <1>1, <1>3, TakeOutTripleOnce DEF OnceInv
<1>4. ASSUME NEW p \in Parties, NEW j \in Jobs, ReadTriplesFails(p, j) PROVE OnceInv'
  <2>1. UNCHANGED <<queue, taken>>
    BY <1>4 DEF ReadTriplesFails
  <2>2. \A q \in Parties : served'[q] \in Nat /\ served[q] \in Nat /\ served[q] <= served'[q]
    <3>1. served' = served \/ served' = [served EXCEPT ![p] = @ + Threshold]
      BY <1>4, Zenon DEF ReadTriplesFails
    <3>2. served \in [Parties -> Nat] /\ Threshold \in Nat
      BY RandomnessAssumption DEF OnceInv, TypeOK
    <3>3. \A q \in Parties :
            served'[q] = served[q] \/ served'[q] = served[q] + Threshold
      BY <3>1, <3>2
    <3> QED BY <3>2, <3>3
  <2>3. ServedInv'
    <3> SUFFICES ASSUME NEW q \in Parties, NEW k \in Jobs
                 PROVE  /\ \A n \in DOMAIN taken[q][k] : taken[q][k][n] <= served'[q]
                        /\ \A n \in DOMAIN queue[q][k] : queue[q][k][n] <= served'[q]
      BY <2>1 DEF ServedInv
    <3>1. /\ served[q] <= served'[q] /\ served'[q] \in Nat /\ served[q] \in Nat
          /\ \A n \in DOMAIN taken[q][k] : taken[q][k][n] \in Nat /\ taken[q][k][n] <= served[q]
          /\ \A n \in DOMAIN queue[q][k] : queue[q][k][n] \in Nat /\ queue[q][k][n] <= served[q]
      BY <2>2, TripleNumbers
    <3> QED BY <3>1
  <2> QED BY <1>1, <2>1, <2>3 DEF OnceInv, QueueInv, TriplesUsedOnce
<1>5. ASSUME NEW p \in Parties, NEW j \in Jobs, End(p, j) PROVE OnceInv'
  <2>1. /\ queue' = [queue EXCEPT ![p][j] = << >>]
        /\ UNCHANGED <<served, taken>>
    BY <1>5 DEF End
  <2>2. \A q \in Parties, k \in Jobs :
          queue'[q][k] = IF q = p /\ k = j THEN << >> ELSE queue[q][k]
    BY <2>1 DEF OnceInv, TypeOK
  <2>3. ServedInv'
    BY <2>1, <2>2 DEF OnceInv, ServedInv
  <2>4. QueueInv'
    BY <2>1, <2>2 DEF OnceInv, QueueInv
  <2> QED BY <1>1, <2>1, <2>3, <2>4 DEF OnceInv, TriplesUsedOnce
<1>6. CASE UNCHANGED vars
  BY <1>2, <1>6 DEF vars, tripleVars
<1>7. ASSUME NEW p \in Parties, NEW j \in Jobs,
             Start(p, j) \/ Generate(p, j) \/ ReadLast(p, j) \/ PopBack(p, j)
      PROVE  OnceInv'
  BY <1>2, <1>7 DEF Start, Generate, ReadLast, PopBack, tripleVars
<1> QED BY <1>3, <1>4, <1>5, <1>6, <1>7 DEF Next, Step

\* No triple is used for two products, in the queues and in what was used,
\* whatever requests of readTriples are lost and however jobs overlap.
THEOREM NoTripleIsUsedTwice == Spec => []TriplesUsedOnce
<1>1. Spec => []OnceInv
  BY OnceInit, OnceStep, PTL DEF Spec
<1>2. OnceInv => TriplesUsedOnce
  BY DEF OnceInv
<1> QED BY <1>1, <1>2, PTL

-----------------------------------------------------------------------------
(* The triples of two parties belong together                               *)

LEMMA StepInit == Init => StepInv
<1> SUFFICES ASSUME Init PROVE StepInv
  OBVIOUS
<1>1. \A p \in Parties, j \in Jobs :
        /\ taken[p][j] = << >> /\ queue[p][j] = << >> /\ pc[p][j] = "idle" /\ served[p] = 0
  BY DEF Init
<1>2. StagesInv
  BY <1>1, RandomnessAssumption DEF StagesInv
<1>3. PairsInv
  BY <1>1 DEF PairsInv
<1> QED BY <1>2, <1>3, TypeInit DEF StepInv

\* When a product is due at party p, every other party is where p is, with the
\* same triples, or where p will be.
LEMMA OthersWhenDue ==
  ASSUME TypeOK, StagesInv, PairsInv,
         NEW p \in Parties, NEW j \in Jobs, Multiplying(p, j)
  PROVE  /\ \A q \in Parties : Front(q, j)
         /\ \A q \in Parties :
              \/ /\ Len(taken[q][j]) = Len(taken[p][j]) /\ taken[q][j] = taken[p][j]
                 /\ queue[q][j] = queue[p][j] /\ served[q] = served[p]
              \/ /\ Len(taken[q][j]) = Len(taken[p][j]) + 1
                 /\ taken[q][j] = Append(taken[p][j], Head(Filled(p, j)))
                 /\ ~ Complete(q, j) => queue[q][j] = Tail(Filled(p, j))
                 /\ served[q] = ServedAfter(p, j)
<1>1. /\ pc[p][j] # "idle" /\ ~ Complete(p, j)
      /\ \A q \in Parties : Len(taken[q][j]) >= Len(taken[p][j])
  BY DEF Multiplying, Complete, TypeOK
<1>2. \A q \in Parties : Front(q, j)
  <2> TAKE q \in Parties
  <2>1. \A k \in Jobs : k < j => Complete(q, k)
    BY <1>1 DEF StagesInv
  <2>2. ASSUME NEW k \in Jobs, k > j PROVE taken[q][k] = << >>
    <3>1. j < k
      BY <2>2, RandomnessAssumption
    <3> QED BY <3>1, <1>1 DEF StagesInv
  <2> QED BY <2>1, <2>2 DEF Front
<1>3. ASSUME NEW q \in Parties
      PROVE  \/ /\ Len(taken[q][j]) = Len(taken[p][j]) /\ taken[q][j] = taken[p][j]
                /\ queue[q][j] = queue[p][j] /\ served[q] = served[p]
             \/ /\ Len(taken[q][j]) = Len(taken[p][j]) + 1
                /\ taken[q][j] = Append(taken[p][j], Head(Filled(p, j)))
                /\ ~ Complete(q, j) => queue[q][j] = Tail(Filled(p, j))
                /\ served[q] = ServedAfter(p, j)
  <2>1. Len(taken[q][j]) \in Nat /\ Len(taken[p][j]) \in Nat
    BY DEF TypeOK
  <2>2. Len(taken[q][j]) = Len(taken[p][j]) \/ Len(taken[q][j]) = Len(taken[p][j]) + 1
    <3>1. Len(taken[q][j]) <= Len(taken[p][j]) + 1
      BY DEF PairsInv
    <3> QED BY <2>1, <3>1, <1>1
  <2>3. CASE Len(taken[q][j]) = Len(taken[p][j])
    <3>1. ~ Complete(q, j)
      BY <2>3, <1>1 DEF Complete
    <3> QED BY <2>3, <3>1, <1>1, <1>2 DEF PairsInv
  <2>4. CASE Len(taken[q][j]) = Len(taken[p][j]) + 1
    BY <2>4 DEF PairsInv
  <2> QED BY <2>2, <2>3, <2>4
<1> QED BY <1>2, <1>3

LEMMA TakeOutTripleInStep ==
  ASSUME TypeOK, StagesInv, PairsInv,
         NEW p \in Parties, NEW j \in Jobs, TakeOutTriple(p, j)
  PROVE  StagesInv' /\ PairsInv'
<1> DEFINE T == Append(taken[p][j], Head(Filled(p, j)))
           Q == Tail(Filled(p, j))
           S == ServedAfter(p, j)
<1>1. Multiplying(p, j)
  BY DEF TakeOutTriple
<1>2. /\ taken' = [taken EXCEPT ![p][j] = T]
      /\ queue' = [queue EXCEPT ![p][j] = Q]
      /\ served' = [served EXCEPT ![p] = S]
      /\ pc' = pc
  BY TakeOutTripleDoes
<1>3. /\ \A q \in Parties, k \in Jobs :
           /\ taken'[q][k] = IF q = p /\ k = j THEN T ELSE taken[q][k]
           /\ queue'[q][k] = IF q = p /\ k = j THEN Q ELSE queue[q][k]
      /\ \A q \in Parties : served'[q] = IF q = p THEN S ELSE served[q]
  BY <1>2 DEF TypeOK
<1>4. /\ Len(T) = Len(taken[p][j]) + 1 /\ T # << >>
      /\ Len(taken[p][j]) \in Nat /\ Products \in Nat /\ Len(taken[p][j]) < Products
      /\ pc[p][j] = "multiply"
  <2>1. taken[p][j] \in Seq(Nat) /\ Head(Filled(p, j)) \in Nat
    BY FilledIs DEF TypeOK
  <2> QED BY <1>1, <2>1, RandomnessAssumption DEF Multiplying
<1>5. /\ \A q \in Parties : Front(q, j)
      /\ \A q \in Parties :
           \/ /\ Len(taken[q][j]) = Len(taken[p][j]) /\ taken[q][j] = taken[p][j]
              /\ queue[q][j] = queue[p][j] /\ served[q] = served[p]
           \/ /\ Len(taken[q][j]) = Len(T) /\ taken[q][j] = T
              /\ ~ Complete(q, j) => queue[q][j] = Q
              /\ served[q] = S
  BY <1>1, <1>4, OthersWhenDue
<1>6. \A q \in Parties : q # p =>
        /\ \A k \in Jobs : Filled(q, k)' = Filled(q, k) /\ ServedAfter(q, k)' = ServedAfter(q, k)
        /\ \A k \in Jobs : Complete(q, k)' <=> Complete(q, k)
        /\ \A k \in Jobs : Front(q, k)' <=> Front(q, k)
  BY <1>3 DEF Filled, ServedAfter, Batch, Complete, Front
<1>7. \A q \in Parties, k \in Jobs : k # j => (Complete(q, k)' <=> Complete(q, k))
  BY <1>3 DEF Complete
<1>8. \A q \in Parties, k \in Jobs : k > j => taken[q][k] = << >>
  BY <1>5 DEF Front
<1>9. \A q \in Parties, k \in Jobs : k < j => Complete(q, k)
  BY <1>5 DEF Front
<1>10. \A k, l \in Jobs : (k = l \/ k < l \/ k > l) /\ (k < l <=> l > k) /\ ~(k < k)
  BY RandomnessAssumption
<1> HIDE DEF T, Q, S
<1>11. StagesInv'
  <2>1. ASSUME NEW q \in Parties, NEW k \in Jobs
        PROVE  /\ Len(taken'[q][k]) <= Products
               /\ taken'[q][k] # << >> => pc'[q][k] # "idle"
               /\ taken'[q][k] = << >> => queue'[q][k] = << >>
               /\ pc'[q][k] # "failed"
    <3>1. CASE q = p /\ k = j
      BY <3>1, <1>2, <1>3, <1>4
    <3>2. CASE ~(q = p /\ k = j)
      BY <3>2, <1>2, <1>3 DEF StagesInv
    <3> QED BY <3>1, <3>2
  <2>2. ASSUME NEW q \in Parties, NEW k \in Jobs, pc'[q][k] = "ended", NEW o \in Parties
        PROVE  Complete(o, k)'
    <3>1. pc[q][k] = "ended" /\ Complete(p, k) /\ Complete(o, k)
      BY <2>2, <1>2 DEF StagesInv
    <3>2. k # j
      BY <3>1, <1>4 DEF Complete
    <3> QED BY <3>1, <3>2, <1>7
  <2>3. ASSUME NEW q \in Parties, NEW o \in Parties, NEW k \in Jobs, NEW l \in Jobs,
               pc'[q][k] # "idle", l < k
        PROVE  Complete(o, l)'
    <3>1. Complete(p, l) /\ Complete(o, l)
      BY <2>3, <1>2 DEF StagesInv
    <3>2. l # j
      BY <3>1, <1>4 DEF Complete
    <3> QED BY <3>1, <3>2, <1>7
  <2> QED BY <2>1, <2>2, <2>3 DEF StagesInv
<1>12. PairsInv'
  <2> DEFINE Pair(a, b, k) ==
        /\ Len(taken'[a][k]) <= Len(taken'[b][k]) + 1
        /\ Len(taken'[a][k]) = Len(taken'[b][k]) =>
             /\ taken'[a][k] = taken'[b][k]
             /\ ~ Complete(a, k)' => queue'[a][k] = queue'[b][k]
             /\ Front(a, k)' /\ Front(b, k)' => served'[a] = served'[b]
        /\ Len(taken'[a][k]) = Len(taken'[b][k]) + 1 =>
             /\ taken'[a][k] = Append(taken'[b][k], Head(Filled(b, k)'))
             /\ ~ Complete(a, k)' => queue'[a][k] = Tail(Filled(b, k)')
             /\ served'[a] = ServedAfter(b, k)'
  <2> SUFFICES ASSUME NEW a \in Parties, NEW b \in Parties, NEW k \in Jobs
               PROVE  Pair(a, b, k)
    BY DEF PairsInv
  <2>0. \A q \in Parties, l \in Jobs : Len(taken'[q][l]) \in Nat
    <3>1. \A q \in Parties, l \in Jobs : Len(taken[q][l]) \in Nat
      BY DEF TypeOK
    <3> QED BY <3>1, <1>3, <1>4
  <2>1. CASE a # p /\ b # p
    <3>1. /\ taken'[a][k] = taken[a][k] /\ taken'[b][k] = taken[b][k]
          /\ queue'[a][k] = queue[a][k] /\ queue'[b][k] = queue[b][k]
          /\ served'[a] = served[a] /\ served'[b] = served[b]
      BY <2>1, <1>3
    <3> QED BY <2>1, <3>1, <1>6 DEF PairsInv
  <2>2. CASE a = b
    BY <2>2, <2>0
  <2>3. CASE a = p /\ b # p /\ k = j
    <3>1. /\ taken'[a][k] = T /\ queue'[a][k] = Q /\ served'[a] = S
          /\ taken'[b][k] = taken[b][k] /\ queue'[b][k] = queue[b][k] /\ served'[b] = served[b]
          /\ Filled(b, k)' = Filled(b, k) /\ ServedAfter(b, k)' = ServedAfter(b, k)
          /\ Complete(b, k)' <=> Complete(b, k)
      BY <2>3, <1>3, <1>6
    <3>2. CASE /\ Len(taken[b][j]) = Len(taken[p][j]) /\ taken[b][j] = taken[p][j]
               /\ queue[b][j] = queue[p][j] /\ served[b] = served[p]
      <4>1. Filled(b, j) = Filled(p, j) /\ ServedAfter(b, j) = ServedAfter(p, j)
        BY <3>2 DEF Filled, ServedAfter, Batch
      <4> QED BY <2>3, <3>1, <3>2, <4>1, <1>4 DEF T, Q, S
    <3>3. CASE /\ Len(taken[b][j]) = Len(T) /\ taken[b][j] = T
               /\ ~ Complete(b, j) => queue[b][j] = Q
               /\ served[b] = S
      <4>1. Complete(a, k)' <=> Complete(b, k)
        BY <2>3, <3>1, <3>3 DEF Complete
      <4> QED BY <2>3, <3>1, <3>3, <4>1, <1>4
    <3> QED BY <3>2, <3>3, <1>5
  <2>4. CASE a # p /\ b = p /\ k = j
    <3>1. /\ taken'[b][k] = T /\ queue'[b][k] = Q /\ served'[b] = S
          /\ taken'[a][k] = taken[a][k] /\ queue'[a][k] = queue[a][k] /\ served'[a] = served[a]
          /\ Complete(a, k)' <=> Complete(a, k)
      BY <2>4, <1>3, <1>6
    <3>2. CASE Len(taken[a][j]) = Len(taken[p][j])
      BY <2>4, <3>1, <3>2, <1>4
    <3>3. CASE /\ Len(taken[a][j]) = Len(T) /\ taken[a][j] = T
               /\ ~ Complete(a, j) => queue[a][j] = Q
               /\ served[a] = S
      BY <2>4, <3>1, <3>3, <1>4
    <3> QED BY <3>2, <3>3, <1>5
  \* In an earlier job all products are made, and p is past it.
  <2>5. CASE a # b /\ (a = p \/ b = p) /\ k < j
    <3>1. /\ taken'[a][k] = taken[a][k] /\ taken'[b][k] = taken[b][k] /\ k # j
          /\ Complete(a, k) /\ Complete(b, k) /\ Complete(a, k)'
      BY <2>5, <1>3, <1>7, <1>9, <1>10
    <3>2. taken[a][k] = taken[b][k]
      BY <3>1 DEF PairsInv, Complete
    <3>3. ~ Front(p, k)'
      BY <2>5, <1>3, <1>4, <1>10 DEF Front
    <3> QED BY <2>0, <2>5, <3>1, <3>2, <3>3
  \* No product of a later job is made yet, but p may be ready for it now.
  <2>6. CASE a # b /\ (a = p \/ b = p) /\ k > j
    <3>1. /\ taken'[a][k] = << >> /\ taken'[b][k] = << >> /\ k # j /\ j < k
      BY <2>6, <1>3, <1>8, <1>10
    <3>2. queue'[a][k] = queue'[b][k]
      BY <2>6, <3>1, <1>3 DEF StagesInv
    <3>3. ASSUME NEW q \in Parties, q # p, Front(p, k)', Front(q, k)'
          PROVE  served'[q] = served'[p]
      <4>1. Complete(p, j)' /\ Complete(q, j)'
        BY <3>1, <3>3 DEF Front
      <4>2. Len(T) = Products /\ Len(taken[q][j]) = Products
        BY <4>1, <3>3, <1>3 DEF Complete
      <4> QED BY <4>2, <3>3, <1>3, <1>4, <1>5
    <3> QED BY <2>0, <2>6, <3>1, <3>2, <3>3
  <2> QED BY <2>1, <2>2, <2>3, <2>4, <2>5, <2>6, <1>10
<1> QED BY <1>11, <1>12

\* A step that leaves the triples alone leaves them where they belong.
LEMMA PairsKept ==
  ASSUME PairsInv, UNCHANGED <<taken, queue, served>>
  PROVE  PairsInv'
<1>1. \A q \in Parties, k \in Jobs :
        /\ Filled(q, k)' = Filled(q, k) /\ ServedAfter(q, k)' = ServedAfter(q, k)
        /\ Complete(q, k)' <=> Complete(q, k)
        /\ Front(q, k)' <=> Front(q, k)
  BY DEF Front, Complete, Filled, ServedAfter, Batch
<1> QED BY <1>1 DEF PairsInv

\* In generateRand a thread moves on, neither at its beginning nor at its end.
LEMMA GenerateInStep ==
  ASSUME TypeOK, StagesInv, PairsInv, NEW p \in Parties, NEW j \in Jobs,
         Generate(p, j) \/ ReadLast(p, j) \/ PopBack(p, j)
  PROVE  StagesInv' /\ PairsInv'
<1>1. /\ pc[p][j] \notin {"idle", "ended", "failed"}
      /\ \E point \in {"last", "pop", "multiply"} : pc' = [pc EXCEPT ![p][j] = point]
      /\ UNCHANGED <<taken, queue, served>>
  BY DEF Generate, ReadLast, PopBack, Goto, tripleVars
<1>2. \A q \in Parties, k \in Jobs :
        \/ pc'[q][k] = pc[q][k]
        \/ /\ pc[q][k] \notin {"idle", "ended", "failed"}
           /\ pc'[q][k] \notin {"idle", "ended", "failed"}
  BY <1>1 DEF TypeOK
<1>3. StagesInv'
  BY <1>1, <1>2 DEF StagesInv, Complete
<1> QED BY <1>1, <1>3, PairsKept

\* A job starts at p when SP has ended the earlier ones, so everybody has made
\* all their products.
LEMMA StartInStep ==
  ASSUME TypeOK, StagesInv, PairsInv, NEW p \in Parties, NEW j \in Jobs, Start(p, j)
  PROVE  StagesInv' /\ PairsInv'
<1>1. /\ pc' = [pc EXCEPT ![p][j] = "check"]
      /\ UNCHANGED <<taken, queue, served>>
      /\ \A k \in Jobs : k < j => pc[SP][k] \in {"ended", "failed"}
  BY DEF Start, Goto, Ended
<1>2. \A k \in Jobs, q \in Parties : k < j => Complete(q, k)
  BY <1>1, RandomnessAssumption DEF StagesInv
<1>3. \A q \in Parties, k \in Jobs : pc'[q][k] = IF q = p /\ k = j THEN "check" ELSE pc[q][k]
  BY <1>1 DEF TypeOK
<1>4. \A q \in Parties, k \in Jobs : Complete(q, k)' <=> Complete(q, k)
  BY <1>1 DEF Complete
<1>5. StagesInv'
  BY <1>1, <1>2, <1>3, <1>4 DEF StagesInv
<1> QED BY <1>1, <1>5, PairsKept

\* The queue of a thread that ends is of no more use: all products are made.
LEMMA EndInStep ==
  ASSUME TypeOK, StagesInv, PairsInv, NEW p \in Parties, NEW j \in Jobs, End(p, j)
  PROVE  StagesInv' /\ PairsInv'
<1>1. /\ pc' = [pc EXCEPT ![p][j] = "ended"] /\ pc[p][j] = "multiply"
      /\ queue' = [queue EXCEPT ![p][j] = << >>]
      /\ UNCHANGED <<taken, served>>
      /\ \A q \in Parties : Complete(q, j)
  BY DEF End, Goto, Complete
<1>2. \A q \in Parties, k \in Jobs :
        /\ pc'[q][k] = IF q = p /\ k = j THEN "ended" ELSE pc[q][k]
        /\ queue'[q][k] = IF q = p /\ k = j THEN << >> ELSE queue[q][k]
  BY <1>1 DEF TypeOK
<1>3. \A q \in Parties, k \in Jobs : (Complete(q, k)' <=> Complete(q, k)) /\ (Front(q, k)' <=> Front(q, k))
  BY <1>1 DEF Complete, Front
<1>4. StagesInv'
  BY <1>1, <1>2, <1>3 DEF StagesInv
<1>5. PairsInv'
  <2>1. \A a, b \in Parties, k \in Jobs :
          k # j => /\ queue'[a][k] = queue[a][k]
                   /\ Filled(b, k)' = Filled(b, k) /\ ServedAfter(b, k)' = ServedAfter(b, k)
    BY <1>1, <1>2 DEF Filled, ServedAfter, Batch
  <2>2. \A a, b \in Parties : Len(taken[a][j]) = Len(taken[b][j])
                              /\ Len(taken[a][j]) # Len(taken[b][j]) + 1
    BY <1>1, RandomnessAssumption DEF Complete
  <2> DEFINE Same(a, b, k) ==
        /\ taken[a][k] = taken[b][k]
        /\ ~ Complete(a, k)' => queue'[a][k] = queue'[b][k]
        /\ Front(a, k)' /\ Front(b, k)' => served[a] = served[b]
             Next1(a, b, k) ==
        /\ taken[a][k] = Append(taken[b][k], Head(Filled(b, k)'))
        /\ ~ Complete(a, k)' => queue'[a][k] = Tail(Filled(b, k)')
        /\ served[a] = ServedAfter(b, k)'
  <2>3. ASSUME NEW a \in Parties, NEW b \in Parties, NEW k \in Jobs
        PROVE  /\ Len(taken[a][k]) <= Len(taken[b][k]) + 1
               /\ Len(taken[a][k]) = Len(taken[b][k]) => Same(a, b, k)
               /\ Len(taken[a][k]) = Len(taken[b][k]) + 1 => Next1(a, b, k)
    <3>1. CASE k = j
      BY <3>1, <1>1, <1>3, <2>2 DEF PairsInv
    <3>2. CASE k # j
      BY <3>2, <1>3, <2>1 DEF PairsInv
    <3> QED BY <3>1, <3>2
  <2> QED BY <1>1, <2>3 DEF PairsInv
<1> QED BY <1>4, <1>5

LEMMA StepStep == StepInv /\ [Next]_vars => StepInv'
<1> SUFFICES ASSUME StepInv, [Next]_vars PROVE StepInv'
  OBVIOUS
<1>1. TypeOK /\ TypeOK'
  BY TypeStep DEF StepInv
<1>2. ASSUME outOfStep => outOfStep',
             StagesInv /\ PairsInv => StagesInv' /\ PairsInv'
      PROVE  StepInv'
  BY <1>1, <1>2 DEF StepInv
<1>3. ASSUME NEW p \in Parties, NEW j \in Jobs, Start(p, j) PROVE StepInv'
  <2>1. outOfStep => outOfStep'
    BY <1>3 DEF Start
  <2> QED BY <1>1, <1>2, <1>3, <2>1, StartInStep
<1>4. ASSUME NEW p \in Parties, NEW j \in Jobs,
             Generate(p, j) \/ ReadLast(p, j) \/ PopBack(p, j)
      PROVE  StepInv'
  <2>1. outOfStep => outOfStep'
    BY <1>4 DEF Generate, ReadLast, PopBack, tripleVars
  <2> QED BY <1>1, <1>2, <1>4, <2>1, GenerateInStep
<1>5. ASSUME NEW p \in Parties, NEW j \in Jobs, TakeOutTriple(p, j) PROVE StepInv'
  <2>1. outOfStep => outOfStep'
    BY <1>5 DEF TakeOutTriple
  <2> QED BY <1>1, <1>2, <1>5, <2>1, TakeOutTripleInStep
<1>6. ASSUME NEW p \in Parties, NEW j \in Jobs, ReadTriplesFails(p, j) PROVE StepInv'
  <2>1. CASE outOfStep'
    BY <1>1, <2>1 DEF StepInv
  <2>2. CASE UNCHANGED <<served, outOfStep, pc>>
    <3>1. UNCHANGED <<taken, queue>>
      BY <1>6 DEF ReadTriplesFails
    <3>2. StagesInv /\ PairsInv => StagesInv' /\ PairsInv'
      BY <2>2, <3>1, PairsKept DEF StagesInv, Complete
    <3> QED BY <1>2, <2>2, <3>2
  <2> QED BY <1>6, <2>1, <2>2, Zenon DEF ReadTriplesFails
<1>7. ASSUME NEW p \in Parties, NEW j \in Jobs, End(p, j) PROVE StepInv'
  <2>1. outOfStep => outOfStep'
    BY <1>7 DEF End
  <2> QED BY <1>1, <1>2, <1>7, <2>1, EndInStep
<1>8. CASE UNCHANGED vars
  <2>1. StagesInv /\ PairsInv => StagesInv' /\ PairsInv'
    BY <1>8, PairsKept DEF vars, tripleVars, StagesInv, Complete
  <2> QED BY <1>2, <1>8, <2>1 DEF vars, tripleVars
<1> QED BY <1>3, <1>4, <1>5, <1>6, <1>7, <1>8 DEF Next, Step

LEMMA SameTriple ==
  ASSUME TypeOK, PairsInv,
         NEW p \in Parties, NEW q \in Parties, NEW j \in Jobs, NEW n \in 1..Products,
         n <= Len(taken[p][j]), n <= Len(taken[q][j])
  PROVE  taken[p][j][n] = taken[q][j][n]
<1>1. ASSUME NEW a \in Parties, NEW b \in Parties, n <= Len(taken[b][j]),
             Len(taken[a][j]) = Len(taken[b][j]) + 1
      PROVE  taken[a][j][n] = taken[b][j][n]
  <2>1. taken[a][j] = Append(taken[b][j], Head(Filled(b, j)))
    BY <1>1 DEF PairsInv
  <2>2. taken[b][j] \in Seq(Nat) /\ Head(Filled(b, j)) \in Nat /\ n \in 1..Len(taken[b][j])
    <3>1. Head(Filled(b, j)) \in Nat
      <4>1. Filled(b, j) \in Seq(Nat) /\ Filled(b, j) # << >>
        BY FilledIs
      <4> QED BY <4>1
    <3>2. taken[b][j] \in Seq(Nat)
      BY DEF TypeOK
    <3> QED BY <1>1, <3>1, <3>2
  <2> QED BY <2>1, <2>2
<1>2. /\ Len(taken[p][j]) <= Len(taken[q][j]) + 1 /\ Len(taken[q][j]) <= Len(taken[p][j]) + 1
      /\ Len(taken[p][j]) = Len(taken[q][j]) => taken[p][j] = taken[q][j]
  BY DEF PairsInv
<1>3. Len(taken[p][j]) \in Nat /\ Len(taken[q][j]) \in Nat
  BY SMTT(30) DEF TypeOK
<1>4. \/ Len(taken[p][j]) = Len(taken[q][j]) \/ Len(taken[p][j]) = Len(taken[q][j]) + 1
      \/ Len(taken[q][j]) = Len(taken[p][j]) + 1
  BY <1>2, <1>3
<1> QED BY <1>1, <1>2, <1>4

LEMMA PairsBelong == StepInv => TriplesBelongTogether
<1> SUFFICES ASSUME StepInv, ~ outOfStep,
                    NEW p \in Parties, NEW q \in Parties, NEW j \in Jobs, NEW n \in 1..Products,
                    n <= Len(taken[p][j]), n <= Len(taken[q][j])
             PROVE  taken[p][j][n] = taken[q][j][n]
  BY DEF TriplesBelongTogether
<1>1. TypeOK /\ PairsInv
  BY DEF StepInv
<1> QED BY <1>1, SameTriple

\* The n-th triple one party uses in a job belongs to the n-th of every other,
\* over the refills of the queues and from job to job under the same id, unless
\* a batch was served and lost, a job failed, or a job started where the last
\* one still ran.
THEOREM PartiesUseTheSameTriples == Spec => []TriplesBelongTogether
<1>1. Spec => []StepInv
  BY StepInit, StepStep, PTL DEF Spec
<1> QED BY <1>1, PairsBelong, PTL

-----------------------------------------------------------------------------
(* No number is drawn twice                                                 *)

LEMMA DrawInit == Init => DrawInv
<1> SUFFICES ASSUME Init PROVE DrawInv
  OBVIOUS
<1>1. /\ \A p \in Parties, j \in Jobs : ~ Inside(p, j) /\ ~ Drawn(p, j)
      /\ \A p \in Parties : DOMAIN rands[p] = {}
  BY DEF Init, Inside, Drawn
<1>2. \A p \in Parties : NumbersOK(p)
  BY <1>1 DEF NumbersOK
<1> QED BY <1>2, TypeInit DEF DrawInv

\* Filling an empty vector brings numbers larger than any before, and the
\* thread that goes in finds one.
LEMMA GenerateDraws ==
  ASSUME TypeOK, NEW p \in Parties, NEW j \in Jobs, Generate(p, j), NumbersOK(p),
         \A k \in Jobs : ~ Inside(p, k)
  PROVE  NumbersOK(p)'
<1>1. /\ pc[p][j] = "check" /\ number' = number
      /\ \A k \in Jobs : pc'[p][k] = IF k = j THEN "last" ELSE pc[p][k]
  BY DEF Generate, Goto, TypeOK
<1>2. /\ \A k \in Jobs : Inside(p, k)' <=> k = j
      /\ \A k \in Jobs : Drawn(p, k)' <=> Drawn(p, k)
      /\ \A k \in Jobs : pc'[p][k] # "pop" /\ pc[p][k] # "pop"
  BY <1>1 DEF Inside, Drawn
<1>3. /\ rands[p] \in Seq(Nat) /\ fresh[p] \in Nat /\ NHold \in Nat /\ NHold > 0
      /\ \A k \in Jobs : number[p][k] \in Nat
  BY RandomnessAssumption DEF TypeOK
<1>4. CASE rands[p] = << >>
  <2>1. rands'[p] = [n \in 1..NHold |-> fresh[p] + n] /\ fresh'[p] = fresh[p] + NHold
    BY <1>4 DEF Generate, TypeOK
  <2>2. /\ DOMAIN rands'[p] = 1..NHold /\ rands'[p] # << >>
        /\ \A n \in 1..NHold : rands'[p][n] = fresh[p] + n
    BY <1>3, <2>1
  <2>3. \A k \in Jobs : Drawn(p, k) => number[p][k] >= 1 /\ number[p][k] <= fresh[p]
    BY <1>3 DEF NumbersOK
  <2>4. /\ \A m \in DOMAIN rands'[p] : rands'[p][m] \in 1..fresh'[p]
        /\ \A m, n \in DOMAIN rands'[p] : rands'[p][m] = rands'[p][n] => m = n
    BY <1>3, <2>1, <2>2
  <2>5. \A k \in Jobs : Drawn(p, k)' =>
          /\ number'[p][k] \in 1..fresh'[p]
          /\ \A n \in DOMAIN rands'[p] : rands'[p][n] # number'[p][k]
    BY <1>1, <1>2, <1>3, <2>1, <2>2, <2>3
  <2>6. \A k, l \in Jobs : Drawn(p, k)' /\ Drawn(p, l)' /\ k # l => number'[p][k] # number'[p][l]
    BY <1>1, <1>2 DEF NumbersOK
  <2> QED BY <1>2, <2>2, <2>4, <2>5, <2>6 DEF NumbersOK
<1>5. CASE rands[p] # << >>
  <2>1. rands' = rands /\ fresh' = fresh
    BY <1>5 DEF Generate
  <2> QED BY <1>1, <1>2, <1>5, <2>1 DEF NumbersOK
<1> QED BY <1>4, <1>5

\* The number read is the last of the vector, which nobody has drawn.
LEMMA ReadLastDraws ==
  ASSUME TypeOK, NEW p \in Parties, NEW j \in Jobs, ReadLast(p, j), NumbersOK(p)
  PROVE  NumbersOK(p)'
<1>1. /\ pc[p][j] = "last" /\ rands' = rands /\ fresh' = fresh
      /\ \A k \in Jobs : pc'[p][k] = IF k = j THEN "pop" ELSE pc[p][k]
  BY DEF ReadLast, Goto, TypeOK
<1>2. /\ \A k \in Jobs : Inside(p, k)' <=> Inside(p, k)
      /\ \A k \in Jobs : Drawn(p, k)' <=> Drawn(p, k) \/ k = j
      /\ Inside(p, j) /\ ~ Drawn(p, j) /\ rands[p] # << >>
  BY <1>1 DEF Inside, Drawn, NumbersOK
<1>3. rands[p] \in Seq(Nat) /\ Len(rands[p]) \in DOMAIN rands[p]
  BY <1>2 DEF TypeOK
<1>4. \A k \in Jobs : number'[p][k] = IF k = j THEN rands[p][Len(rands[p])] ELSE number[p][k]
  BY <1>2 DEF ReadLast, TypeOK
<1>5. \A k \in Jobs : k # j => pc[p][k] # "pop"
  BY <1>2 DEF NumbersOK, Inside
<1>6. ASSUME NEW k \in Jobs, Drawn(p, k)'
      PROVE  /\ number'[p][k] \in 1..fresh'[p]
             /\ \A n \in DOMAIN rands'[p] : rands'[p][n] = number'[p][k] => pc'[p][k] = "pop"
             /\ pc'[p][k] = "pop" => number'[p][k] = rands'[p][Len(rands'[p])]
  <2>1. CASE k = j
    BY <2>1, <1>1, <1>3, <1>4 DEF NumbersOK
  <2>2. CASE k # j
    BY <2>2, <1>1, <1>2, <1>4, <1>5, <1>6 DEF NumbersOK
  <2> QED BY <2>1, <2>2
<1>7. ASSUME NEW k \in Jobs, NEW l \in Jobs, Drawn(p, k)', Drawn(p, l)', k # l
      PROVE  number'[p][k] # number'[p][l]
  BY <1>2, <1>3, <1>4, <1>5, <1>7 DEF NumbersOK
<1> QED BY <1>1, <1>2, <1>6, <1>7 DEF NumbersOK

\* The number that leaves the vector is the one the thread has read.
LEMMA PopBackDraws ==
  ASSUME TypeOK, NEW p \in Parties, NEW j \in Jobs, PopBack(p, j), NumbersOK(p)
  PROVE  NumbersOK(p)'
<1>1. /\ pc[p][j] = "pop" /\ number' = number /\ fresh' = fresh
      /\ rands'[p] = SubSeq(rands[p], 1, Len(rands[p]) - 1)
      /\ \A k \in Jobs : pc'[p][k] = IF k = j THEN "multiply" ELSE pc[p][k]
  BY DEF PopBack, Goto, TypeOK
<1>2. /\ \A k \in Jobs : Inside(p, k)' => Inside(p, k) /\ k # j
      /\ \A k \in Jobs : Drawn(p, k)' <=> Drawn(p, k)
      /\ Inside(p, j) /\ Drawn(p, j) /\ rands[p] # << >>
  BY <1>1 DEF Inside, Drawn, NumbersOK
<1>3. \A k \in Jobs : ~ Inside(p, k)' /\ pc'[p][k] # "pop"
  BY <1>2 DEF NumbersOK, Inside
<1>4. /\ rands[p] \in Seq(Nat) /\ Len(rands[p]) \in Nat \ {0}
      /\ DOMAIN rands[p] = 1..Len(rands[p])
  BY <1>2 DEF TypeOK
<1>5. /\ DOMAIN rands'[p] = 1..(Len(rands[p]) - 1)
      /\ \A n \in 1..(Len(rands[p]) - 1) : rands'[p][n] = rands[p][n]
  BY <1>1, <1>4
<1>6. \A n \in DOMAIN rands'[p] :
        n \in DOMAIN rands[p] /\ n # Len(rands[p]) /\ rands'[p][n] = rands[p][n]
  BY <1>4, <1>5
<1>7. number[p][j] = rands[p][Len(rands[p])] /\ Len(rands[p]) \in DOMAIN rands[p]
  BY <1>1, <1>2, <1>4 DEF NumbersOK
<1>8. ASSUME NEW k \in Jobs, Drawn(p, k), NEW n \in DOMAIN rands'[p]
      PROVE  rands'[p][n] # number[p][k]
  <2>1. CASE k = j
    BY <2>1, <1>6, <1>7 DEF NumbersOK
  <2>2. CASE k # j
    <3>1. pc[p][k] # "pop"
      BY <2>2, <1>2 DEF NumbersOK, Inside
    <3> QED BY <1>6, <1>8, <3>1 DEF NumbersOK
  <2> QED BY <2>1, <2>2
<1>9. /\ \A m \in DOMAIN rands'[p] : rands'[p][m] \in 1..fresh'[p]
      /\ \A m, n \in DOMAIN rands'[p] : rands'[p][m] = rands'[p][n] => m = n
  BY <1>1, <1>6 DEF NumbersOK
<1>10. /\ \A k \in Jobs : Drawn(p, k)' => number'[p][k] \in 1..fresh'[p]
       /\ \A k, l \in Jobs : Drawn(p, k)' /\ Drawn(p, l)' /\ k # l => number'[p][k] # number'[p][l]
  BY <1>1, <1>2 DEF NumbersOK
<1> QED BY <1>1, <1>2, <1>3, <1>8, <1>9, <1>10 DEF NumbersOK

\* Outside the generator a thread moves as it likes.
LEMMA OutsideKeeps ==
  ASSUME NEW p \in Parties, NumbersOK(p), UNCHANGED <<rands, fresh, number>>,
         \A k \in Jobs :
           \/ pc'[p][k] = pc[p][k]
           \/ pc[p][k] = "idle" /\ pc'[p][k] = "check"
           \/ pc[p][k] = "multiply" /\ pc'[p][k] \in {"ended", "failed"}
  PROVE  NumbersOK(p)'
<1>1. \A k \in Jobs : /\ Inside(p, k)' <=> Inside(p, k)
                      /\ Drawn(p, k)' <=> Drawn(p, k)
                      /\ pc'[p][k] = "pop" <=> pc[p][k] = "pop"
  BY DEF Inside, Drawn
<1> QED BY <1>1 DEF NumbersOK

LEMMA DrawStep == DrawInv /\ [Next]_vars => DrawInv'
<1> SUFFICES ASSUME DrawInv, [Next]_vars PROVE DrawInv'
  OBVIOUS
<1>1. TypeOK /\ TypeOK'
  BY TypeStep DEF DrawInv
\* A step of party p's thread disturbs nothing at another party.
<1>2. ASSUME NEW p \in Parties, NEW j \in Jobs,
             \A q \in Parties : q # p =>
               /\ pc'[q] = pc[q] /\ rands'[q] = rands[q] /\ fresh'[q] = fresh[q]
               /\ number'[q] = number[q] /\ overlap'[q] = overlap[q],
             ~ overlap'[p] /\ ~ overlap[p] /\ NumbersOK(p) => NumbersOK(p)',
             ~ overlap'[p] => ~ overlap[p]
      PROVE  DrawInv'
  <2>1. \A q \in Parties : q # p => (NumbersOK(q)' <=> NumbersOK(q))
    BY <1>2 DEF NumbersOK, Inside, Drawn
  <2>2. \A q \in Parties : ~ overlap[q] => NumbersOK(q)
    BY DEF DrawInv
  <2>3. \A q \in Parties : ~ overlap'[q] => NumbersOK(q)'
    BY <1>2, <2>1, <2>2
  <2> QED BY <1>1, <2>3 DEF DrawInv
<1>3. ASSUME NEW p \in Parties, NEW j \in Jobs, Generate(p, j) PROVE DrawInv'
  <2>1. \A q \in Parties : q # p =>
          /\ pc'[q] = pc[q] /\ rands'[q] = rands[q] /\ fresh'[q] = fresh[q]
          /\ number'[q] = number[q] /\ overlap'[q] = overlap[q]
    <3>1. \A q \in Parties : q # p => pc'[q] = pc[q] /\ number'[q] = number[q]
      BY <1>1, <1>3 DEF Generate, Goto, TypeOK
    <3>2. \A q \in Parties : q # p => rands'[q] = rands[q] /\ fresh'[q] = fresh[q]
      BY <1>1, <1>3 DEF Generate, TypeOK
    <3>3. \A q \in Parties : q # p => overlap'[q] = overlap[q]
      BY <1>1, <1>3 DEF Generate, TypeOK
    <3> QED BY <3>1, <3>2, <3>3
  <2>2. overlap'[p] = (overlap[p] \/ \E k \in Jobs : Inside(p, k))
    BY <1>1, <1>3 DEF Generate, TypeOK
  <2>3. ~ overlap'[p] /\ NumbersOK(p) => NumbersOK(p)'
    BY <1>1, <1>3, <2>2, GenerateDraws
  <2> QED BY <1>2, <2>1, <2>2, <2>3
<1>4. ASSUME NEW p \in Parties, NEW j \in Jobs, ReadLast(p, j) \/ PopBack(p, j) PROVE DrawInv'
  <2>1. \A q \in Parties : q # p =>
          /\ pc'[q] = pc[q] /\ rands'[q] = rands[q] /\ fresh'[q] = fresh[q]
          /\ number'[q] = number[q] /\ overlap'[q] = overlap[q]
    BY <1>1, <1>4 DEF ReadLast, PopBack, Goto, TypeOK
  <2>2. overlap' = overlap
    BY <1>4 DEF ReadLast, PopBack
  <2>3. NumbersOK(p) => NumbersOK(p)'
    BY <1>1, <1>4, ReadLastDraws, PopBackDraws
  <2> QED BY <1>2, <2>1, <2>2, <2>3
\* The rest leaves the generator alone.
<1>5. ASSUME UNCHANGED <<rands, fresh, number, overlap>>,
             \A q \in Parties, k \in Jobs :
               \/ pc'[q][k] = pc[q][k]
               \/ pc[q][k] = "idle" /\ pc'[q][k] = "check"
               \/ pc[q][k] = "multiply" /\ pc'[q][k] \in {"ended", "failed"}
      PROVE  DrawInv'
  <2>1. \A q \in Parties : NumbersOK(q) => NumbersOK(q)'
    BY <1>5, OutsideKeeps
  <2> QED BY <1>1, <1>5, <2>1 DEF DrawInv
<1>6. ASSUME NEW p \in Parties, NEW j \in Jobs, Start(p, j) PROVE DrawInv'
  <2>1. pc[p][j] = "idle" /\ pc' = [pc EXCEPT ![p][j] = "check"] /\ UNCHANGED randVars
    BY <1>6 DEF Start, Goto
  <2>2. \A q \in Parties, k \in Jobs :
          pc'[q][k] = pc[q][k] \/ (pc[q][k] = "idle" /\ pc'[q][k] = "check")
    BY <1>1, <2>1 DEF TypeOK
  <2> QED BY <1>5, <2>1, <2>2 DEF randVars
<1>7. ASSUME NEW p \in Parties, NEW j \in Jobs, End(p, j) \/ ReadTriplesFails(p, j)
      PROVE  DrawInv'
  <2>1. /\ pc[p][j] = "multiply" /\ UNCHANGED randVars
        /\ \/ pc' = pc
           \/ \E point \in {"ended", "failed"} : pc' = [pc EXCEPT ![p][j] = point]
    BY <1>7 DEF End, ReadTriplesFails, Multiplying, Goto
  <2>2. \A q \in Parties, k \in Jobs :
          \/ pc'[q][k] = pc[q][k]
          \/ pc[q][k] = "multiply" /\ pc'[q][k] \in {"ended", "failed"}
    <3>1. pc \in [Parties -> [Jobs -> Points]]
      BY <1>1 DEF TypeOK
    <3>2. CASE pc' = pc
      BY <3>2
    <3>3. ASSUME NEW point \in {"ended", "failed"}, pc' = [pc EXCEPT ![p][j] = point]
          PROVE  \A q \in Parties, k \in Jobs :
                   \/ pc'[q][k] = pc[q][k]
                   \/ pc[q][k] = "multiply" /\ pc'[q][k] \in {"ended", "failed"}
      BY <2>1, <3>1, <3>3
    <3> QED BY <2>1, <3>2, <3>3
  <2> QED BY <1>5, <2>1, <2>2 DEF randVars
<1>8. ASSUME NEW p \in Parties, NEW j \in Jobs, TakeOutTriple(p, j) PROVE DrawInv'
  BY <1>5, <1>8 DEF TakeOutTriple, randVars
<1>9. CASE UNCHANGED vars
  BY <1>5, <1>9 DEF vars, randVars
<1> QED BY <1>3, <1>4, <1>6, <1>7, <1>8, <1>9 DEF Next, Step

\* Random numbers are handed out once each by the generator of a container, over
\* its refills, unless two of its threads were inside at the same time.
THEOREM NoNumberIsDrawnTwice == Spec => []NumbersUsedOnce
<1>1. Spec => []DrawInv
  BY DrawInit, DrawStep, PTL DEF Spec
<1>2. DrawInv => NumbersUsedOnce
  <2> SUFFICES ASSUME DrawInv, NEW p \in Parties, ~ overlap[p],
                      NEW j \in Jobs, NEW k \in Jobs, Drawn(p, j), Drawn(p, k)
               PROVE  number[p][j] # 0 /\ (j # k => number[p][j] # number[p][k])
    BY DEF NumbersUsedOnce, Drawn
  <2>1. NumbersOK(p)
    BY DEF DrawInv
  <2>2. number[p][j] \in 1..fresh[p] /\ (j # k => number[p][j] # number[p][k])
    BY <2>1 DEF NumbersOK
  <2> QED BY <2>2
<1> QED BY <1>1, <1>2, PTL
=============================================================================
