----------------------------- MODULE Randomness -----------------------------
(***************************************************************************)
(* What the threads of a job draw: random numbers from the generator of    *)
(* their container, Random/Random.cpp, and Beaver triples,                 *)
(* TripleHandler/TripleHandler.hpp with ComputationToBts/Client.cpp.  The  *)
(* jobs here run one after the other under one job id, as JobManager hands *)
(* ids out: the next one starts when SP's thread of the last one has       *)
(* ended.  A thread draws a number, then multiplies Products times.  The   *)
(* parties meet in every product, as ShareExchange shows.                  *)
(***************************************************************************)
EXTENDS Integers, Sequences

CONSTANTS Parties, SP,
          Jobs,       \* 1..n, in the order they start
          Products,   \* products a job computes
          Threshold,  \* TripleHandler::threshold
          NHold,      \* n_hold, the numbers generated at once
          MaxErrors

ASSUME RandomnessAssumption ==
  /\ SP \in Parties /\ Jobs \subseteq Nat /\ Products \in Nat
  /\ Threshold \in Nat \ {0} /\ NHold \in Nat \ {0} /\ MaxErrors \in Nat

VARIABLES
  pc,        \* where party p's thread of job j is: "idle", "check", "last" or "pop" in
             \* generateRand, "multiply", "ended" or "failed"
  rands,     \* RandGenerator::rands of a party
  fresh,     \* how many numbers it has generated
  number,    \* the number a thread has drawn; 0 is no random number
  overlap,   \* whether two threads were in generateRand at once
  queue,     \* triple_fp_queue of a thread
  served,    \* triples the service has handed to a party, for the job id
  taken,     \* the triples a thread has used, in order
  outOfStep, \* whether the parties may have been served differently
  errors

randVars == <<rands, fresh, number, overlap>>
tripleVars == <<queue, served, taken, outOfStep>>
vars == <<pc, randVars, tripleVars, errors>>

Init ==
  /\ pc = [p \in Parties |-> [j \in Jobs |-> "idle"]]
  /\ rands = [p \in Parties |-> << >>] /\ fresh = [p \in Parties |-> 0]
  /\ number = [p \in Parties |-> [j \in Jobs |-> 0]] /\ overlap = [p \in Parties |-> FALSE]
  /\ queue = [p \in Parties |-> [j \in Jobs |-> << >>]]
  /\ served = [p \in Parties |-> 0]
  /\ taken = [p \in Parties |-> [j \in Jobs |-> << >>]]
  /\ outOfStep = FALSE /\ errors = 0

Goto(p, j, point) == pc' = [pc EXCEPT ![p][j] = point]
Ended(p, j) == pc[p][j] \in {"ended", "failed"}

\* ExecuteComputeFromSP: a new thread, with its own empty queue.
Start(p, j) ==
  /\ pc[p][j] = "idle"
  /\ \A k \in Jobs : k < j => Ended(SP, k) /\ pc[p][k] # "idle"
  /\ Goto(p, j, "check")
  /\ outOfStep' = (outOfStep \/ \E k \in Jobs : k < j /\ ~ Ended(p, k))
  /\ UNCHANGED <<randVars, queue, served, taken, errors>>

-----------------------------------------------------------------------------
(* generateRand, without a lock.                                            *)

Inside(p, j) == pc[p][j] \in {"last", "pop"}

\* The vector is filled when it is empty.
Generate(p, j) ==
  /\ pc[p][j] = "check"
  /\ IF rands[p] = << >>
     THEN /\ rands' = [rands EXCEPT ![p] = [n \in 1..NHold |-> fresh[p] + n]]
          /\ fresh' = [fresh EXCEPT ![p] = @ + NHold]
     ELSE UNCHANGED <<rands, fresh>>
  /\ overlap' = [overlap EXCEPT ![p] = @ \/ \E k \in Jobs : Inside(p, k)]
  /\ Goto(p, j, "last")
  /\ UNCHANGED <<number, tripleVars, errors>>

\* Its last element is read; an empty vector has none.
ReadLast(p, j) ==
  /\ pc[p][j] = "last"
  /\ number' = [number EXCEPT ![p][j] = IF rands[p] = << >> THEN 0 ELSE rands[p][Len(rands[p])]]
  /\ Goto(p, j, "pop")
  /\ UNCHANGED <<rands, fresh, overlap, tripleVars, errors>>

\* Mutant: the element stays.
PopBackNot(p, j) ==
  /\ pc[p][j] = "pop"
  /\ Goto(p, j, "multiply")
  /\ UNCHANGED <<randVars, tripleVars, errors>>

\* pop_back; of an empty vector it is undefined, and here the vector stays empty.
PopBack(p, j) ==
  /\ pc[p][j] = "pop"
  /\ rands' = [rands EXCEPT ![p] = SubSeq(@, 1, Len(@) - 1)]
  /\ Goto(p, j, "multiply")
  /\ UNCHANGED <<fresh, number, overlap, tripleVars, errors>>

-----------------------------------------------------------------------------
(* takeOutTriple and readTriples.                                           *)

\* External: the service hands the triples of a job id out in order, to each
\* party its share of them; the n-th of one party belongs to the n-th of the
\* others.
Batch(p) == [n \in 1..Threshold |-> served[p] + n]

\* The next product is due when all parties have made the last one.
Multiplying(p, j) ==
  /\ pc[p][j] = "multiply" /\ Len(taken[p][j]) < Products
  /\ \A q \in Parties : Len(taken[q][j]) >= Len(taken[p][j])

\* Mutant: front() without pop().
UseAndKeep(p, j, s) ==
  /\ taken' = [taken EXCEPT ![p][j] = Append(@, Head(s))]
  /\ queue' = [queue EXCEPT ![p][j] = s]

Use(p, j, s) ==
  /\ taken' = [taken EXCEPT ![p][j] = Append(@, Head(s))]
  /\ queue' = [queue EXCEPT ![p][j] = Tail(s)]

\* A thread with fewer than Threshold triples asks for Threshold more.
TakeOutTriple(p, j) ==
  /\ Multiplying(p, j)
  /\ IF Len(queue[p][j]) < Threshold
     THEN /\ Use(p, j, queue[p][j] \o Batch(p))
          /\ served' = [served EXCEPT ![p] = @ + Threshold]
     ELSE Use(p, j, queue[p][j]) /\ UNCHANGED served
  /\ UNCHANGED <<pc, randVars, outOfStep, errors>>

\* Mutant: after an error the thread asks for half as many.
ReadTriplesFailsHalf(p, j) ==
  /\ Multiplying(p, j) /\ Len(queue[p][j]) < Threshold /\ errors < MaxErrors
  /\ errors' = errors + 1
  /\ queue' = [queue EXCEPT ![p][j] = @ \o SubSeq(Batch(p), 1, Threshold \div 2)]
  /\ served' = [served EXCEPT ![p] = @ + (Threshold \div 2)]
  /\ UNCHANGED <<pc, randVars, taken, outOfStep>>

\* A request that fails, carried out by the service or not: it is repeated at
\* once (DEADLINE_EXCEEDED, UNAVAILABLE, RESOURCE_EXHAUSTED), or the job fails.
ReadTriplesFails(p, j) ==
  /\ Multiplying(p, j) /\ Len(queue[p][j]) < Threshold /\ errors < MaxErrors
  /\ errors' = errors + 1
  /\ \/ /\ \/ UNCHANGED <<served, outOfStep>>
           \/ served' = [served EXCEPT ![p] = @ + Threshold] /\ outOfStep' = TRUE
        /\ UNCHANGED pc
     \/ /\ Goto(p, j, "failed") /\ outOfStep' = TRUE
        /\ served' \in {served, [served EXCEPT ![p] = @ + Threshold]}
  /\ UNCHANGED <<randVars, queue, taken>>

\* The thread ends and its queue is gone.
End(p, j) ==
  /\ pc[p][j] = "multiply" /\ Len(taken[p][j]) = Products
  /\ \A q \in Parties : Len(taken[q][j]) = Products
  /\ Goto(p, j, "ended")
  /\ queue' = [queue EXCEPT ![p][j] = << >>]
  /\ UNCHANGED <<randVars, served, taken, outOfStep, errors>>

Step(p, j) ==
  \/ Generate(p, j) \/ ReadLast(p, j) \/ PopBack(p, j)
  \/ TakeOutTriple(p, j) \/ ReadTriplesFails(p, j) \/ End(p, j)

Next == \E p \in Parties, j \in Jobs : Start(p, j) \/ Step(p, j)
Spec == Init /\ [][Next]_vars

-----------------------------------------------------------------------------
\* The triples two parties multiply with belong together, product by product,
\* over the queue's refills and from job to job under the same id, as long as
\* no batch was served and lost, no job failed, and no job started at a party
\* where the last one under the id still ran.
TriplesBelongTogether ==
  ~ outOfStep =>
    \A p, q \in Parties, j \in Jobs :
      \A n \in 1..Products :
        n <= Len(taken[p][j]) /\ n <= Len(taken[q][j]) => taken[p][j][n] = taken[q][j][n]

\* No triple is used for two products, by one thread or by two, whatever is
\* lost and however jobs overlap.
TriplesUsedOnce ==
  \A p \in Parties, j, k \in Jobs :
    \A m \in DOMAIN taken[p][j], n \in DOMAIN taken[p][k] :
      taken[p][j][m] = taken[p][k][n] => j = k /\ m = n

\* Every number is handed out once, unless two threads were in the generator
\* at the same time.
NumbersUsedOnce ==
  \A p \in Parties : ~ overlap[p] =>
    \A j, k \in Jobs : pc[p][j] \notin {"idle", "check", "last"} /\ pc[p][k] \notin {"idle", "check", "last"} =>
      /\ number[p][j] # 0
      /\ j # k => number[p][j] # number[p][k]

=============================================================================
