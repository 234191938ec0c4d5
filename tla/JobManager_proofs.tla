-------------------------- MODULE JobManager_proofs --------------------------
(***************************************************************************)
(* Proofs about the job manager and the ids it gives to jobs, for any      *)
(* parties, jobs, ids, rounds and shares, whatever requests and jobs fail. *)
(***************************************************************************)
EXTENDS JobManager, TransactionQueue, FiniteSetTheorems,
        FunctionTheorems, SequenceTheorems, TLAPS

-----------------------------------------------------------------------------
(* The threads                                                              *)

\* A thread that has started has one id.
ThreadsInv ==
  \A p \in Parties, j \in Runs :
    IF pc[p][j] = "idle" THEN jobId[p][j] = {} ELSE \E i \in JobIds : jobId[p][j] = {i}

\* Whatever is under way or in a mailbox carries an id its sender has.
NetInv == \A m \in net : m.job \in jobId[m.from][m.for]
BoxInv == \A p \in Parties : \A e \in shares[p] : e.key.job \in jobId[e.key.from][e.val]

\* A thread that waits for an answer has started.
WaitInv ==
  \A p \in Parties, j \in Runs, u \in Parties : send[p][j][u] = "sent" => pc[p][j] # "idle"

ThreadInv == ex!TypeOK /\ ThreadsInv /\ NetInv /\ BoxInv /\ WaitInv

-----------------------------------------------------------------------------
(* The manager                                                              *)

NotStarted(j) == \A p \in Parties : jobId[p][j] = {}
StartedUnder(j, i) == \A p \in Parties : jobId[p][j] = {i}

\* The manager deals with one request and one id at a time.
TurnInv ==
  /\ current = {} \/ \E j \in Jobs : current = {j}
  /\ currentId = {} \/ \E i \in JobIds : currentId = {i}
  /\ currentId # {} => current # {}
  /\ told # {} => currentId # {}

\* A request is new, in the queue once, with the manager, or was given to every
\* party under one id.
RequestInv ==
  /\ \A n \in DOMAIN reqQueue :
       /\ reqQueue[n] \in submitted /\ reqQueue[n] \notin current /\ NotStarted(reqQueue[n])
       /\ \A o \in DOMAIN reqQueue : reqQueue[n] = reqQueue[o] => n = o
  /\ \A j \in Jobs : j \notin submitted => NotStarted(j) /\ j \notin current
  /\ \A j \in current, p \in Parties : jobId[p][j] = IF p \in told THEN currentId ELSE {}
  /\ \A j \in Jobs \ current : NotStarted(j) \/ \E i \in JobIds : StartedUnder(j, i)

\* Where the uses of an id are, and how many there are.
WithManager(i) == IF i \in currentId /\ SP \notin told THEN 1 ELSE 0
Original(i) == IF i <= maxJobNum THEN 1 ELSE 0
Balance(i) ==
  Cardinality(Copies(i)) + Cardinality(HeldAtSP(i)) + WithManager(i)
    = Original(i) + Cardinality(TwinsAtSP(i))

\* An id is used once, and once more for each repeated start; and the id the
\* manager has taken is no longer with another job.
IdInv ==
  /\ \A j \in returned : Ended(SP, j)
  /\ \A i \in JobIds : Balance(i)
  /\ ~ RepeatedStart => \A i \in currentId, j \in Jobs \ current : j \notin HeldAtSP(i)

ManagerInv == TypeOK /\ TurnInv /\ RequestInv /\ IdInv

-----------------------------------------------------------------------------
(* Jobs under one id                                                        *)

\* Something of the job can still meet another job under its id.
Live(j) ==
  \/ \E p \in Parties : pc[p][j] \in {"open", "recons"} \/ \E e \in shares[p] : e.val = j
  \/ \E m \in net : m.for = j

OneLiveJob ==
  \A j, k \in Runs : \A p, u \in Parties : \A i \in jobId[p][j] :
    i \in jobId[u][k] /\ Live(j) /\ Live(k) => j = k

ApartInv == overtaken = {} /\ ~ RepeatedStart => OneLiveJob /\ ex!OnlyOwnShares

\* The inductive invariant.
JobsInv == ThreadInv /\ ManagerInv /\ ApartInv

-----------------------------------------------------------------------------
(* Facts the steps share                                                    *)

LEMMA ShareIdsNat == \A r \in Nat : ex!ShareIds(r) \subseteq Nat
BY ManagerAssumption DEF ex!ShareIds

\* A running thread sends requests under its id.
LEMMA RequestFacts ==
  ASSUME ThreadInv, NEW p \in Parties, NEW j \in Runs, NEW u \in Parties, pc[p][j] # "idle"
  PROVE  /\ ex!Request(p, j, u) \in ex!Requests
         /\ ex!Request(p, j, u).job \in jobId[p][j]
         /\ ex!Request(p, j, u).from = p /\ ex!Request(p, j, u).for = j
         /\ ex!Request(p, j, u).to = u
<1>1. PICK i \in JobIds : jobId[p][j] = {i}
  BY DEF ThreadInv, ThreadsInv
<1>2. ex!IdOf(p, j) = i
  BY <1>1 DEF ex!IdOf
<1>3. round[p][j] \in Nat /\ try[p][j][u] \in Nat
  BY DEF ThreadInv, ex!TypeOK
<1> QED BY <1>1, <1>2, <1>3 DEF ex!Request, ex!Requests

\* What a handler that reads shares of a request leaves in a mailbox.
LEMMA StoredFacts ==
  ASSUME NEW box \in SUBSET ex!Entries, NEW m \in ex!Requests, NEW ids \in SUBSET Nat
  PROVE  /\ ex!Stored(box, m, ids) \in SUBSET ex!Entries
         /\ \A e \in ex!Stored(box, m, ids) :
              e \in box \/ (e.key.from = m.from /\ e.key.job = m.job /\ e.val = m.for)
<1> DEFINE new == {[key |-> [from |-> m.from, share |-> s, job |-> m.job],
                    val |-> m.for] : s \in ids}
<1>1. m.from \in Parties /\ m.job \in JobIds /\ m.for \in Runs
  BY DEF ex!Requests
<1>2. \A e \in new : e \in ex!Entries /\ e.key.from = m.from /\ e.key.job = m.job /\ e.val = m.for
  <2> SUFFICES ASSUME NEW e \in new
               PROVE  e \in ex!Entries /\ e.key.from = m.from /\ e.key.job = m.job /\ e.val = m.for
    OBVIOUS
  <2>1. PICK s \in ids : e = [key |-> [from |-> m.from, share |-> s, job |-> m.job], val |-> m.for]
    OBVIOUS
  <2>2. [from |-> m.from, share |-> s, job |-> m.job] \in ex!Addresses
    BY <1>1 DEF ex!Addresses
  <2> QED BY <1>1, <2>1, <2>2 DEF ex!Entries
<1>3. ex!Stored(box, m, ids) \subseteq box \cup new
  BY DEF ex!Stored
<1> QED BY <1>2, <1>3

-----------------------------------------------------------------------------
(* The steps of threads that have started                                   *)

\* They start nothing: no thread gets an id, what has ended stays so, and no job
\* comes to life.
Subsides ==
  /\ jobId' = jobId
  /\ \A p \in Parties, j \in Runs : /\ pc[p][j] = "idle" <=> pc'[p][j] = "idle"
                                    /\ Ended(p, j) => Ended(p, j)'
  /\ \A j \in Runs : Live(j)' => Live(j)

\* What a step of a thread shows: the invariant of the threads, and the rest.
Kept == ThreadInv' /\ Subsides /\ UNCHANGED taken

LEMMA SendKeeps ==
  ASSUME ThreadInv, NEW p \in Parties, NEW j \in Runs, NEW u \in Parties, ex!Send(p, j, u)
  PROVE  Kept
<1> DEFINE m == ex!Request(p, j, u)
<1>1. pc[p][j] = "open" /\ net' = net \cup {m} /\ UNCHANGED <<shares, pc, round, try, left, taken, errors, jobId>>
      /\ send' = [send EXCEPT ![p][j][u] = "sent"]
  BY DEF ex!Send
<1>2. m \in ex!Requests /\ m.job \in jobId[p][j] /\ m.from = p /\ m.for = j
  BY <1>1, RequestFacts
<1> HIDE DEF m
<1>3. ex!TypeOK'
  BY <1>1, <1>2 DEF ThreadInv, ex!TypeOK
<1>4. NetInv'
  BY <1>1, <1>2 DEF ThreadInv, NetInv
<1>5. WaitInv'
  BY <1>1 DEF ThreadInv, ex!TypeOK, WaitInv
<1>6. ThreadsInv' /\ BoxInv'
  BY <1>1 DEF ThreadInv, ThreadsInv, BoxInv
<1>7. Subsides
  BY <1>1, <1>2 DEF Subsides, Ended, Live
<1> QED BY <1>1, <1>3, <1>4, <1>5, <1>6, <1>7 DEF Kept, ThreadInv

\* Shares of a request that was under way are read into a mailbox.
LEMMA ReadKeeps ==
  ASSUME ThreadInv, NEW m \in net, NEW ids \in SUBSET Nat,
         shares' = [shares EXCEPT ![m.to] = ex!Stored(shares[m.to], m, ids)]
  PROVE  /\ shares' \in [Parties -> SUBSET ex!Entries]
         /\ \A p \in Parties : \A e \in shares'[p] : e.key.job \in jobId[e.key.from][e.val]
         /\ \A p \in Parties : \A e \in shares'[p] : e \in shares[p] \/ e.val = m.for
<1>1. m \in ex!Requests /\ m.to \in Parties /\ m.job \in jobId[m.from][m.for]
  BY DEF ThreadInv, ex!TypeOK, ex!Requests, NetInv
<1>2. shares[m.to] \in SUBSET ex!Entries
  BY <1>1 DEF ThreadInv, ex!TypeOK
<1> DEFINE box == ex!Stored(shares[m.to], m, ids)
<1>3. /\ box \in SUBSET ex!Entries
      /\ \A e \in box : \/ e \in shares[m.to]
                        \/ e.key.from = m.from /\ e.key.job = m.job /\ e.val = m.for
  BY <1>1, <1>2, StoredFacts
<1>4. shares' = [shares EXCEPT ![m.to] = box]
  OBVIOUS
<1> HIDE DEF box
<1>5. shares' \in [Parties -> SUBSET ex!Entries]
  BY <1>1, <1>3, <1>4 DEF ThreadInv, ex!TypeOK
<1>6. \A p \in Parties : shares'[p] = IF p = m.to THEN box ELSE shares[p]
  BY <1>1, <1>4 DEF ThreadInv, ex!TypeOK
<1>7. \A p \in Parties : \A e \in shares'[p] :
        e \in shares[p] \/ (e.key.from = m.from /\ e.key.job = m.job /\ e.val = m.for)
  BY <1>3, <1>6
<1> QED BY <1>1, <1>5, <1>7 DEF ThreadInv, BoxInv

LEMMA ExchangeKeeps ==
  ASSUME ThreadInv, NEW m \in net, ex!ExchangeShares(m)
  PROVE  Kept
<1>1. m.from \in Parties /\ m.for \in Runs /\ m.to \in Parties /\ m.round \in Nat
  BY DEF ThreadInv, ex!TypeOK, ex!Requests
<1>2. /\ shares' = [shares EXCEPT ![m.to] = ex!Stored(shares[m.to], m, ex!ShareIds(m.round))]
      /\ net' \subseteq net /\ UNCHANGED <<pc, round, try, left, taken, errors, jobId>>
  BY DEF ex!ExchangeShares
<1>3. PICK s \in {"sent", "todo", "done"} :
        send' = [send EXCEPT ![m.from][m.for][m.to] = s]
        /\ (s = "sent" => send[m.from][m.for][m.to] = "sent")
  <2> DEFINE old == send[m.from][m.for][m.to]
             s == IF ex!Answers(m) THEN "done" ELSE old
  <2>1. old \in {"sent", "todo", "done"}
    BY <1>1 DEF ThreadInv, ex!TypeOK
  <2>2. s \in {"sent", "todo", "done"} /\ (s = "sent" => old = "sent")
    BY <2>1
  <2>3. send' = [send EXCEPT ![m.from][m.for][m.to] = s]
    BY Zenon DEF ex!ExchangeShares
  <2> QED BY <2>2, <2>3
<1>4. /\ shares' \in [Parties -> SUBSET ex!Entries]
      /\ \A p \in Parties : \A e \in shares'[p] : e.key.job \in jobId[e.key.from][e.val]
      /\ \A p \in Parties : \A e \in shares'[p] : e \in shares[p] \/ e.val = m.for
  BY <1>1, <1>2, ShareIdsNat, ReadKeeps
<1>5. ex!TypeOK'
  BY SMTT(30), <1>1, <1>2, <1>3, <1>4 DEF ThreadInv, ex!TypeOK
<1>6. WaitInv'
  BY <1>1, <1>2, <1>3 DEF ThreadInv, ex!TypeOK, WaitInv
<1>7. ThreadsInv' /\ NetInv' /\ BoxInv'
  BY <1>2, <1>4 DEF ThreadInv, ThreadsInv, NetInv, BoxInv
<1>8. Subsides
  BY <1>2, <1>4 DEF Subsides, Ended, Live
<1> QED BY <1>2, <1>5, <1>6, <1>7, <1>8 DEF Kept, ThreadInv

LEMMA SendFailsKeeps ==
  ASSUME ThreadInv, NEW p \in Parties, NEW j \in Runs, NEW u \in Parties, ex!SendFails(p, j, u)
  PROVE  Kept
<1> DEFINE m == ex!Request(p, j, u)
<1>1. /\ send' = [send EXCEPT ![p][j][u] = "todo"]
      /\ try' = [try EXCEPT ![p][j][u] = @ + 1] /\ errors' = errors + 1
      /\ net' \subseteq net /\ UNCHANGED <<pc, round, left, taken, jobId>>
  BY DEF ex!SendFails
<1>2. /\ shares' \in [Parties -> SUBSET ex!Entries]
      /\ \A o \in Parties : \A e \in shares'[o] : e.key.job \in jobId[e.key.from][e.val]
      /\ \A o \in Parties : \A e \in shares'[o] : e \in shares[o] \/ \E n \in net : e.val = n.for
  <2>1. CASE UNCHANGED shares
    BY <2>1 DEF ThreadInv, ex!TypeOK, BoxInv
  <2>2. CASE /\ m \in net
             /\ \E n \in 0..Width :
                  LET ids == {s \in ex!ShareIds(round[p][j]) : s < round[p][j] * Width + n}
                  IN shares' = [shares EXCEPT ![u] = ex!Stored(@, m, ids)]
    <3>1. round[p][j] \in Nat
      BY DEF ThreadInv, ex!TypeOK
    <3>2. PICK ids \in SUBSET Nat : shares' = [shares EXCEPT ![u] = ex!Stored(shares[u], m, ids)]
      BY <2>2, <3>1, ShareIdsNat
    <3>3. m.to = u /\ m \in net
      BY <2>2 DEF ex!Request
    <3> HIDE DEF m
    <3>4. shares' = [shares EXCEPT ![m.to] = ex!Stored(shares[m.to], m, ids)]
      BY <3>2, <3>3
    <3>5. /\ shares' \in [Parties -> SUBSET ex!Entries]
          /\ \A o \in Parties : \A e \in shares'[o] : e.key.job \in jobId[e.key.from][e.val]
          /\ \A o \in Parties : \A e \in shares'[o] : e \in shares[o] \/ e.val = m.for
      BY <3>3, <3>4, ReadKeeps
    <3> QED BY <3>3, <3>5
  <2> QED BY <2>1, <2>2 DEF ex!SendFails
<1>3. ex!TypeOK'
  <2>1. shares' \in [Parties -> SUBSET ex!Entries]
    BY <1>2
  <2>2. try' \in [Parties -> [Runs -> [Parties -> Nat]]]
    BY <1>1 DEF ThreadInv, ex!TypeOK
  <2>3. send' \in [Parties -> [Runs -> [Parties -> {"todo", "sent", "done"}]]]
    BY <1>1 DEF ThreadInv, ex!TypeOK
  <2> HIDE DEF m
  <2> QED BY <1>1, <2>1, <2>2, <2>3 DEF ThreadInv, ex!TypeOK
<1>4. WaitInv'
  BY <1>1 DEF ThreadInv, ex!TypeOK, WaitInv
<1>5. ThreadsInv' /\ NetInv' /\ BoxInv'
  BY <1>1, <1>2 DEF ThreadInv, ThreadsInv, NetInv, BoxInv
<1>6. Subsides
  BY <1>1, <1>2 DEF Subsides, Ended, Live
<1> QED BY <1>1, <1>3, <1>4, <1>5, <1>6 DEF Kept, ThreadInv

LEMMA OpenDoneKeeps ==
  ASSUME ThreadInv, NEW p \in Parties, NEW j \in Runs, ex!OpenDone(p, j)
  PROVE  Kept
<1>1. /\ pc[p][j] = "open" /\ pc' = [pc EXCEPT ![p][j] = "recons"]
      /\ left' = [left EXCEPT ![p][j] = ex!Others(p) \X ex!ShareIds(round[p][j])]
      /\ UNCHANGED <<shares, net, round, send, try, taken, errors, jobId>>
  BY DEF ex!OpenDone, ex!Goto
<1>2. ex!Others(p) \X ex!ShareIds(round[p][j]) \in SUBSET (Parties \X Nat)
  BY ShareIdsNat DEF ThreadInv, ex!TypeOK, ex!Others
<1>3. ex!TypeOK'
  BY <1>1, <1>2 DEF ThreadInv, ex!TypeOK
<1>4. \A o \in Parties, k \in Runs : /\ pc'[o][k] = "idle" <=> pc[o][k] = "idle"
                                     /\ Ended(o, k) => Ended(o, k)'
                                     /\ pc'[o][k] \in {"open", "recons"} => pc[o][k] \in {"open", "recons"}
  BY <1>1 DEF ThreadInv, ex!TypeOK, Ended
<1>5. ThreadsInv' /\ WaitInv' /\ NetInv' /\ BoxInv'
  BY <1>1, <1>4 DEF ThreadInv, ThreadsInv, WaitInv, NetInv, BoxInv
<1>6. Subsides
  BY <1>1, <1>4 DEF Subsides, Live
<1> QED BY <1>1, <1>3, <1>5, <1>6 DEF Kept, ThreadInv

LEMMA ReconsDoneKeeps ==
  ASSUME ThreadInv, NEW p \in Parties, NEW j \in Runs, ex!ReconsDone(p, j)
  PROVE  Kept
<1>1. PICK label \in {"open", "done"} : pc' = [pc EXCEPT ![p][j] = label]
  BY DEF ex!ReconsDone, ex!Goto
<1>2. /\ pc[p][j] = "recons"
      /\ round' = [round EXCEPT ![p][j] = @ + 1]
      /\ send' = [send EXCEPT ![p][j] = [u \in Parties |-> "todo"]]
      /\ try' = [try EXCEPT ![p][j] = [u \in Parties |-> 0]]
      /\ UNCHANGED <<shares, net, left, taken, errors, jobId>>
  BY DEF ex!ReconsDone
<1>3. ex!TypeOK'
  BY <1>1, <1>2 DEF ThreadInv, ex!TypeOK
<1>4. \A o \in Parties, k \in Runs : /\ pc'[o][k] = "idle" <=> pc[o][k] = "idle"
                                     /\ Ended(o, k) => Ended(o, k)'
                                     /\ pc'[o][k] \in {"open", "recons"} => pc[o][k] \in {"open", "recons"}
  BY <1>1, <1>2 DEF ThreadInv, ex!TypeOK, Ended
<1>5. WaitInv'
  BY <1>2, <1>4 DEF ThreadInv, ex!TypeOK, WaitInv
<1>6. ThreadsInv' /\ NetInv' /\ BoxInv'
  BY <1>2, <1>4 DEF ThreadInv, ThreadsInv, NetInv, BoxInv
<1>7. Subsides
  BY <1>2, <1>4 DEF Subsides, Live
<1> QED BY <1>2, <1>3, <1>5, <1>6, <1>7 DEF Kept, ThreadInv

LEMMA JobFailsKeeps ==
  ASSUME ThreadInv, NEW p \in Parties, NEW j \in Runs, JobFails(p, j)
  PROVE  Kept
<1>1. /\ pc[p][j] = "open" /\ pc' = [pc EXCEPT ![p][j] = "failed"]
      /\ UNCHANGED <<shares, net, jobId, round, send, try, left, taken, errors>>
  BY DEF JobFails
<1>2. ex!TypeOK'
  BY <1>1 DEF ThreadInv, ex!TypeOK
<1>3. \A o \in Parties, k \in Runs : /\ pc'[o][k] = "idle" <=> pc[o][k] = "idle"
                                     /\ Ended(o, k) => Ended(o, k)'
                                     /\ pc'[o][k] \in {"open", "recons"} => pc[o][k] \in {"open", "recons"}
  BY <1>1 DEF ThreadInv, ex!TypeOK, Ended
<1>4. ThreadsInv' /\ WaitInv' /\ NetInv' /\ BoxInv'
  BY <1>1, <1>3 DEF ThreadInv, ThreadsInv, WaitInv, NetInv, BoxInv
<1>5. Subsides
  BY <1>1, <1>3 DEF Subsides, Live
<1> QED BY <1>1, <1>2, <1>4, <1>5 DEF Kept, ThreadInv

\* The step that matters: the share found under the thread's id is of a job that
\* is live under this id, and so is the thread's own.
LEMMA GetShareKeeps ==
  ASSUME ThreadInv, NEW p \in Parties, NEW j \in Runs, NEW u, NEW s, ex!GetShare(p, j, u, s)
  PROVE  ThreadInv' /\ Subsides /\ (OneLiveJob /\ ex!OnlyOwnShares => ex!OnlyOwnShares')
<1>1. PICK e \in shares[p] :
        /\ e.key = [from |-> u, share |-> s, job |-> ex!IdOf(p, j)]
        /\ shares' = [shares EXCEPT ![p] = @ \ {e}]
        /\ taken' = [taken EXCEPT ![p][j] = @ \cup {e.val}]
  BY Zenon DEF ex!GetShare
<1>2. /\ pc[p][j] = "recons"
      /\ left' = [left EXCEPT ![p][j] = @ \ {<<u, s>>}]
      /\ UNCHANGED <<net, pc, round, send, try, errors, jobId>>
  BY DEF ex!GetShare
<1>3. e.key.job = ex!IdOf(p, j) /\ e.val \in Runs /\ e.key.from \in Parties
  BY <1>1 DEF ThreadInv, ex!TypeOK, ex!Entries, ex!Addresses
<1>4. shares' = [shares EXCEPT ![p] = @ \ {e}] /\ taken' = [taken EXCEPT ![p][j] = @ \cup {e.val}]
  BY <1>1
<1>5. ex!TypeOK'
  BY <1>2, <1>3, <1>4 DEF ThreadInv, ex!TypeOK
<1>6. \A o \in Parties : shares'[o] \subseteq shares[o]
  BY <1>4 DEF ThreadInv, ex!TypeOK
<1>7. ThreadsInv' /\ WaitInv' /\ NetInv' /\ BoxInv'
  BY <1>2, <1>6 DEF ThreadInv, ThreadsInv, WaitInv, NetInv, BoxInv
<1>8. Subsides
  BY <1>2, <1>6 DEF Subsides, Ended, Live
<1>9. ASSUME OneLiveJob, ex!OnlyOwnShares PROVE ex!OnlyOwnShares'
  <2>1. ex!IdOf(p, j) \in jobId[p][j]
    BY <1>2 DEF ThreadInv, ThreadsInv, ex!IdOf
  <2>2. ex!IdOf(p, j) \in jobId[e.key.from][e.val]
    BY <1>3 DEF ThreadInv, BoxInv
  <2>3. Live(j) /\ Live(e.val)
    BY <1>2 DEF Live
  <2>4. e.val = j
    BY <1>3, <1>9, <2>1, <2>2, <2>3 DEF OneLiveJob
  <2> QED BY <1>4, <1>9, <2>4 DEF ThreadInv, ex!TypeOK, ex!OnlyOwnShares
<1> QED BY <1>5, <1>7, <1>8, <1>9 DEF ThreadInv

\* All of them.
LEMMA WorkKeeps ==
  ASSUME ThreadInv, ex!ExchangeNext
  PROVE  ThreadInv' /\ Subsides /\ (OneLiveJob /\ ex!OnlyOwnShares => ex!OnlyOwnShares')
<1>1. Kept => ThreadInv' /\ Subsides /\ (OneLiveJob /\ ex!OnlyOwnShares => ex!OnlyOwnShares')
  BY DEF Kept, ex!OnlyOwnShares
<1>2. ASSUME NEW p \in Parties, NEW j \in Runs, ex!Step(p, j)
      PROVE  ThreadInv' /\ Subsides /\ (OneLiveJob /\ ex!OnlyOwnShares => ex!OnlyOwnShares')
  BY <1>1, <1>2, SendKeeps, OpenDoneKeeps, ReconsDoneKeeps, GetShareKeeps DEF ex!Step
<1>3. ASSUME NEW p \in Parties, NEW j \in Runs, NEW u \in Parties, ex!SendFails(p, j, u)
      PROVE  Kept
  BY <1>3, SendFailsKeeps
<1>4. ASSUME NEW p \in Parties, ex!Handle(p) PROVE Kept
  BY <1>4, ExchangeKeeps DEF ex!Handle
<1> QED BY <1>1, <1>2, <1>3, <1>4 DEF ex!ExchangeNext

LEMMA SubsidingStarts == Subsides => (RepeatedStart' <=> RepeatedStart)
BY DEF Subsides, RepeatedStart, Runs

-----------------------------------------------------------------------------
(* Queues                                                                   *)

LEMMA TailFacts ==
  ASSUME NEW S, NEW s \in Seq(S), s # << >>
  PROVE  /\ 1 \in DOMAIN s /\ Head(s) = s[1] /\ Head(s) \in S /\ Tail(s) \in Seq(S)
         /\ \A n \in DOMAIN Tail(s) : n \in Nat /\ n + 1 \in DOMAIN s /\ n + 1 # 1 /\ Tail(s)[n] = s[n + 1]
         /\ \A n \in DOMAIN s : n # 1 => n - 1 \in DOMAIN Tail(s) /\ Tail(s)[n - 1] = s[n]
OBVIOUS

LEMMA AppendFacts ==
  ASSUME NEW S, NEW s \in Seq(S), NEW x \in S
  PROVE  /\ Append(s, x) \in Seq(S)
         /\ DOMAIN Append(s, x) = DOMAIN s \cup {Len(s) + 1} /\ Len(s) + 1 \notin DOMAIN s
         /\ \A n \in DOMAIN s : Append(s, x)[n] = s[n]
         /\ Append(s, x)[Len(s) + 1] = x
OBVIOUS

\* The places of an id after the head is taken.
LEMMA TailPlaces ==
  ASSUME idQueue \in Seq(JobIds), idQueue # << >>, idQueue' = Tail(idQueue), NEW v
  PROVE  /\ IsFiniteSet(Copies(v)) /\ IsFiniteSet(Copies(v)')
         /\ Cardinality(Copies(v)) = Cardinality(Copies(v)') + (IF v = Head(idQueue) THEN 1 ELSE 0)
<1> DEFINE A == Copies(v)
           B == Copies(v)'
           f == [n \in A \ {1} |-> n - 1]
<1>1. /\ 1 \in DOMAIN idQueue /\ Head(idQueue) = idQueue[1] /\ DOMAIN idQueue \subseteq Nat
      /\ \A n \in DOMAIN idQueue' : n \in Nat /\ n + 1 \in DOMAIN idQueue /\ n + 1 # 1
                                     /\ idQueue'[n] = idQueue[n + 1]
      /\ \A n \in DOMAIN idQueue : n # 1 => n - 1 \in DOMAIN idQueue' /\ idQueue'[n - 1] = idQueue[n]
  BY TailFacts
<1>2. IsFiniteSet(A)
  <2>1. DOMAIN idQueue = 1..Len(idQueue) /\ Len(idQueue) \in Nat
    OBVIOUS
  <2>2. IsFiniteSet(DOMAIN idQueue)
    BY <2>1, FS_Interval
  <2>3. A \in SUBSET DOMAIN idQueue
    BY DEF Copies
  <2> QED BY <2>2, <2>3, FS_Subset
<1>3. \A n \in A \ {1} : n \in Nat /\ n - 1 \in B
  BY <1>1 DEF Copies
<1>4. \A n \in B : n + 1 \in A \ {1} /\ (n + 1) - 1 = n
  BY <1>1 DEF Copies
<1>5. 1 \in A <=> v = Head(idQueue)
  BY <1>1 DEF Copies
<1> HIDE DEF A, B
<1>6. f \in Bijection(A \ {1}, B)
  <2>1. f \in [A \ {1} -> B]
    BY <1>3
  <2>2. \A n, o \in A \ {1} : f[n] = f[o] => n = o
    BY <1>3
  <2>3. \A n \in B : \E o \in A \ {1} : f[o] = n
    BY <1>4
  <2> QED BY <2>1, <2>2, <2>3, Fun_IsBij
<1>7. /\ IsFiniteSet(A \ {1})
      /\ Cardinality(A \ {1}) = IF 1 \in A THEN Cardinality(A) - 1 ELSE Cardinality(A)
  BY <1>2, FS_RemoveElement
<1>8. IsFiniteSet(B) /\ Cardinality(B) = Cardinality(A \ {1})
  <2> HIDE DEF f
  <2>1. ExistsBijection(A \ {1}, B)
    BY <1>6 DEF ExistsBijection
  <2> QED BY <1>7, <2>1, FS_Bijection
<1>9. Cardinality(A) \in Nat /\ Cardinality(B) \in Nat
  BY <1>2, <1>8, FS_CardinalityType
<1>10. Cardinality(A) = Cardinality(B) + (IF v = Head(idQueue) THEN 1 ELSE 0)
  BY <1>5, <1>7, <1>8, <1>9
<1> QED BY <1>2, <1>8, <1>10 DEF A, B

\* The uses of an id are finitely many.
LEMMA UsesAreFinite ==
  ASSUME TypeOK, NEW i
  PROVE  /\ IsFiniteSet(Copies(i)) /\ Cardinality(Copies(i)) \in Nat
         /\ IsFiniteSet(HeldAtSP(i)) /\ Cardinality(HeldAtSP(i)) \in Nat
         /\ IsFiniteSet(TwinsAtSP(i)) /\ Cardinality(TwinsAtSP(i)) \in Nat
<1>1. IsFiniteSet(Runs)
  BY ManagerAssumption, FS_Union DEF Runs
<1>2. IsFiniteSet(DOMAIN idQueue)
  <2>1. DOMAIN idQueue = 1..Len(idQueue) /\ Len(idQueue) \in Nat
    BY DEF TypeOK
  <2> QED BY <2>1, FS_Interval
<1>3. IsFiniteSet(Copies(i)) /\ IsFiniteSet(HeldAtSP(i)) /\ IsFiniteSet(TwinsAtSP(i))
  <2>1. Copies(i) \in SUBSET DOMAIN idQueue /\ HeldAtSP(i) \in SUBSET Runs /\ TwinsAtSP(i) \in SUBSET Runs
    BY DEF Copies, HeldAtSP, TwinsAtSP, Runs
  <2> QED BY <1>1, <1>2, <2>1, FS_Subset
<1> QED BY <1>3, FS_CardinalityType

\* A step that leaves the threads and the queue of ids.
LEMMA IdFrame ==
  ASSUME JobsInv, UNCHANGED <<jobId, pc, returned, idQueue, maxJobNum>>,
         \A i \in JobIds : WithManager(i)' = WithManager(i),
         \A i \in currentId', j \in Jobs \ current' : i \in currentId /\ j \notin current
  PROVE  IdInv'
<1>1. \A i : /\ Copies(i)' = Copies(i) /\ HeldAtSP(i)' = HeldAtSP(i) /\ TwinsAtSP(i)' = TwinsAtSP(i)
             /\ Original(i)' = Original(i)
  BY DEF Copies, HeldAtSP, TwinsAtSP, Original
<1>2. \A i \in JobIds : Balance(i)'
  BY <1>1 DEF JobsInv, ManagerInv, IdInv, Balance
<1>3. \A j \in returned' : Ended(SP, j)'
  BY DEF JobsInv, ManagerInv, IdInv, Ended
<1>4. ~ RepeatedStart' => \A i \in currentId', j \in Jobs \ current' : j \notin HeldAtSP(i)'
  BY <1>1 DEF JobsInv, ManagerInv, IdInv, RepeatedStart
<1> QED BY <1>2, <1>3, <1>4 DEF IdInv

-----------------------------------------------------------------------------
(* The inductive invariant, one lemma per step                              *)

LEMMA JobsInvInit == Init => JobsInv
<1> SUFFICES ASSUME Init PROVE JobsInv
  OBVIOUS
<1>1. ex!TypeOK
  BY ManagerAssumption DEF Init, ex!Init, ex!ForAllThreads, ex!TypeOK
<1>2. \A p \in Parties, j \in Runs : pc[p][j] = "idle" /\ jobId[p][j] = {} /\ taken[p][j] = {}
  BY DEF Init, ex!Init, ex!ForAllThreads
<1>3. net = {} /\ \A p \in Parties : shares[p] = {}
  BY DEF Init, ex!Init
<1>4. \A p \in Parties, j \in Runs, u \in Parties : send[p][j][u] = "todo"
  BY DEF Init, ex!Init, ex!ForAllThreads
<1>5. ThreadInv
  BY <1>1, <1>2, <1>3, <1>4 DEF ThreadInv, ThreadsInv, NetInv, BoxInv, WaitInv
<1>6. /\ maxJobNum \in 1..MaxJobNum /\ overtaken = {} /\ orphans = {} /\ submitted = {} /\ returned = {}
      /\ reqQueue = << >> /\ current = {} /\ currentId = {} /\ told = {}
      /\ idQueue = [i \in 1..maxJobNum |-> i]
  BY DEF Init, InitialIds
<1>7. idQueue \in Seq(JobIds)
  <2>1. \A i \in 1..maxJobNum : i \in JobIds
    BY <1>6, ManagerAssumption DEF JobIds
  <2>2. maxJobNum \in Nat
    BY <1>6, ManagerAssumption
  <2> QED BY <1>6, <2>1, <2>2
<1>8. TypeOK /\ TurnInv
  <2>1. overtaken \subseteq Overtaking /\ orphans \subseteq [to : Parties, run : Twins, id : JobIds]
    BY <1>6
  <2>2. reqQueue \in Seq(Jobs)
    BY <1>6
  <2> QED BY <1>1, <1>6, <1>7, <2>1, <2>2 DEF TypeOK, TurnInv
<1>9. RequestInv
  BY <1>2, <1>6 DEF RequestInv, NotStarted, Runs
<1>10. \A i : HeldAtSP(i) = {} /\ TwinsAtSP(i) = {} /\ WithManager(i) = 0
  BY <1>2, <1>6, ManagerAssumption DEF HeldAtSP, TwinsAtSP, WithManager, Runs
<1>11. \A i \in JobIds : Copies(i) = IF i <= maxJobNum THEN {i} ELSE {}
  BY <1>6, ManagerAssumption DEF Copies, JobIds
<1>12. \A i \in JobIds : Cardinality(Copies(i)) = Original(i)
  BY <1>11, FS_EmptySet, FS_Singleton DEF Original
<1>13. \A i \in JobIds : Balance(i)
  BY <1>10, <1>12, FS_EmptySet DEF Balance, Original
<1>14. IdInv
  BY <1>6, <1>13 DEF IdInv
<1>15. ApartInv
  BY <1>2 DEF ApartInv, OneLiveJob, ex!OnlyOwnShares
<1> QED BY <1>5, <1>8, <1>9, <1>14, <1>15 DEF JobsInv, ManagerInv

\* Steps of threads that have started.
LEMMA SubsidingKeepsInv ==
  ASSUME JobsInv, ThreadInv', Subsides, OneLiveJob /\ ex!OnlyOwnShares => ex!OnlyOwnShares',
         UNCHANGED managerVars
  PROVE  JobsInv'
<1> USE DEF managerVars
<1>1. TypeOK' /\ TurnInv'
  BY DEF JobsInv, ManagerInv, ThreadInv, TypeOK, TurnInv
<1>2. RequestInv'
  BY DEF JobsInv, ManagerInv, Subsides, RequestInv, NotStarted, StartedUnder
<1>3. \A j \in returned : Ended(SP, j)'
  BY ManagerAssumption DEF JobsInv, ManagerInv, TypeOK, IdInv, Subsides
<1>4. IdInv'
  <2>1. \A i : /\ Copies(i)' = Copies(i) /\ HeldAtSP(i)' = HeldAtSP(i) /\ TwinsAtSP(i)' = TwinsAtSP(i)
               /\ Original(i)' = Original(i) /\ WithManager(i)' = WithManager(i)
    BY DEF Subsides, Copies, HeldAtSP, TwinsAtSP, Original, WithManager
  <2>2. \A i \in JobIds : Balance(i)'
    BY <2>1 DEF JobsInv, ManagerInv, IdInv, Balance
  <2> QED BY <1>3, <2>1, <2>2, SubsidingStarts DEF JobsInv, ManagerInv, IdInv
<1>5. OneLiveJob => OneLiveJob'
  BY DEF OneLiveJob, Subsides
<1>6. ApartInv'
  BY <1>5, SubsidingStarts DEF JobsInv, ApartInv
<1> QED BY <1>1, <1>2, <1>4, <1>6 DEF JobsInv, ManagerInv

\* Steps of the manager alone leave the threads and what they took.
LEMMA ManagerFrame ==
  ASSUME JobsInv, UNCHANGED exchangeVars, UNCHANGED overtaken
  PROVE  ThreadInv' /\ ApartInv'
<1> USE DEF exchangeVars
<1>1. ThreadInv'
  BY DEF JobsInv, ThreadInv, ex!TypeOK, ThreadsInv, NetInv, BoxInv, WaitInv
<1>2. OneLiveJob => OneLiveJob'
  BY DEF OneLiveJob, Live
<1>3. ex!OnlyOwnShares => ex!OnlyOwnShares'
  BY DEF ex!OnlyOwnShares
<1>4. RepeatedStart' <=> RepeatedStart
  BY DEF RepeatedStart
<1> QED BY <1>1, <1>2, <1>3, <1>4 DEF JobsInv, ApartInv

LEMMA PushJobReqKeepsInv ==
  ASSUME JobsInv, NEW j \in Jobs, PushJobReq(j)
  PROVE  JobsInv'
<1>1. /\ j \notin submitted /\ submitted' = submitted \cup {j} /\ reqQueue' = Append(reqQueue, j)
      /\ UNCHANGED <<exchangeVars, idQueue, current, currentId, told, orphans, returned, maxJobNum, overtaken>>
  BY DEF PushJobReq
<1> USE DEF exchangeVars
<1>2. ThreadInv' /\ ApartInv'
  BY <1>1, ManagerFrame
<1>3. /\ reqQueue' \in Seq(Jobs)
      /\ DOMAIN reqQueue' = DOMAIN reqQueue \cup {Len(reqQueue) + 1} /\ Len(reqQueue) + 1 \notin DOMAIN reqQueue
      /\ \A n \in DOMAIN reqQueue : reqQueue'[n] = reqQueue[n]
      /\ reqQueue'[Len(reqQueue) + 1] = j
  BY <1>1, AppendFacts DEF JobsInv, ManagerInv, TypeOK
<1>4. TypeOK' /\ TurnInv'
  BY <1>1, <1>2, <1>3 DEF JobsInv, ManagerInv, ThreadInv, TypeOK, TurnInv
<1>5. \A k \in Jobs : NotStarted(k)' <=> NotStarted(k)
  BY <1>1 DEF NotStarted
<1>6. NotStarted(j) /\ j \notin current
  BY <1>1 DEF JobsInv, ManagerInv, RequestInv
<1>7. \A n \in DOMAIN reqQueue : reqQueue[n] \in Jobs /\ reqQueue[n] # j
  BY <1>1 DEF JobsInv, ManagerInv, TypeOK, RequestInv
<1>8. RequestInv'
  <2>1. \A n \in DOMAIN reqQueue' : reqQueue'[n] \in submitted' /\ reqQueue'[n] \notin current'
                                    /\ \A p \in Parties : jobId'[p][reqQueue'[n]] = {}
    BY <1>1, <1>3, <1>6 DEF JobsInv, ManagerInv, RequestInv, NotStarted
  <2>2. \A n, o \in DOMAIN reqQueue' : reqQueue'[n] = reqQueue'[o] => n = o
    BY <1>3, <1>7 DEF JobsInv, ManagerInv, RequestInv
  <2>3. \A k \in Jobs : k \notin submitted' => NotStarted(k)' /\ k \notin current'
    BY <1>1, <1>5 DEF JobsInv, ManagerInv, RequestInv
  <2>4. \A k \in current', p \in Parties : jobId'[p][k] = IF p \in told' THEN currentId' ELSE {}
    BY <1>1 DEF JobsInv, ManagerInv, RequestInv
  <2>5. \A k \in Jobs \ current' : NotStarted(k)' \/ \E i \in JobIds : StartedUnder(k, i)'
    BY <1>1, <1>5 DEF JobsInv, ManagerInv, RequestInv, StartedUnder
  <2> QED BY <2>1, <2>2, <2>3, <2>4, <2>5 DEF RequestInv, NotStarted
<1>9. IdInv'
  BY <1>1, IdFrame DEF WithManager
<1> QED BY <1>2, <1>4, <1>8, <1>9 DEF JobsInv, ManagerInv

LEMMA PollingPopJobReqKeepsInv ==
  ASSUME JobsInv, PollingPopJobReq
  PROVE  JobsInv'
<1> DEFINE j == Head(reqQueue)
<1>1. /\ current = {} /\ reqQueue # << >> /\ current' = {j} /\ reqQueue' = Tail(reqQueue)
      /\ UNCHANGED <<exchangeVars, submitted, idQueue, currentId, told, orphans, returned, maxJobNum, overtaken>>
  BY DEF PollingPopJobReq
<1> USE DEF exchangeVars
<1>2. ThreadInv' /\ ApartInv'
  BY <1>1, ManagerFrame
<1>3. /\ 1 \in DOMAIN reqQueue /\ j = reqQueue[1] /\ j \in Jobs /\ reqQueue' \in Seq(Jobs)
      /\ \A n \in DOMAIN reqQueue' : /\ n \in Nat /\ n + 1 \in DOMAIN reqQueue /\ n + 1 # 1
                                     /\ reqQueue'[n] = reqQueue[n + 1]
  BY <1>1, TailFacts DEF JobsInv, ManagerInv, TypeOK
<1> HIDE DEF j
<1>4. currentId = {} /\ told = {}
  BY <1>1 DEF JobsInv, ManagerInv, TurnInv
<1>5. TypeOK' /\ TurnInv'
  BY <1>1, <1>2, <1>3, <1>4 DEF JobsInv, ManagerInv, ThreadInv, TypeOK, TurnInv
<1>6. \A k \in Jobs : NotStarted(k)' <=> NotStarted(k)
  BY <1>1 DEF NotStarted
<1>7. NotStarted(j) /\ j \in submitted /\ \A n \in DOMAIN reqQueue' : reqQueue'[n] # j
  BY <1>3 DEF JobsInv, ManagerInv, RequestInv
<1>8. RequestInv'
  <2>1. \A n \in DOMAIN reqQueue' : reqQueue'[n] \in Jobs
    BY <1>3
  <2>2. \A n \in DOMAIN reqQueue' : reqQueue'[n] \in submitted' /\ reqQueue'[n] \notin current'
                                    /\ \A p \in Parties : jobId'[p][reqQueue'[n]] = {}
    BY <1>1, <1>3, <1>7, <2>1 DEF JobsInv, ManagerInv, RequestInv, NotStarted
  <2>3. \A n, o \in DOMAIN reqQueue' : reqQueue'[n] = reqQueue'[o] => n = o
    <3> SUFFICES ASSUME NEW n \in DOMAIN reqQueue', NEW o \in DOMAIN reqQueue', reqQueue'[n] = reqQueue'[o]
                 PROVE  n = o
      OBVIOUS
    <3>1. n + 1 = o + 1
      BY <1>3 DEF JobsInv, ManagerInv, RequestInv
    <3> QED BY <1>3, <3>1
  <2>4. \A k \in Jobs : k \notin submitted' => NotStarted(k)' /\ k \notin current'
    BY <1>1, <1>6, <1>7 DEF JobsInv, ManagerInv, RequestInv
  <2>5. \A k \in current', p \in Parties : jobId'[p][k] = IF p \in told' THEN currentId' ELSE {}
    BY <1>1, <1>4, <1>7 DEF NotStarted
  <2>6. \A k \in Jobs \ current' : NotStarted(k)' \/ \E i \in JobIds : StartedUnder(k, i)'
    BY <1>1, <1>6 DEF JobsInv, ManagerInv, RequestInv, StartedUnder
  <2> QED BY <2>2, <2>3, <2>4, <2>5, <2>6 DEF RequestInv, NotStarted
<1>9. IdInv'
  BY <1>1, <1>4, IdFrame DEF WithManager
<1> QED BY <1>2, <1>5, <1>8, <1>9 DEF JobsInv, ManagerInv

\* The id at the head of the queue goes to the manager.
LEMMA PollingPopJobIdKeepsInv ==
  ASSUME JobsInv, PollingPopJobId
  PROVE  JobsInv'
<1> DEFINE i == Head(idQueue)
<1>1. /\ current # {} /\ currentId = {} /\ idQueue # << >>
      /\ currentId' = {i} /\ idQueue' = Tail(idQueue)
      /\ UNCHANGED <<exchangeVars, submitted, reqQueue, current, told, orphans, returned, maxJobNum, overtaken>>
  BY DEF PollingPopJobId
<1> USE DEF exchangeVars
<1>2. ThreadInv' /\ ApartInv'
  BY <1>1, ManagerFrame
<1>3. /\ 1 \in DOMAIN idQueue /\ i = idQueue[1] /\ i \in JobIds /\ idQueue' \in Seq(JobIds)
      /\ \A n \in DOMAIN idQueue' : /\ n \in Nat /\ n + 1 \in DOMAIN idQueue /\ n + 1 # 1
                                    /\ idQueue'[n] = idQueue[n + 1]
      /\ \A n \in DOMAIN idQueue : n # 1 => n - 1 \in DOMAIN idQueue' /\ idQueue'[n - 1] = idQueue[n]
  BY <1>1, TailFacts DEF JobsInv, ManagerInv, TypeOK
<1> HIDE DEF i
<1>4. told = {}
  BY <1>1 DEF JobsInv, ManagerInv, TurnInv
<1>5. TypeOK' /\ TurnInv'
  BY <1>1, <1>2, <1>3, <1>4 DEF JobsInv, ManagerInv, ThreadInv, TypeOK, TurnInv
<1>6. RequestInv'
  BY <1>1, <1>4 DEF JobsInv, ManagerInv, RequestInv, NotStarted, StartedUnder
<1>7. TypeOK /\ \A n \in JobIds : Balance(n)
  BY DEF JobsInv, ManagerInv, IdInv
<1>8. \A n : HeldAtSP(n)' = HeldAtSP(n) /\ TwinsAtSP(n)' = TwinsAtSP(n) /\ Original(n)' = Original(n)
  BY <1>1 DEF HeldAtSP, TwinsAtSP, Original
<1>9. \A n : WithManager(n) = 0 /\ WithManager(n)' = IF n = i THEN 1 ELSE 0
  BY <1>1, <1>4 DEF WithManager
<1>10. \A n : /\ Cardinality(Copies(n)) = Cardinality(Copies(n)') + (IF n = i THEN 1 ELSE 0)
              /\ Cardinality(Copies(n)) \in Nat /\ Cardinality(Copies(n)') \in Nat
  <2> TAKE n
  <2>1. idQueue \in Seq(JobIds)
    BY <1>7 DEF TypeOK
  <2>2. /\ IsFiniteSet(Copies(n)) /\ IsFiniteSet(Copies(n)')
        /\ Cardinality(Copies(n)) = Cardinality(Copies(n)') + (IF n = i THEN 1 ELSE 0)
    BY <1>1, <2>1, TailPlaces DEF i
  <2> QED BY <2>2, FS_CardinalityType
<1>11. \A n \in JobIds : Balance(n)'
  <2> TAKE n \in JobIds
  <2>1. Balance(n)
    BY <1>7
  <2>2. Cardinality(HeldAtSP(n)) \in Nat /\ Cardinality(TwinsAtSP(n)) \in Nat /\ Original(n) \in Nat
    BY <1>7, UsesAreFinite DEF Original
  <2> QED BY <1>8, <1>9, <1>10, <2>1, <2>2 DEF Balance
<1>12. \A j \in returned' : Ended(SP, j)'
  BY <1>1 DEF JobsInv, ManagerInv, IdInv, Ended
<1>13. ~ RepeatedStart => HeldAtSP(i) = {}
  <2> SUFFICES ASSUME ~ RepeatedStart PROVE HeldAtSP(i) = {}
    OBVIOUS
  <2>1. TwinsAtSP(i) = {}
    BY ManagerAssumption DEF JobsInv, ThreadInv, ThreadsInv, Runs, RepeatedStart, TwinsAtSP
  <2>2. Cardinality(HeldAtSP(i)) \in Nat /\ IsFiniteSet(HeldAtSP(i)) /\ Original(i) \in 0..1
    BY <1>7, UsesAreFinite DEF Original
  <2>3. Cardinality(Copies(i)) >= 1
    BY <1>10
  <2>4. Cardinality(HeldAtSP(i)) = 0
    <3>1. Cardinality(TwinsAtSP(i)) = 0 /\ WithManager(i) = 0
      BY <1>9, <2>1, FS_EmptySet
    <3>2. Cardinality(Copies(i)) + Cardinality(HeldAtSP(i)) + WithManager(i)
            = Original(i) + Cardinality(TwinsAtSP(i))
      BY <1>3, <1>7 DEF Balance
    <3>3. Cardinality(Copies(i)) \in Nat
      BY <1>10
    <3> QED BY <2>2, <2>3, <3>1, <3>2, <3>3
  <2> QED BY <2>2, <2>4, FS_EmptySet
<1>14. RepeatedStart' <=> RepeatedStart
  BY <1>1 DEF RepeatedStart
<1>15. ~ RepeatedStart' => \A n \in currentId', j \in Jobs \ current' : j \notin HeldAtSP(n)'
  BY <1>1, <1>8, <1>13, <1>14
<1>17. IdInv'
  BY <1>11, <1>12, <1>15 DEF IdInv
<1> QED BY <1>2, <1>5, <1>6, <1>17 DEF JobsInv, ManagerInv

\* Every party has been told: the job was started under one id everywhere.
LEMMA SendJobInfoDoneKeepsInv ==
  ASSUME JobsInv, SendJobInfoDone
  PROVE  JobsInv'
<1>1. /\ told = Parties /\ current' = {} /\ currentId' = {} /\ told' = {}
      /\ UNCHANGED <<exchangeVars, submitted, reqQueue, idQueue, orphans, returned, maxJobNum, overtaken>>
  BY DEF SendJobInfoDone
<1> USE DEF exchangeVars
<1>2. ThreadInv' /\ ApartInv'
  BY <1>1, ManagerFrame
<1>3. TypeOK' /\ TurnInv'
  BY <1>1, <1>2 DEF JobsInv, ManagerInv, ThreadInv, TypeOK, TurnInv
<1>4. \A k \in Jobs : NotStarted(k) \/ \E i \in JobIds : StartedUnder(k, i)
  <2> TAKE k \in Jobs
  <2>1. CASE k \in current
    <3>1. PICK i \in JobIds : currentId = {i}
      BY <1>1, ManagerAssumption DEF JobsInv, ManagerInv, TurnInv
    <3>2. StartedUnder(k, i)
      BY <1>1, <2>1, <3>1 DEF JobsInv, ManagerInv, RequestInv, StartedUnder
    <3> QED BY <3>2
  <2>2. CASE k \notin current
    BY <2>2 DEF JobsInv, ManagerInv, RequestInv
  <2> QED BY <2>1, <2>2
<1>5. RequestInv'
  BY <1>1, <1>4 DEF JobsInv, ManagerInv, RequestInv, NotStarted, StartedUnder
<1>6. \A i : WithManager(i)' = WithManager(i)
  BY <1>1, ManagerAssumption DEF WithManager
<1>7. IdInv'
  BY <1>1, <1>6, IdFrame
<1> QED BY <1>2, <1>3, <1>5, <1>7 DEF JobsInv, ManagerInv

\* SP's thread has ended: its id goes from the job to the queue.
LEMMA PushJobIdKeepsInv ==
  ASSUME JobsInv, NEW j \in Runs, PushJobId(j)
  PROVE  JobsInv'
<1>1. PICK i \in jobId[SP][j] : idQueue' = Append(idQueue, i)
  BY DEF PushJobId
<1>2. /\ Ended(SP, j) /\ j \notin returned /\ returned' = returned \cup {j}
      /\ UNCHANGED <<exchangeVars, submitted, reqQueue, current, currentId, told, orphans, maxJobNum, overtaken>>
  BY DEF PushJobId
<1> USE DEF exchangeVars
<1>3. ThreadInv' /\ ApartInv'
  BY <1>2, ManagerFrame
<1>4. i \in JobIds /\ jobId[SP][j] = {i}
  <2>1. SP \in Parties
    BY ManagerAssumption
  <2>2. jobId[SP][j] = {} \/ \E o \in JobIds : jobId[SP][j] = {o}
    BY <2>1 DEF JobsInv, ThreadInv, ThreadsInv
  <2> QED BY <1>1, <2>2
<1>5. /\ idQueue' \in Seq(JobIds)
      /\ DOMAIN idQueue' = DOMAIN idQueue \cup {Len(idQueue) + 1} /\ Len(idQueue) + 1 \notin DOMAIN idQueue
      /\ \A n \in DOMAIN idQueue : idQueue'[n] = idQueue[n]
      /\ idQueue'[Len(idQueue) + 1] = i
  <2>1. idQueue \in Seq(JobIds)
    BY DEF JobsInv, ManagerInv, TypeOK
  <2> QED BY <1>1, <1>4, <2>1, AppendFacts
<1>6. TypeOK' /\ TurnInv'
  BY <1>2, <1>3, <1>5 DEF JobsInv, ManagerInv, ThreadInv, TypeOK, TurnInv
<1>7. RequestInv'
  BY <1>2 DEF JobsInv, ManagerInv, RequestInv, NotStarted, StartedUnder
<1>8. TypeOK /\ \A n \in JobIds : Balance(n)
  BY DEF JobsInv, ManagerInv, IdInv
<1>9. \A n : TwinsAtSP(n)' = TwinsAtSP(n) /\ Original(n)' = Original(n) /\ WithManager(n)' = WithManager(n)
  BY <1>2 DEF TwinsAtSP, Original, WithManager
<1>10. \A n : Cardinality(Copies(n)') = Cardinality(Copies(n)) + (IF n = i THEN 1 ELSE 0)
  <2> TAKE n
  <2>1. Copies(n)' = IF n = i THEN Copies(n) \cup {Len(idQueue) + 1} ELSE Copies(n)
    BY <1>5 DEF Copies
  <2>2. Len(idQueue) + 1 \notin Copies(n)
    BY <1>5 DEF Copies
  <2>3. IsFiniteSet(Copies(n)) /\ Cardinality(Copies(n)) \in Nat
    BY <1>8, UsesAreFinite
  <2>4. Cardinality(Copies(n) \cup {Len(idQueue) + 1}) = Cardinality(Copies(n)) + 1
    BY <2>2, <2>3, FS_AddElement
  <2> QED BY <2>1, <2>3, <2>4
<1>11. \A n : HeldAtSP(n)' = IF n = i THEN HeldAtSP(n) \ {j} ELSE HeldAtSP(n)
  BY <1>2, <1>4 DEF HeldAtSP
<1>12. \A n : Cardinality(HeldAtSP(n)) = Cardinality(HeldAtSP(n)') + (IF n = i THEN 1 ELSE 0)
  <2> TAKE n
  <2>1. n = i => j \in HeldAtSP(n)
    BY <1>1, <1>2 DEF HeldAtSP
  <2>2. IsFiniteSet(HeldAtSP(n)) /\ Cardinality(HeldAtSP(n)) \in Nat
    BY <1>8, UsesAreFinite
  <2>3. n = i => Cardinality(HeldAtSP(n) \ {j}) = Cardinality(HeldAtSP(n)) - 1
    BY <2>1, <2>2, FS_RemoveElement
  <2> QED BY <1>11, <2>2, <2>3
<1>13. \A n \in JobIds : Balance(n)'
  <2> TAKE n \in JobIds
  <2>1. Balance(n)
    BY <1>8
  <2>2. /\ Cardinality(HeldAtSP(n)) \in Nat /\ Cardinality(TwinsAtSP(n)) \in Nat /\ Original(n) \in Nat
        /\ Cardinality(Copies(n)) \in Nat /\ WithManager(n) \in Nat
    BY <1>8, UsesAreFinite DEF Original, WithManager
  <2>3. Cardinality(HeldAtSP(n)') \in Nat
    BY <1>6, <1>8, <1>11, UsesAreFinite, FS_RemoveElement, FS_CardinalityType
  <2> QED BY <1>9, <1>10, <1>12, <2>1, <2>2, <2>3 DEF Balance
<1>14. \A l \in returned' : Ended(SP, l)'
  BY <1>2 DEF JobsInv, ManagerInv, IdInv, Ended
<1>15. ~ RepeatedStart' => \A n \in currentId', k \in Jobs \ current' : k \notin HeldAtSP(n)'
  BY <1>2, <1>11 DEF JobsInv, ManagerInv, IdInv, RepeatedStart
<1>16. IdInv'
  BY <1>13, <1>14, <1>15 DEF IdInv
<1> QED BY <1>3, <1>6, <1>7, <1>16 DEF JobsInv, ManagerInv

\* A party starts its thread of the job.
LEMMA StartKeeps ==
  ASSUME ThreadInv, NEW p \in Parties, NEW j \in Runs, NEW i \in JobIds, ex!Start(p, j, i)
  PROVE  /\ ThreadInv' /\ jobId'[p][j] = {i} /\ pc[p][j] = "idle"
         /\ \A u \in Parties, k \in Runs : ~(u = p /\ k = j) =>
              jobId'[u][k] = jobId[u][k] /\ pc'[u][k] = pc[u][k]
         /\ UNCHANGED <<shares, net, taken>>
<1>1. PICK label \in {"open", "done"} : pc' = [pc EXCEPT ![p][j] = label]
  BY DEF ex!Start, ex!Goto
<1>2. /\ pc[p][j] = "idle" /\ jobId' = [jobId EXCEPT ![p][j] = {i}]
      /\ UNCHANGED <<shares, net, round, send, try, left, taken, errors>>
  BY DEF ex!Start
<1>3. /\ jobId'[p][j] = {i} /\ pc'[p][j] # "idle" /\ jobId[p][j] = {}
      /\ \A u \in Parties, k \in Runs : ~(u = p /\ k = j) =>
           jobId'[u][k] = jobId[u][k] /\ pc'[u][k] = pc[u][k]
  BY <1>1, <1>2 DEF ThreadInv, ex!TypeOK, ThreadsInv
<1>4. ex!TypeOK'
  BY <1>1, <1>2 DEF ThreadInv, ex!TypeOK
<1>5. ThreadsInv' /\ WaitInv'
  BY <1>2, <1>3 DEF ThreadInv, ThreadsInv, WaitInv
<1>6. \A u \in Parties, k \in Runs : jobId[u][k] \subseteq jobId'[u][k]
  BY <1>3
<1>7. NetInv'
  BY <1>2, <1>6 DEF ThreadInv, ex!TypeOK, ex!Requests, NetInv
<1>8. BoxInv'
  BY <1>2, <1>6 DEF ThreadInv, ex!TypeOK, ex!Entries, ex!Addresses, BoxInv
<1> QED BY <1>2, <1>3, <1>4, <1>5, <1>7, <1>8 DEF ThreadInv

\* A job that has the id of the job being started, and is not that job, has
\* been given back by SP.
LEMMA EarlierUsers ==
  ASSUME JobsInv, ~ RepeatedStart, NEW i \in currentId, NEW k \in Jobs \ current,
         NEW u \in Parties, i \in jobId[u][k]
  PROVE  i \in jobId[SP][k] /\ k \in returned
<1>1. i \in jobId[SP][k]
  BY ManagerAssumption DEF JobsInv, ManagerInv, RequestInv, NotStarted, StartedUnder
<1>2. k \notin HeldAtSP(i)
  BY DEF JobsInv, ManagerInv, IdInv
<1> QED BY <1>1, <1>2 DEF HeldAtSP, Runs

\* A thread that starts at SP is one more user of its id.
LEMMA StartAtSP ==
  ASSUME JobsInv, NEW j \in Runs, NEW i \in JobIds, ex!Start(SP, j, i), UNCHANGED <<returned, idQueue, maxJobNum>>
  PROVE  /\ \A n : Copies(n)' = Copies(n) /\ Original(n)' = Original(n)
         /\ \A n : Cardinality(HeldAtSP(n)') = Cardinality(HeldAtSP(n)) + (IF n = i THEN 1 ELSE 0)
         /\ \A n : Cardinality(TwinsAtSP(n)')
                    = Cardinality(TwinsAtSP(n)) + (IF n = i /\ j \in Twins THEN 1 ELSE 0)
<1>1. SP \in Parties /\ TypeOK
  BY ManagerAssumption DEF JobsInv, ManagerInv
<1>2. /\ jobId'[SP][j] = {i} /\ pc[SP][j] = "idle" /\ jobId[SP][j] = {}
      /\ \A k \in Runs : k # j => jobId'[SP][k] = jobId[SP][k]
  BY <1>1, StartKeeps DEF JobsInv, ThreadInv, ThreadsInv
<1>3. j \notin returned
  BY <1>2 DEF JobsInv, ManagerInv, IdInv, Ended
<1>4. \A n : Copies(n)' = Copies(n) /\ Original(n)' = Original(n)
  BY DEF Copies, Original
<1>5. \A n : Cardinality(HeldAtSP(n)') = Cardinality(HeldAtSP(n)) + (IF n = i THEN 1 ELSE 0)
  <2> TAKE n
  <2>1. HeldAtSP(n)' = (IF n = i THEN HeldAtSP(n) \cup {j} ELSE HeldAtSP(n)) /\ j \notin HeldAtSP(n)
    BY <1>2, <1>3 DEF HeldAtSP
  <2>2. IsFiniteSet(HeldAtSP(n)) /\ Cardinality(HeldAtSP(n)) \in Nat
    BY <1>1, UsesAreFinite
  <2>3. Cardinality(HeldAtSP(n) \cup {j}) = Cardinality(HeldAtSP(n)) + 1
    BY <2>1, <2>2, FS_AddElement
  <2> QED BY <2>1, <2>2, <2>3
<1>6. \A n : Cardinality(TwinsAtSP(n)')
             = Cardinality(TwinsAtSP(n)) + (IF n = i /\ j \in Twins THEN 1 ELSE 0)
  <2> TAKE n
  <2>1. /\ TwinsAtSP(n)' = (IF n = i /\ j \in Twins THEN TwinsAtSP(n) \cup {j} ELSE TwinsAtSP(n))
        /\ j \notin TwinsAtSP(n)
    BY <1>2 DEF TwinsAtSP, Runs
  <2>2. IsFiniteSet(TwinsAtSP(n)) /\ Cardinality(TwinsAtSP(n)) \in Nat
    BY <1>1, UsesAreFinite
  <2>3. Cardinality(TwinsAtSP(n) \cup {j}) = Cardinality(TwinsAtSP(n)) + 1
    BY <2>1, <2>2, FS_AddElement
  <2> QED BY <2>1, <2>2, <2>3
<1> QED BY <1>4, <1>5, <1>6

\* A thread that starts elsewhere is none.
LEMMA StartElsewhere ==
  ASSUME JobsInv, NEW p \in Parties \ {SP}, NEW j \in Runs, NEW i \in JobIds, ex!Start(p, j, i),
         UNCHANGED <<returned, idQueue, maxJobNum>>
  PROVE  \A n : /\ Copies(n)' = Copies(n) /\ Original(n)' = Original(n)
                /\ HeldAtSP(n)' = HeldAtSP(n) /\ TwinsAtSP(n)' = TwinsAtSP(n)
<1>1. \A k \in Runs : jobId'[SP][k] = jobId[SP][k]
  BY ManagerAssumption, StartKeeps DEF JobsInv
<1> QED BY <1>1 DEF Copies, Original, HeldAtSP, TwinsAtSP, Runs

LEMMA SendJobInfoKeepsInv ==
  ASSUME JobsInv, NEW p \in Parties, SendJobInfo(p)
  PROVE  JobsInv'
<1>1. PICK j \in current, i \in currentId : ex!Start(p, j, i)
  BY DEF SendJobInfo
<1>2. /\ p \notin told /\ told' = told \cup {p}
      /\ UNCHANGED <<submitted, reqQueue, idQueue, current, currentId, orphans, returned, maxJobNum>>
  BY DEF SendJobInfo, NextToTell
<1>3. j \in Jobs /\ j \in Runs /\ j \notin Twins /\ i \in JobIds /\ current = {j} /\ currentId = {i}
  BY ManagerAssumption DEF JobsInv, ManagerInv, TypeOK, TurnInv, Runs
<1>4. /\ ThreadInv' /\ jobId'[p][j] = {i} /\ pc[p][j] = "idle"
      /\ \A u \in Parties, k \in Runs : ~(u = p /\ k = j) =>
           jobId'[u][k] = jobId[u][k] /\ pc'[u][k] = pc[u][k]
      /\ UNCHANGED <<shares, net, taken>>
  BY <1>1, <1>3, StartKeeps DEF JobsInv
<1>5. /\ overtaken' \subseteq Overtaking
      /\ overtaken' = {} =>
           /\ overtaken = {}
           /\ \A k \in Jobs \ current, what \in Overtaking : i \in jobId[SP][k] => ~ Straggles(k, what)
  <2>1. overtaken' = overtaken \cup {what \in Overtaking : \E k \in Jobs \ current, n \in currentId :
                                      n \in jobId[SP][k] /\ Straggles(k, what)}
    BY Zenon DEF SendJobInfo
  <2>2. overtaken \subseteq Overtaking
    BY DEF JobsInv, ManagerInv, TypeOK
  <2> QED BY <1>3, <2>1, <2>2, Zenon
<1>6. TypeOK' /\ TurnInv'
  BY <1>2, <1>4, <1>5 DEF JobsInv, ManagerInv, ThreadInv, TypeOK, TurnInv
<1>7. \A u \in Parties : jobId[u][j] = IF u \in told THEN {i} ELSE {}
  BY <1>3 DEF JobsInv, ManagerInv, RequestInv
<1>8. RequestInv'
  <2>1. \A n \in DOMAIN reqQueue : reqQueue[n] \in Jobs /\ reqQueue[n] # j
    BY <1>3 DEF JobsInv, ManagerInv, TypeOK, RequestInv
  <2>2. \A n \in DOMAIN reqQueue' : /\ reqQueue'[n] \in submitted' /\ reqQueue'[n] \notin current'
                                    /\ \A u \in Parties : jobId'[u][reqQueue'[n]] = {}
    BY <1>2, <1>4, <2>1 DEF JobsInv, ManagerInv, RequestInv, NotStarted, Runs
  <2>3. \A n, o \in DOMAIN reqQueue' : reqQueue'[n] = reqQueue'[o] => n = o
    BY <1>2 DEF JobsInv, ManagerInv, RequestInv
  <2>4. j \in submitted
    BY <1>3 DEF JobsInv, ManagerInv, RequestInv
  <2>5. \A k \in Jobs : k \notin submitted' => NotStarted(k)' /\ k \notin current'
    BY <1>2, <1>4, <2>4 DEF JobsInv, ManagerInv, RequestInv, NotStarted, Runs
  <2>6. \A k \in current', u \in Parties : jobId'[u][k] = IF u \in told' THEN currentId' ELSE {}
    <3> SUFFICES ASSUME NEW u \in Parties PROVE jobId'[u][j] = IF u \in told' THEN {i} ELSE {}
      BY <1>2, <1>3
    <3>1. CASE u = p
      BY <1>2, <1>4, <3>1
    <3>2. CASE u # p
      BY <1>2, <1>3, <1>4, <1>7, <3>2
    <3> QED BY <3>1, <3>2
  <2>7. \A k \in Jobs \ current' : NotStarted(k)' \/ \E n \in JobIds : StartedUnder(k, n)'
    BY <1>2, <1>3, <1>4 DEF JobsInv, ManagerInv, RequestInv, NotStarted, StartedUnder, Runs
  <2> QED BY <2>2, <2>3, <2>5, <2>6, <2>7 DEF RequestInv, NotStarted
<1>9. RepeatedStart' <=> RepeatedStart
  BY <1>3, <1>4 DEF RepeatedStart, Runs
<1>10. \A k \in returned' : Ended(SP, k)'
  <2>1. \A k \in returned : k \in Runs /\ Ended(SP, k)
    BY DEF JobsInv, ManagerInv, TypeOK, IdInv
  <2> QED BY <1>2, <1>4, <2>1, ManagerAssumption DEF Ended
<1>11. IdInv'
  <2>0. SP \in Parties /\ TypeOK /\ \A n \in JobIds : Balance(n)
    BY ManagerAssumption DEF JobsInv, ManagerInv, IdInv
  <2>1. \A n \in JobIds : Balance(n)'
    <3>1. CASE p # SP
      <4>1. \A n : WithManager(n)' = WithManager(n)
        BY <1>2, <3>1 DEF WithManager
      <4>2. \A n : /\ Copies(n)' = Copies(n) /\ Original(n)' = Original(n)
                   /\ HeldAtSP(n)' = HeldAtSP(n) /\ TwinsAtSP(n)' = TwinsAtSP(n)
        BY <1>1, <1>2, <1>3, <3>1, StartElsewhere
      <4> QED BY <2>0, <4>1, <4>2 DEF Balance
    <3>2. CASE p = SP
      <4>1. \A n : WithManager(n) = (IF n = i THEN 1 ELSE 0) /\ WithManager(n)' = 0
        BY <1>2, <1>3, <3>2 DEF WithManager
      <4>2. /\ \A n : Copies(n)' = Copies(n) /\ Original(n)' = Original(n)
            /\ \A n : Cardinality(HeldAtSP(n)') = Cardinality(HeldAtSP(n)) + (IF n = i THEN 1 ELSE 0)
            /\ \A n : Cardinality(TwinsAtSP(n)')
                       = Cardinality(TwinsAtSP(n)) + (IF n = i /\ j \in Twins THEN 1 ELSE 0)
        BY <1>1, <1>2, <1>3, <3>2, StartAtSP
      <4> TAKE n \in JobIds
      <4>3. /\ Cardinality(HeldAtSP(n)) \in Nat /\ Cardinality(TwinsAtSP(n)) \in Nat
            /\ Cardinality(Copies(n)) \in Nat /\ Original(n) \in Nat
        BY <2>0, UsesAreFinite DEF Original
      <4>4. Balance(n)
        BY <2>0
      <4> QED BY <1>3, <4>1, <4>2, <4>3, <4>4 DEF Balance
    <3> QED BY <3>1, <3>2
  <2>2. \A n, k : k \in Jobs \ current /\ k \in HeldAtSP(n)' => k \in HeldAtSP(n)
    BY <1>2, <1>3, <1>4, <2>0 DEF HeldAtSP, Runs
  <2>3. ~ RepeatedStart' => \A n \in currentId', k \in Jobs \ current' : k \notin HeldAtSP(n)'
    BY <1>2, <1>9, <2>2 DEF JobsInv, ManagerInv, IdInv
  <2> QED BY <1>10, <2>1, <2>3 DEF IdInv
<1>12. ApartInv'
  <2> SUFFICES ASSUME overtaken' = {}, ~ RepeatedStart' PROVE OneLiveJob' /\ ex!OnlyOwnShares'
    BY DEF ApartInv
  <2>1. OneLiveJob /\ ex!OnlyOwnShares
    BY <1>5, <1>9 DEF JobsInv, ApartInv
  <2>2. ex!OnlyOwnShares'
    BY <1>4, <2>1 DEF ex!OnlyOwnShares
  <2>3. \A k \in Runs : k # j => (Live(k)' <=> Live(k))
    BY <1>4 DEF Live
  <2>4. ASSUME NEW k \in Runs, k # j, NEW u \in Parties, i \in jobId'[u][k]
        PROVE  ~ Live(k)'
    <3>1. i \in jobId[u][k]
      BY <1>3, <1>4, <2>4
    <3>2. k \in Jobs \ current
      <4>1. pc[u][k] # "idle"
        BY <3>1 DEF JobsInv, ThreadInv, ThreadsInv
      <4> QED BY <1>3, <1>9, <2>4, <4>1 DEF RepeatedStart, Runs
    <3>3. i \in jobId[SP][k] /\ k \in returned
      BY <1>9, <3>1, <3>2, EarlierUsers
    <3>5. ~ Straggles(k, "thread") /\ ~ Straggles(k, "leftover")
      BY <1>5, <3>2, <3>3 DEF Overtaking
    <3>4. ~ Live(k)
      BY <3>3, <3>5 DEF Straggles, Ended, Live
    <3> QED BY <2>3, <2>4, <3>4
  <2>5. \A u \in Parties : jobId'[u][j] \subseteq {i}
    BY <1>3, <1>4, <1>7
  <2>6. OneLiveJob'
    <3> SUFFICES ASSUME NEW a \in Runs, NEW b \in Runs, NEW u \in Parties, NEW r \in Parties,
                        NEW n \in jobId'[u][a], n \in jobId'[r][b], Live(a)', Live(b)'
                 PROVE  a = b
      BY DEF OneLiveJob
    <3>1. CASE a # j /\ b # j
      BY <1>4, <2>1, <2>3, <3>1 DEF OneLiveJob
    <3>2. CASE a = j /\ b # j
      BY <2>4, <2>5, <3>2
    <3>3. CASE a # j /\ b = j
      BY <2>4, <2>5, <3>3
    <3> QED BY <3>1, <3>2, <3>3
  <2> QED BY <2>2, <2>6
<1> QED BY <1>4, <1>6, <1>8, <1>11, <1>12 DEF JobsInv, ManagerInv

\* A start request fails at the caller.
LEMMA SendJobInfoFailsKeepsInv ==
  ASSUME JobsInv, NEW p \in Parties, SendJobInfoFails(p)
  PROVE  JobsInv'
<1>1. PICK i \in currentId, t \in Twins : orphans' = orphans \cup {[to |-> p, run |-> t, id |-> i]}
  BY DEF SendJobInfoFails
<1>2. /\ errors' = errors + 1
      /\ UNCHANGED <<shares, net, pc, jobId, round, send, try, left, taken, submitted, reqQueue,
                     idQueue, current, currentId, told, returned, maxJobNum, overtaken>>
  BY DEF SendJobInfoFails
<1>3. ThreadInv'
  BY <1>2 DEF JobsInv, ThreadInv, ex!TypeOK, ThreadsInv, NetInv, BoxInv, WaitInv
<1>4. TypeOK' /\ TurnInv'
  <2>1. orphans' \subseteq [to : Parties, run : Twins, id : JobIds]
    BY <1>1 DEF JobsInv, ManagerInv, TypeOK
  <2> QED BY <1>2, <1>3, <2>1 DEF JobsInv, ManagerInv, ThreadInv, TypeOK, TurnInv
<1>5. RequestInv'
  BY <1>2 DEF JobsInv, ManagerInv, RequestInv, NotStarted, StartedUnder
<1>6. IdInv'
  BY <1>2, IdFrame DEF WithManager
<1>7. ApartInv'
  BY <1>2 DEF JobsInv, ApartInv, OneLiveJob, Live, ex!OnlyOwnShares, RepeatedStart
<1> QED BY <1>3, <1>4, <1>5, <1>6, <1>7 DEF JobsInv, ManagerInv

\* It is handled all the same: a twin starts.
LEMMA StartOrphanKeepsInv ==
  ASSUME JobsInv, NEW o \in orphans, StartOrphan(o)
  PROVE  JobsInv'
<1> DEFINE p == o.to  t == o.run  i == o.id
<1>1. p \in Parties /\ t \in Twins /\ t \in Runs /\ t \notin Jobs /\ i \in JobIds
  BY ManagerAssumption DEF JobsInv, ManagerInv, TypeOK, Runs
<1>2. /\ ex!Start(p, t, i) /\ orphans' \subseteq orphans
      /\ UNCHANGED <<submitted, reqQueue, idQueue, current, currentId, told, returned, maxJobNum, overtaken>>
  BY DEF StartOrphan
<1> HIDE DEF p, t, i
<1>3. /\ ThreadInv' /\ jobId'[p][t] = {i} /\ pc[p][t] = "idle"
      /\ \A u \in Parties, k \in Runs : ~(u = p /\ k = t) =>
           jobId'[u][k] = jobId[u][k] /\ pc'[u][k] = pc[u][k]
      /\ UNCHANGED <<shares, net, taken>>
  BY <1>1, <1>2, StartKeeps DEF JobsInv
<1>4. TypeOK' /\ TurnInv'
  BY <1>2, <1>3 DEF JobsInv, ManagerInv, ThreadInv, TypeOK, TurnInv
<1>5. \A u \in Parties, k \in Jobs : jobId'[u][k] = jobId[u][k]
  BY <1>1, <1>3 DEF Runs
<1>6. RequestInv'
  <2>1. \A k \in Jobs : NotStarted(k)' <=> NotStarted(k)
    BY <1>5 DEF NotStarted
  <2>2. \A k \in Jobs, n \in JobIds : StartedUnder(k, n)' <=> StartedUnder(k, n)
    BY <1>5 DEF StartedUnder
  <2>3. current \subseteq Jobs /\ \A n \in DOMAIN reqQueue : reqQueue[n] \in Jobs
    BY DEF JobsInv, ManagerInv, TypeOK
  <2>4. \A n \in DOMAIN reqQueue' : /\ reqQueue'[n] \in submitted' /\ reqQueue'[n] \notin current'
                                    /\ \A u \in Parties : jobId'[u][reqQueue'[n]] = {}
    BY <1>2, <1>5, <2>3 DEF JobsInv, ManagerInv, RequestInv, NotStarted
  <2>5. \A n, m \in DOMAIN reqQueue' : reqQueue'[n] = reqQueue'[m] => n = m
    BY <1>2 DEF JobsInv, ManagerInv, RequestInv
  <2>6. \A k \in Jobs : k \notin submitted' => NotStarted(k)' /\ k \notin current'
    BY <1>2, <2>1 DEF JobsInv, ManagerInv, RequestInv
  <2>7. \A k \in current', u \in Parties : jobId'[u][k] = IF u \in told' THEN currentId' ELSE {}
    BY <1>2, <1>5, <2>3 DEF JobsInv, ManagerInv, RequestInv
  <2>8. \A k \in Jobs \ current' : NotStarted(k)' \/ \E n \in JobIds : StartedUnder(k, n)'
    BY <1>2, <2>1, <2>2 DEF JobsInv, ManagerInv, RequestInv
  <2> QED BY <2>4, <2>5, <2>6, <2>7, <2>8 DEF RequestInv, NotStarted
<1>7. RepeatedStart'
  <2>1. pc'[p][t] # "idle"
    BY <1>1, <1>3 DEF ThreadInv, ThreadsInv
  <2> QED BY <1>1, <2>1 DEF RepeatedStart
<1>8. ApartInv'
  BY <1>7 DEF ApartInv
<1>9. \A k \in returned' : Ended(SP, k)'
  <2>1. \A k \in returned : k \in Runs /\ Ended(SP, k)
    BY DEF JobsInv, ManagerInv, TypeOK, IdInv
  <2> QED BY <1>2, <1>3, <2>1, ManagerAssumption DEF Ended
<1>10. \A n \in JobIds : Balance(n)'
  <2>0. TypeOK /\ \A n \in JobIds : Balance(n)
    BY DEF JobsInv, ManagerInv, IdInv
  <2>1. \A n : WithManager(n)' = WithManager(n)
    BY <1>2 DEF WithManager
  <2>2. CASE p # SP
    <3>1. \A n : /\ Copies(n)' = Copies(n) /\ Original(n)' = Original(n)
                 /\ HeldAtSP(n)' = HeldAtSP(n) /\ TwinsAtSP(n)' = TwinsAtSP(n)
      BY <1>1, <1>2, <2>2, StartElsewhere
    <3> QED BY <2>0, <2>1, <3>1 DEF Balance
  <2>3. CASE p = SP
    <3>1. /\ \A n : Copies(n)' = Copies(n) /\ Original(n)' = Original(n)
          /\ \A n : Cardinality(HeldAtSP(n)') = Cardinality(HeldAtSP(n)) + (IF n = i THEN 1 ELSE 0)
          /\ \A n : Cardinality(TwinsAtSP(n)')
                     = Cardinality(TwinsAtSP(n)) + (IF n = i /\ t \in Twins THEN 1 ELSE 0)
      BY <1>1, <1>2, <2>3, StartAtSP
    <3> TAKE n \in JobIds
    <3>2. /\ Cardinality(HeldAtSP(n)) \in Nat /\ Cardinality(TwinsAtSP(n)) \in Nat
          /\ Cardinality(Copies(n)) \in Nat /\ Original(n) \in Nat /\ WithManager(n) \in Nat
      BY <2>0, UsesAreFinite DEF Original, WithManager
    <3>3. Balance(n)
      BY <2>0
    <3> QED BY <1>1, <2>1, <3>1, <3>2, <3>3 DEF Balance
  <2> QED BY <2>2, <2>3
<1>11. IdInv'
  BY <1>7, <1>9, <1>10 DEF IdInv
<1> QED BY <1>3, <1>4, <1>6, <1>8, <1>11 DEF JobsInv, ManagerInv

-----------------------------------------------------------------------------
\* What is known of requests, ids and threads at any time, whatever fails.
THEOREM JobsInvariant == Spec => []JobsInv
<1>1. JobsInv /\ [Next]_vars => JobsInv'
  <2> SUFFICES ASSUME JobsInv, [Next]_vars PROVE JobsInv'
    OBVIOUS
  <2>1. CASE (\E j \in Jobs : PushJobReq(j)) \/ (\E j \in Runs : PushJobId(j))
    BY <2>1, PushJobReqKeepsInv, PushJobIdKeepsInv
  <2>6. CASE (\E p \in Parties : SendJobInfoFails(p)) \/ (\E o \in orphans : StartOrphan(o))
    BY <2>6, SendJobInfoFailsKeepsInv, StartOrphanKeepsInv
  <2>2. CASE Manage
    BY <2>2, PollingPopJobReqKeepsInv, PollingPopJobIdKeepsInv, SendJobInfoKeepsInv,
       SendJobInfoDoneKeepsInv DEF Manage
  <2>3. CASE Work
    BY <2>3, WorkKeeps, SubsidingKeepsInv DEF Work, JobsInv
  <2>4. ASSUME NEW p \in Parties, NEW j \in Runs, JobFails(p, j) PROVE JobsInv'
    <3>1. ThreadInv' /\ Subsides /\ UNCHANGED taken
      BY <2>4, JobFailsKeeps DEF JobsInv, Kept
    <3>2. ex!OnlyOwnShares => ex!OnlyOwnShares'
      BY <3>1 DEF ex!OnlyOwnShares
    <3>3. UNCHANGED managerVars
      BY <2>4 DEF JobFails
    <3> QED BY <3>1, <3>2, <3>3, SubsidingKeepsInv
  <2>5. CASE UNCHANGED vars
    <3>1. ThreadInv'
      BY <2>5, ManagerFrame DEF vars, managerVars
    <3>2. Subsides
      BY <2>5 DEF vars, exchangeVars, Subsides, Ended, Live
    <3>3. ex!OnlyOwnShares => ex!OnlyOwnShares'
      BY <2>5 DEF vars, exchangeVars, ex!OnlyOwnShares
    <3>4. UNCHANGED managerVars
      BY <2>5 DEF vars
    <3> QED BY <3>1, <3>2, <3>3, <3>4, SubsidingKeepsInv
  <2> QED BY <2>1, <2>2, <2>3, <2>4, <2>5, <2>6 DEF Next, Finished
<1> QED BY <1>1, JobsInvInit, PTL DEF Spec

\* Type correctness of the manager, its queues and the threads it starts.
THEOREM TypesHold == Spec => []TypeOK
<1>1. JobsInv => TypeOK
  BY DEF JobsInv, ManagerInv
<1> QED BY <1>1, JobsInvariant, PTL

LEMMA IdFacts == JobsInv => IdConservation
<1> SUFFICES ASSUME JobsInv, NEW i \in 1..maxJobNum
             PROVE  Cardinality(Copies(i)) + Cardinality(HeldAtSP(i)) + WithManager(i)
                      = 1 + Cardinality(TwinsAtSP(i))
  BY DEF IdConservation, WithManager
<1>1. i \in JobIds /\ i <= maxJobNum
  BY ManagerAssumption DEF JobsInv, ManagerInv, TypeOK, JobIds
<1>2. Balance(i)
  BY <1>1 DEF JobsInv, ManagerInv, IdInv
<1> QED BY <1>1, <1>2 DEF Balance, Original

\* Every id is used once, in the queue, with the manager or by a thread of SP, and
\* once more for each start request that SP handled although it failed at the
\* caller: for any number of ids and jobs no id is lost, and without such a request
\* SP never runs two jobs under one, whatever jobs and other requests fail.
THEOREM IdsAreConserved == Spec => []IdConservation
BY JobsInvariant, IdFacts, PTL

\* Jobs under an id from the queue take only their own shares, as long as no job
\* was started under an id for which an earlier job still had a thread at another
\* party or had left a share or a request, and no start request was handled although
\* it failed at the caller.
THEOREM JobsAreKeptApart == Spec => []UsableIdsKeepJobsApart
<1>1. JobsInv => UsableIdsKeepJobsApart
  BY DEF JobsInv, ApartInv, UsableIdsKeepJobsApart
<1> QED BY <1>1, JobsInvariant, PTL
-----------------------------------------------------------------------------
(* The queues of the manager, for any threads, values and bound: no wakeup  *)
(* is lost, and the queue is the abstract bounded queue.                    *)

\* What a pop does to a queue that is not empty.
LEMMA PopFacts ==
  ASSUME q \in Seq(Values), q # << >>
  PROVE /\ Head(q) \in Values
        /\ Tail(q) \in Seq(Values)
        /\ Len(Tail(q)) = Len(q) - 1
BY HeadTailProperties

\* The inductive invariant: the mutex is with the one thread in a body, a
\* sleeper sleeps for its own operation and for a reason, and the bound holds.
THEOREM QueueInvariant == QueueSpec => []QueueInv
<1> USE QueueAssumption
<1>1. QueueInit => QueueInv
      BY DEF QueueInit, QueueInv, QueueTypeOK, MutexInv, SleepInv, NoLostWakeup
<1>2. QueueInv /\ [QueueNext]_queueVars => QueueInv'
  <2> SUFFICES ASSUME QueueInv, [QueueNext]_queueVars PROVE QueueInv'
      OBVIOUS
  <2> USE DEF QueueInv, QueueTypeOK, MutexInv, SleepInv, NoLostWakeup, Goto
  <2>1. CASE UNCHANGED queueVars
        BY <2>1 DEF queueVars
  <2>2. ASSUME NEW t \in Threads, Call(t) PROVE QueueInv'
        BY <2>2 DEF Call
  <2>3. ASSUME NEW t \in Threads, Lock(t) PROVE QueueInv'
        BY <2>3 DEF Lock
  <2>4. ASSUME NEW t \in Threads, Pop(t) PROVE QueueInv'
    <3>1. CASE q = << >>
      <4>1. /\ at' = [at EXCEPT ![t] = "q_empty"] /\ at[t] = "body" /\ op[t] = "pop"
            /\ mtx' = {} /\ UNCHANGED <<q, op, arg, ret>>
            BY <2>4, <3>1 DEF Pop, Wait, InBody
      <4>2. QueueTypeOK'
            BY <4>1
      <4>3. MutexInv' /\ SleepInv' /\ NoLostWakeup'
            BY <3>1, <4>1
      <4>4. QED BY <4>1, <4>2, <4>3
    <3>2. CASE q # << >>
      <4>1. /\ q' \in Seq(Values) /\ Len(q') = Len(q) - 1
            /\ Head(q) \in Values
            BY <2>4, <3>2, PopFacts DEF Pop
      <4>2. /\ at' = [u \in Threads |-> IF u = t THEN "done"
                        ELSE IF at[u] = "q_max" THEN "lock" ELSE at[u]]
            /\ mtx' = {} /\ UNCHANGED <<op, arg>>
            BY <2>4, <3>2 DEF Pop, NotifyAllAndReturn
      <4>3. /\ ret' = [ret EXCEPT ![t] = {Head(q)}] /\ ret \in [Threads -> SUBSET Values]
            BY <2>4, <3>2 DEF Pop
      <4>4. ret' \in [Threads -> SUBSET Values]
            BY <4>3, <4>1
      <4>5. at' \in [Threads -> {"idle", "lock", "body", "q_empty", "q_max", "done"}]
            BY <4>2
      <4>6. QueueTypeOK'
            BY <4>1, <4>2, <4>4, <4>5
      <4>7. MutexInv' /\ SleepInv'
            BY <2>4, <4>2 DEF Pop, InBody
      <4>8. NoLostWakeup'
            BY <3>2, <4>2
      <4>9. Len(q') <= MaxSize
            BY <4>1
      <4>10. QED BY <4>6, <4>7, <4>8, <4>9
    <3>3. QED BY <3>1, <3>2
  <2>5. ASSUME NEW t \in Threads, Push(t) PROVE QueueInv'
    <3>1. CASE Len(q) >= MaxSize
      <4>1. /\ at' = [at EXCEPT ![t] = "q_max"] /\ at[t] = "body" /\ op[t] = "push"
            /\ mtx' = {} /\ UNCHANGED <<q, op, arg, ret>>
            BY <2>5, <3>1 DEF Push, Wait, InBody
      <4>2. QueueTypeOK'
            BY <4>1
      <4>3. MutexInv' /\ SleepInv' /\ NoLostWakeup'
            BY <3>1, <4>1
      <4>4. QED BY <4>1, <4>2, <4>3
    <3>2. CASE ~(Len(q) >= MaxSize)
      <4>1. q' \in Seq(Values) /\ Len(q') = Len(q) + 1
            BY <2>5, <3>2 DEF Push
      <4>2. /\ at' = [u \in Threads |-> IF u = t THEN "done"
                        ELSE IF at[u] = "q_empty" THEN "lock" ELSE at[u]]
            /\ mtx' = {} /\ UNCHANGED <<op, arg, ret>>
            BY <2>5, <3>2 DEF Push, NotifyAllAndReturn
      <4>3. QueueTypeOK'
            BY <4>1, <4>2
      <4>4. MutexInv' /\ SleepInv'
            BY <2>5, <4>2 DEF Push, InBody
      <4>5. NoLostWakeup'
            BY <3>2, <4>2
      <4>6. Len(q') <= MaxSize
            BY <3>2, <4>1
      <4>7. QED BY <4>3, <4>4, <4>5, <4>6
    <3>3. QED BY <3>1, <3>2
  <2>6. ASSUME NEW t \in Threads, Wakeup(t) PROVE QueueInv'
        BY <2>6 DEF Wakeup
  <2>7. ASSUME NEW t \in Threads, Return(t) PROVE QueueInv'
        BY <2>7 DEF Return
  <2>8. QED BY <2>1, <2>2, <2>3, <2>4, <2>5, <2>6, <2>7 DEF QueueNext, Body
<1>3. QED BY <1>1, <1>2, PTL DEF QueueSpec

\* No thread sleeps on a condition that already holds.
THEOREM QueueNoLostWakeup == QueueSpec => []NoLostWakeup
<1>1. QueueInv => NoLostWakeup
      BY DEF QueueInv
<1>2. QED BY <1>1, QueueInvariant, PTL

\* Every call takes effect at one instant, in queue order.
THEOREM QueueImplementsFifo == QueueSpec => FifoSpec
<1> USE QueueAssumption
<1> DEFINE StageOf == [t \in Threads |-> Stage(at[t])]
<1>1. QueueInit => Fifo!Init
      BY DEF QueueInit, Fifo!Init, Stage
<1>2. QueueInv /\ [QueueNext]_queueVars => [Fifo!Next]_Fifo!vars
  <2> SUFFICES ASSUME QueueInv, [QueueNext]_queueVars
               PROVE [Fifo!Next]_Fifo!vars
      OBVIOUS
  <2> USE DEF QueueInv, QueueTypeOK, Goto, Stage, Fifo!Move
  <2>1. CASE UNCHANGED queueVars
        BY <2>1 DEF queueVars, Fifo!vars
  <2>2. ASSUME NEW t \in Threads, Call(t) PROVE Fifo!Begin(t)
        BY <2>2 DEF Call, Fifo!Begin
  <2>3. ASSUME NEW t \in Threads, Lock(t) PROVE UNCHANGED Fifo!vars
        BY <2>3 DEF Lock, Fifo!vars
  <2>4. ASSUME NEW t \in Threads, Pop(t) PROVE Fifo!Pop(t) \/ UNCHANGED Fifo!vars
    <3>1. CASE q = << >>
          BY <2>4, <3>1 DEF Pop, Wait, InBody, Fifo!vars
    <3>2. CASE q # << >>
      <4>1. StageOf[t] = "called" /\ StageOf' = [StageOf EXCEPT ![t] = "done"]
            BY <2>4, <3>2 DEF Pop, NotifyAllAndReturn, InBody
      <4>2. QED BY <2>4, <3>2, <4>1 DEF Pop, InBody, Fifo!Pop
    <3>3. QED BY <3>1, <3>2
  <2>5. ASSUME NEW t \in Threads, Push(t) PROVE Fifo!Push(t) \/ UNCHANGED Fifo!vars
    <3>1. CASE Len(q) >= MaxSize
          BY <2>5, <3>1 DEF Push, Wait, InBody, Fifo!vars
    <3>2. CASE ~(Len(q) >= MaxSize)
      <4>1. StageOf[t] = "called" /\ StageOf' = [StageOf EXCEPT ![t] = "done"]
            BY <2>5, <3>2 DEF Push, NotifyAllAndReturn, InBody
      <4>2. QED BY <2>5, <3>2, <4>1 DEF Push, InBody, Fifo!Push
    <3>3. QED BY <3>1, <3>2
  <2>6. ASSUME NEW t \in Threads, Wakeup(t) PROVE UNCHANGED Fifo!vars
        BY <2>6 DEF Wakeup, Fifo!vars
  <2>7. ASSUME NEW t \in Threads, Return(t) PROVE Fifo!End(t)
    <3>1. StageOf[t] = "done" /\ StageOf' = [StageOf EXCEPT ![t] = "idle"]
          BY <2>7 DEF Return
    <3>2. QED BY <2>7, <3>1 DEF Return, Fifo!End
  <2>8. QED BY <2>1, <2>2, <2>3, <2>4, <2>5, <2>6, <2>7
            DEF QueueNext, Body, Fifo!Next
<1>3. QED BY <1>1, <1>2, QueueInvariant, PTL DEF QueueSpec, FifoSpec, Fifo!Spec
=============================================================================
