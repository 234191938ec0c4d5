------------------------ MODULE ShareExchange_proofs ------------------------
(***************************************************************************)
(* Proofs that jobs under distinct job ids do not mix and that the threads *)
(* of a job run in step, for any parties and jobs, any number of rounds    *)
(* and shares and whatever requests fail.                                  *)
(***************************************************************************)
EXTENDS ShareExchange, TLAPS

\* A running thread has the id of its job.
ThreadsInv ==
  \A p \in Parties, j \in Jobs : pc[p][j] # "idle" => jobId[p][j] = {JobIdOf[j]}

\* What is under way or in a mailbox is addressed by the id of the job whose
\* value it carries.
NetInv == \A m \in net : m.job = JobIdOf[m.for]
BoxInv == \A p \in Parties : \A e \in shares[p] : e.key.job = JobIdOf[e.val]

\* A sending thread is running.
SendInv ==
  \A p \in Parties, j \in Jobs, q \in Parties :
    send[p][j][q] = "sent" => pc[p][j] # "idle"

OwnInv == TypeOK /\ ThreadsInv /\ NetInv /\ BoxInv /\ SendInv /\ OnlyOwnShares

-----------------------------------------------------------------------------
LEMMA OwnInit == Init => OwnInv
BY ExchangeAssumption
DEF Init, ForAllThreads, OwnInv, TypeOK, ThreadsInv, NetInv, BoxInv, SendInv, OnlyOwnShares

\* Share ids are natural numbers.
LEMMA ShareIdsNat == \A r \in Nat : ShareIds(r) \subseteq Nat
BY ExchangeAssumption DEF ShareIds

\* The request a running thread sends carries the id of its job.
LEMMA RequestIsOwn ==
  ASSUME OwnInv, NEW p \in Parties, NEW j \in Jobs, NEW q \in Parties, pc[p][j] # "idle"
  PROVE  Request(p, j, q) \in Requests /\ Request(p, j, q).job = JobIdOf[j]
         /\ Request(p, j, q).for = j
<1>1. IdOf(p, j) = JobIdOf[j] /\ JobIdOf[j] \in JobIds
  BY ExchangeAssumption DEF OwnInv, ThreadsInv, IdOf
<1>2. round[p][j] \in Nat /\ try[p][j][q] \in Nat
  BY DEF OwnInv, TypeOK
<1> QED BY <1>1, <1>2 DEF Request, Requests

\* A handler that reads shares of such a request keeps the mailbox sound.
LEMMA StoredIsOwn ==
  ASSUME NEW box \in SUBSET Entries, \A e \in box : e.key.job = JobIdOf[e.val],
         NEW m \in Requests, m.job = JobIdOf[m.for], NEW ids \in SUBSET Nat
  PROVE  /\ Stored(box, m, ids) \in SUBSET Entries
         /\ \A e \in Stored(box, m, ids) : e.key.job = JobIdOf[e.val]
<1> DEFINE new == {[key |-> [from |-> m.from, share |-> s, job |-> m.job],
                    val |-> m.for] : s \in ids}
<1>1. m.from \in Parties /\ m.job \in JobIds /\ m.for \in Jobs
  BY DEF Requests
<1>2. \A e \in new : e \in Entries /\ e.key.job = JobIdOf[e.val]
  <2> SUFFICES ASSUME NEW s \in ids
               PROVE  LET e == [key |-> [from |-> m.from, share |-> s, job |-> m.job],
                                val |-> m.for]
                      IN e \in Entries /\ e.key.job = JobIdOf[e.val]
    BY Zenon
  <2>1. [from |-> m.from, share |-> s, job |-> m.job] \in Addresses
    BY <1>1 DEF Addresses
  <2> QED BY <1>1, <2>1 DEF Entries
<1>3. Stored(box, m, ids) \subseteq box \cup new
  BY DEF Stored
<1> QED BY <1>2, <1>3

-----------------------------------------------------------------------------
(* One lemma per action                                                     *)

LEMMA StartKeeps ==
  ASSUME OwnInv, NEW p \in Parties, NEW j \in Jobs, Start(p, j, JobIdOf[j])
  PROVE  OwnInv'
<1>1. JobIdOf[j] \in JobIds
  BY ExchangeAssumption
<1>2. TypeOK'
  BY <1>1 DEF Start, Goto, OwnInv, TypeOK
<1>3. ThreadsInv'
  BY DEF Start, Goto, OwnInv, TypeOK, ThreadsInv
<1>4. SendInv'
  BY DEF Start, Goto, OwnInv, TypeOK, SendInv
<1>5. NetInv' /\ BoxInv' /\ OnlyOwnShares'
  BY DEF Start, OwnInv, NetInv, BoxInv, OnlyOwnShares
<1> QED BY <1>2, <1>3, <1>4, <1>5 DEF OwnInv

LEMMA SendKeeps ==
  ASSUME OwnInv, NEW p \in Parties, NEW j \in Jobs, NEW q \in Parties, Send(p, j, q)
  PROVE  OwnInv'
<1>1. pc[p][j] # "idle"
  BY DEF Send
<1>2. Request(p, j, q) \in Requests /\ Request(p, j, q).job = JobIdOf[j]
      /\ Request(p, j, q).for = j
  BY <1>1, RequestIsOwn
<1>3. TypeOK'
  BY <1>2 DEF Send, OwnInv, TypeOK
<1>4. NetInv'
  BY <1>2 DEF Send, OwnInv, NetInv
<1>5. SendInv'
  BY <1>1 DEF Send, OwnInv, TypeOK, SendInv
<1>6. ThreadsInv' /\ BoxInv' /\ OnlyOwnShares'
  BY DEF Send, OwnInv, ThreadsInv, BoxInv, OnlyOwnShares
<1> QED BY <1>3, <1>4, <1>5, <1>6 DEF OwnInv

LEMMA ExchangeSharesKeeps ==
  ASSUME OwnInv, NEW m \in net, ExchangeShares(m)
  PROVE  OwnInv'
<1> DEFINE box == Stored(shares[m.to], m, ShareIds(m.round))
<1>1. m \in Requests /\ m.job = JobIdOf[m.for] /\ m.to \in Parties
      /\ m.from \in Parties /\ m.for \in Jobs /\ m.round \in Nat
  BY DEF OwnInv, TypeOK, NetInv, Requests
<1>2. shares[m.to] \in SUBSET Entries /\ \A e \in shares[m.to] : e.key.job = JobIdOf[e.val]
  BY <1>1 DEF OwnInv, TypeOK, BoxInv
<1>3. box \in SUBSET Entries /\ \A e \in box : e.key.job = JobIdOf[e.val]
  BY <1>1, <1>2, ShareIdsNat, StoredIsOwn
<1>4. /\ net' \subseteq net
      /\ shares' = [shares EXCEPT ![m.to] = box]
      /\ UNCHANGED <<pc, round, try, left, taken, errors, jobId>>
  BY DEF ExchangeShares
<1> HIDE DEF box
<1>5. PICK s \in {"sent", "todo", "done"} :
        send' = [send EXCEPT ![m.from][m.for][m.to] = s]
        /\ (s = "sent" => send[m.from][m.for][m.to] = "sent")
  <2> DEFINE old == send[m.from][m.for][m.to]
             s == IF Answers(m) THEN "done" ELSE old
  <2>1. old \in {"sent", "todo", "done"}
    BY <1>1 DEF OwnInv, TypeOK
  <2>2. s \in {"sent", "todo", "done"} /\ (s = "sent" => old = "sent")
    BY <2>1
  <2>3. send' = [send EXCEPT ![m.from][m.for][m.to] = s]
    BY Zenon DEF ExchangeShares
  <2> QED BY <2>2, <2>3
<1>6. TypeOK'
  BY <1>1, <1>3, <1>4, <1>5 DEF OwnInv, TypeOK
<1>7. BoxInv'
  BY <1>1, <1>3, <1>4 DEF OwnInv, TypeOK, BoxInv
<1>8. SendInv'
  BY <1>1, <1>4, <1>5 DEF OwnInv, TypeOK, SendInv
<1>9. ThreadsInv' /\ NetInv' /\ OnlyOwnShares'
  BY <1>4 DEF OwnInv, ThreadsInv, NetInv, OnlyOwnShares
<1> QED BY <1>6, <1>7, <1>8, <1>9 DEF OwnInv

LEMMA SendFailsKeeps ==
  ASSUME OwnInv, NEW p \in Parties, NEW j \in Jobs, NEW q \in Parties, SendFails(p, j, q)
  PROVE  OwnInv'
<1> DEFINE m == Request(p, j, q)
<1>1. m \in Requests /\ m.job = JobIdOf[m.for]
  <2>1. pc[p][j] # "idle"
    BY DEF SendFails, OwnInv, SendInv
  <2> QED BY <2>1, RequestIsOwn
<1>2. round[p][j] \in Nat
  BY DEF OwnInv, TypeOK
<1>3. PICK box \in SUBSET Entries :
        shares' = [shares EXCEPT ![q] = box] /\ \A e \in box : e.key.job = JobIdOf[e.val]
  <2>1. shares[q] \in SUBSET Entries /\ \A e \in shares[q] : e.key.job = JobIdOf[e.val]
    BY DEF OwnInv, TypeOK, BoxInv
  <2>2. CASE UNCHANGED shares
    <3>1. shares' = [shares EXCEPT ![q] = shares[q]]
      BY <2>2 DEF OwnInv, TypeOK
    <3> QED BY <2>1, <3>1
  <2>3. CASE \E n \in 0..Width :
               LET ids == {s \in ShareIds(round[p][j]) : s < round[p][j] * Width + n}
               IN shares' = [shares EXCEPT ![q] = Stored(@, m, ids)]
    <3>1. PICK ids \in SUBSET Nat : shares' = [shares EXCEPT ![q] = Stored(shares[q], m, ids)]
      BY <2>3, <1>2, ShareIdsNat
    <3>2. /\ Stored(shares[q], m, ids) \in SUBSET Entries
          /\ \A e \in Stored(shares[q], m, ids) : e.key.job = JobIdOf[e.val]
      <4> HIDE DEF m
      <4> QED BY <1>1, <2>1, StoredIsOwn
    <3> QED BY <3>1, <3>2
  <2> QED BY <2>2, <2>3 DEF SendFails
<1>4. /\ net' \subseteq net
      /\ send' = [send EXCEPT ![p][j][q] = "todo"]
      /\ try' = [try EXCEPT ![p][j][q] = @ + 1]
      /\ errors' = errors + 1
      /\ UNCHANGED <<pc, round, left, taken, jobId>>
  BY DEF SendFails
<1>5. TypeOK'
  BY <1>3, <1>4 DEF OwnInv, TypeOK
<1>6. BoxInv'
  BY <1>3 DEF OwnInv, TypeOK, BoxInv
<1>7. SendInv'
  BY <1>4 DEF OwnInv, TypeOK, SendInv
<1>8. ThreadsInv' /\ NetInv' /\ OnlyOwnShares'
  BY <1>4 DEF OwnInv, ThreadsInv, NetInv, OnlyOwnShares
<1> QED BY <1>5, <1>6, <1>7, <1>8 DEF OwnInv

LEMMA OpenDoneKeeps ==
  ASSUME OwnInv, NEW p \in Parties, NEW j \in Jobs, OpenDone(p, j)
  PROVE  OwnInv'
<1>1. Others(p) \X ShareIds(round[p][j]) \in SUBSET (Parties \X Nat)
  BY ShareIdsNat DEF OwnInv, TypeOK, Others
<1>2. TypeOK'
  BY <1>1 DEF OpenDone, Goto, OwnInv, TypeOK
<1>3. ThreadsInv' /\ SendInv'
  BY DEF OpenDone, Goto, OwnInv, TypeOK, ThreadsInv, SendInv
<1>4. NetInv' /\ BoxInv' /\ OnlyOwnShares'
  BY DEF OpenDone, OwnInv, NetInv, BoxInv, OnlyOwnShares
<1> QED BY <1>2, <1>3, <1>4 DEF OwnInv

\* The step that matters: the entry found under the thread's own job id carries
\* a value of a job with that id, and there is only one such job.
LEMMA GetShareKeeps ==
  ASSUME IdsDistinct, OwnInv, NEW p \in Parties, NEW j \in Jobs, NEW q, NEW s,
         GetShare(p, j, q, s)
  PROVE  OwnInv'
<1>0. PICK e \in shares[p] :
        /\ e.key = [from |-> q, share |-> s, job |-> IdOf(p, j)]
        /\ shares' = [shares EXCEPT ![p] = @ \ {e}]
        /\ taken' = [taken EXCEPT ![p][j] = @ \cup {e.val}]
  BY Zenon DEF GetShare
<1>1. /\ e.key.job = IdOf(p, j)
      /\ shares' = [shares EXCEPT ![p] = @ \ {e}]
      /\ taken' = [taken EXCEPT ![p][j] = @ \cup {e.val}]
  BY <1>0
<1>2. e.val = j
  <2>1. IdOf(p, j) = JobIdOf[j]
    BY DEF GetShare, OwnInv, ThreadsInv, IdOf
  <2>2. e.val \in Jobs /\ JobIdOf[e.val] = JobIdOf[j]
    BY <1>1, <2>1 DEF OwnInv, TypeOK, BoxInv, Entries
  <2> QED BY <2>2 DEF IdsDistinct
<1>3. left' = [left EXCEPT ![p][j] = @ \ {<<q, s>>}]
      /\ UNCHANGED <<net, pc, round, send, try, errors, jobId>>
  BY DEF GetShare
<1>4. TypeOK'
  BY <1>1, <1>2, <1>3 DEF OwnInv, TypeOK
<1>5. BoxInv'
  BY <1>1 DEF OwnInv, TypeOK, BoxInv
<1>6. OnlyOwnShares'
  BY <1>1, <1>2 DEF OwnInv, TypeOK, OnlyOwnShares
<1>7. ThreadsInv' /\ NetInv' /\ SendInv'
  BY <1>3 DEF OwnInv, ThreadsInv, NetInv, SendInv
<1> QED BY <1>4, <1>5, <1>6, <1>7 DEF OwnInv

LEMMA ReconsDoneKeeps ==
  ASSUME OwnInv, NEW p \in Parties, NEW j \in Jobs, ReconsDone(p, j)
  PROVE  OwnInv'
<1>1. TypeOK'
  BY DEF ReconsDone, Goto, OwnInv, TypeOK
<1>2. ThreadsInv' /\ SendInv'
  BY DEF ReconsDone, Goto, OwnInv, TypeOK, ThreadsInv, SendInv
<1>3. NetInv' /\ BoxInv' /\ OnlyOwnShares'
  BY DEF ReconsDone, OwnInv, NetInv, BoxInv, OnlyOwnShares
<1> QED BY <1>1, <1>2, <1>3 DEF OwnInv

LEMMA StutterKeeps == OwnInv /\ UNCHANGED exchangeVars => OwnInv'
BY DEF exchangeVars, OwnInv, TypeOK, ThreadsInv, NetInv, BoxInv, SendInv, OnlyOwnShares

-----------------------------------------------------------------------------
\* Everything addressed by a job id belongs to the job of that id, in flight, in
\* every mailbox and in what the threads have taken.
THEOREM ExchangeInvariant ==
  ASSUME IdsDistinct
  PROVE  Spec => []OwnInv
<1>1. Init => OwnInv
  BY OwnInit
<1>2. OwnInv /\ [Next]_exchangeVars => OwnInv'
  <2> SUFFICES ASSUME OwnInv, [Next]_exchangeVars PROVE OwnInv'
    OBVIOUS
  <2>1. ASSUME NEW p \in Parties, NEW j \in Jobs, Step(p, j) PROVE OwnInv'
    <3>1. ASSUME NEW q \in Parties, Send(p, j, q) PROVE OwnInv'
      BY <3>1, SendKeeps
    <3>2. CASE OpenDone(p, j)
      BY <3>2, OpenDoneKeeps
    <3>3. ASSUME NEW y \in left[p][j], GetShare(p, j, y[1], y[2]) PROVE OwnInv'
      BY <3>3, GetShareKeeps
    <3>4. CASE ReconsDone(p, j)
      BY <3>4, ReconsDoneKeeps
    <3> QED BY <2>1, <3>1, <3>2, <3>3, <3>4 DEF Step
  <2>2. ASSUME NEW p \in Parties, NEW j \in Jobs, NEW q \in Parties, SendFails(p, j, q)
        PROVE  OwnInv'
    BY <2>2, SendFailsKeeps
  <2>3. ASSUME NEW p \in Parties, Handle(p) PROVE OwnInv'
    BY <2>3, ExchangeSharesKeeps DEF Handle
  <2>4. ASSUME NEW p \in Parties, NEW j \in Jobs, Start(p, j, JobIdOf[j]) PROVE OwnInv'
    BY <2>4, StartKeeps
  <2>5. CASE UNCHANGED exchangeVars
    BY <2>5, StutterKeeps
  <2> QED BY <2>1, <2>2, <2>3, <2>4, <2>5 DEF Next, ExchangeNext, Finished
<1> QED BY <1>1, <1>2, PTL DEF Spec

\* A thread takes only values of its own job, whatever requests are lost, late,
\* repeated or broken off, as long as no two jobs have the same id.
THEOREM JobsDoNotMix ==
  ASSUME IdsDistinct
  PROVE  Spec => []OnlyOwnShares
BY ExchangeInvariant, PTL DEF OwnInv

-----------------------------------------------------------------------------
(* The threads of a job run in step.  A value that is under way or in a     *)
(* mailbox is of a round its sender has come to; so a thread that has taken *)
(* a share of its own round knows where the other thread is.                *)

NetRounds == \A m \in net : m.round <= round[m.from][m.for]
BoxRounds ==
  \A p \in Parties : \A e \in shares[p] :
    \E r \in Nat : r <= round[e.key.from][e.val] /\ e.key.share \in ShareIds(r)

\* A thread in recons has taken a share of q only if q has come to its round.
LeftRounds ==
  \A p \in Parties, j \in Jobs : pc[p][j] = "recons" =>
    /\ left[p][j] \subseteq Others(p) \X ShareIds(round[p][j])
    /\ \A q \in Others(p) :
         \/ round[p][j] <= round[q][j]
         \/ \A s \in ShareIds(round[p][j]) : <<q, s>> \in left[p][j]

StepInv == NetRounds /\ BoxRounds /\ LeftRounds /\ Lockstep

\* A share id is of one round.
LEMMA ShareIdsApart ==
  ASSUME NEW r \in Nat, NEW t \in Nat, NEW s, s \in ShareIds(r), s \in ShareIds(t)
  PROVE  r = t
<1>1. Width \in Nat
  BY ExchangeAssumption
<1>2. PICK i \in 0..(Width - 1) : s = r * Width + i
  BY DEF ShareIds
<1>3. PICK k \in 0..(Width - 1) : s = t * Width + k
  BY DEF ShareIds
<1>4. \A x, y \in Nat : x < y => x * Width + Width <= y * Width
  <2> SUFFICES ASSUME NEW x \in Nat, NEW y \in Nat, x < y PROVE x * Width + Width <= y * Width
    OBVIOUS
  <2>1. PICK z \in Nat : y = x + 1 + z
    <3>1. y - x - 1 \in Nat /\ y = x + 1 + (y - x - 1)
      OBVIOUS
    <3> QED BY <3>1
  <2>2. y * Width = x * Width + Width + z * Width /\ z * Width \in Nat /\ x * Width \in Nat
    BY <1>1, <2>1
  <2> QED BY <1>1, <2>2
<1>5. r * Width \in Nat /\ t * Width \in Nat
  BY <1>1
<1>6. ~(r < t) /\ ~(t < r)
  BY <1>1, <1>2, <1>3, <1>4, <1>5
<1> QED BY <1>6

\* What a handler stores are shares of the round of the request.
LEMMA StoredRounds ==
  ASSUME NEW box, NEW m, NEW ids
  PROVE  \A e \in Stored(box, m, ids) :
           e \in box \/ (e.key.from = m.from /\ e.key.share \in ids /\ e.val = m.for)
<1> DEFINE new == {[key |-> [from |-> m.from, share |-> s, job |-> m.job],
                    val |-> m.for] : s \in ids}
<1>1. Stored(box, m, ids) \subseteq box \cup new
  BY DEF Stored
<1>2. \A e \in new : e.key.from = m.from /\ e.key.share \in ids /\ e.val = m.for
  OBVIOUS
<1> QED BY <1>1, <1>2

LEMMA StepInit == Init => StepInv
<1> SUFFICES ASSUME Init PROVE StepInv
  OBVIOUS
<1>1. \A p \in Parties, j \in Jobs : round[p][j] = 0 /\ pc[p][j] = "idle"
  BY DEF Init, ForAllThreads
<1>2. net = {} /\ \A p \in Parties : shares[p] = {}
  BY DEF Init
<1> QED BY <1>1, <1>2 DEF StepInv, NetRounds, BoxRounds, LeftRounds, Lockstep

\* The steps that do not touch a mailbox or what is under way.
LEMMA StartInStep ==
  ASSUME OwnInv, StepInv, NEW p \in Parties, NEW j \in Jobs, NEW i, Start(p, j, i)
  PROVE  StepInv'
<1>1. UNCHANGED <<shares, net, round, left>>
  BY DEF Start
<1>2. \A q \in Parties, k \in Jobs : pc'[q][k] = "recons" => pc[q][k] = "recons"
  BY DEF Start, Goto, OwnInv, TypeOK
<1> QED BY <1>1, <1>2 DEF StepInv, NetRounds, BoxRounds, LeftRounds, Lockstep

LEMMA SendInStep ==
  ASSUME OwnInv, StepInv, NEW p \in Parties, NEW j \in Jobs, NEW q \in Parties, Send(p, j, q)
  PROVE  StepInv'
<1>1. /\ net' = net \cup {Request(p, j, q)}
      /\ UNCHANGED <<shares, round, left, pc>>
  BY DEF Send
<1>2. /\ Request(p, j, q).round = round[p][j] /\ Request(p, j, q).from = p
      /\ Request(p, j, q).for = j
  BY DEF Request
<1>3. round[p][j] \in Nat
  BY DEF OwnInv, TypeOK
<1>4. NetRounds'
  BY <1>1, <1>2, <1>3 DEF StepInv, NetRounds
<1> QED BY <1>1, <1>4 DEF StepInv, BoxRounds, LeftRounds, Lockstep

\* A mailbox into which shares of one request were read.
LEMMA ReadInStep ==
  ASSUME OwnInv, StepInv, NEW m \in Requests, m.round <= round[m.from][m.for],
         NEW ids \in SUBSET ShareIds(m.round),
         shares' = [shares EXCEPT ![m.to] = Stored(shares[m.to], m, ids)],
         net' \subseteq net, UNCHANGED <<round, left, pc>>
  PROVE  StepInv'
<1>1. m.to \in Parties /\ m.round \in Nat
  BY DEF Requests
<1>2. \A p \in Parties : \A e \in shares'[p] :
        e \in shares[p] \/ (e.key.from = m.from /\ e.key.share \in ids /\ e.val = m.for)
  <2> TAKE p \in Parties
  <2>1. shares'[p] = IF p = m.to THEN Stored(shares[m.to], m, ids) ELSE shares[p]
    BY <1>1 DEF OwnInv, TypeOK
  <2> QED BY <2>1, StoredRounds
<1>3. BoxRounds'
  <2> SUFFICES ASSUME NEW p \in Parties, NEW e \in shares'[p]
               PROVE  \E r \in Nat : r <= round[e.key.from][e.val] /\ e.key.share \in ShareIds(r)
    BY DEF BoxRounds
  <2>1. CASE e \in shares[p]
    BY <2>1 DEF StepInv, BoxRounds
  <2>2. CASE e.key.from = m.from /\ e.key.share \in ids /\ e.val = m.for
    BY <1>1, <2>2
  <2> QED BY <1>2, <2>1, <2>2
<1> QED BY <1>3 DEF StepInv, NetRounds, LeftRounds, Lockstep

LEMMA ExchangeInStep ==
  ASSUME OwnInv, StepInv, NEW m \in net, ExchangeShares(m)
  PROVE  StepInv'
<1>1. m \in Requests /\ m.round <= round[m.from][m.for]
  BY DEF OwnInv, TypeOK, StepInv, NetRounds
<1>2. /\ shares' = [shares EXCEPT ![m.to] = Stored(shares[m.to], m, ShareIds(m.round))]
      /\ net' \subseteq net /\ UNCHANGED <<round, left, pc>>
  BY DEF ExchangeShares
<1> QED BY <1>1, <1>2, ReadInStep

LEMMA SendFailsInStep ==
  ASSUME OwnInv, StepInv, NEW p \in Parties, NEW j \in Jobs, NEW q \in Parties, SendFails(p, j, q)
  PROVE  StepInv'
<1> DEFINE m == Request(p, j, q)
<1>1. net' \subseteq net /\ UNCHANGED <<round, left, pc>>
  BY DEF SendFails
<1>2. CASE UNCHANGED shares
  BY <1>1, <1>2 DEF StepInv, NetRounds, BoxRounds, LeftRounds, Lockstep
<1>3. CASE \E n \in 0..Width :
             LET ids == {s \in ShareIds(round[p][j]) : s < round[p][j] * Width + n}
             IN shares' = [shares EXCEPT ![q] = Stored(@, m, ids)]
  <2>1. PICK ids \in SUBSET ShareIds(round[p][j]) :
          shares' = [shares EXCEPT ![q] = Stored(shares[q], m, ids)]
    BY <1>3
  <2>2. m.round = round[p][j] /\ m.from = p /\ m.for = j /\ m.to = q /\ round[p][j] \in Nat
    BY DEF Request, OwnInv, TypeOK
  <2>3. m \in Requests
    <3>1. pc[p][j] # "idle"
      BY DEF SendFails, OwnInv, SendInv
    <3> QED BY <3>1, RequestIsOwn
  <2> HIDE DEF m
  <2>4. m.round <= round[m.from][m.for]
    BY <2>2
  <2> QED BY <1>1, <2>1, <2>2, <2>3, <2>4, ReadInStep
<1> QED BY <1>2, <1>3 DEF SendFails

LEMMA OpenDoneInStep ==
  ASSUME OwnInv, StepInv, NEW p \in Parties, NEW j \in Jobs, OpenDone(p, j)
  PROVE  StepInv'
<1>1. UNCHANGED <<shares, net, round>>
  BY DEF OpenDone
<1>2. /\ left'[p][j] = Others(p) \X ShareIds(round[p][j])
      /\ \A q \in Parties, k \in Jobs : (q # p \/ k # j) =>
           left'[q][k] = left[q][k] /\ pc'[q][k] = pc[q][k]
  BY DEF OpenDone, Goto, OwnInv, TypeOK
<1>3. LeftRounds'
  <2> SUFFICES ASSUME NEW o \in Parties, NEW k \in Jobs, pc'[o][k] = "recons"
               PROVE  /\ left'[o][k] \subseteq Others(o) \X ShareIds(round[o][k])
                      /\ \A q \in Others(o) :
                           \/ round[o][k] <= round[q][k]
                           \/ \A s \in ShareIds(round[o][k]) : <<q, s>> \in left'[o][k]
    BY <1>1 DEF LeftRounds
  <2>1. CASE o = p /\ k = j
    BY <1>2, <2>1
  <2>2. CASE o # p \/ k # j
    BY <1>2, <2>2 DEF StepInv, LeftRounds
  <2> QED BY <2>1, <2>2
<1> QED BY <1>1, <1>3 DEF StepInv, NetRounds, BoxRounds, Lockstep

\* The share taken is of this round and of this job, so its sender is here too.
LEMMA GetShareInStep ==
  ASSUME IdsDistinct, OwnInv, StepInv, NEW p \in Parties, NEW j \in Jobs, NEW q, NEW s,
         GetShare(p, j, q, s)
  PROVE  StepInv'
<1>1. /\ pc[p][j] = "recons" /\ <<q, s>> \in left[p][j]
      /\ left' = [left EXCEPT ![p][j] = @ \ {<<q, s>>}]
      /\ UNCHANGED <<net, pc, round>>
  BY DEF GetShare
<1>2. PICK e \in shares[p] : /\ e.key = [from |-> q, share |-> s, job |-> IdOf(p, j)]
                             /\ shares' = [shares EXCEPT ![p] = @ \ {e}]
  BY Zenon DEF GetShare
<1>3. \A o \in Parties : shares'[o] \subseteq shares[o]
  BY <1>2 DEF OwnInv, TypeOK
<1>4. BoxRounds'
  BY <1>1, <1>3 DEF StepInv, BoxRounds
<1>5. e.key.from = q /\ e.key.share = s /\ e.key.job = IdOf(p, j)
  BY <1>2
<1>6. e.val = j
  <2>1. IdOf(p, j) = JobIdOf[j]
    BY <1>1 DEF OwnInv, ThreadsInv, IdOf
  <2>2. e.val \in Jobs /\ JobIdOf[e.val] = JobIdOf[j]
    BY <1>5, <2>1 DEF OwnInv, TypeOK, BoxInv, Entries
  <2> QED BY <2>2 DEF IdsDistinct
<1>7. q \in Others(p) /\ s \in ShareIds(round[p][j]) /\ round[p][j] \in Nat
  <2>1. <<q, s>> \in Others(p) \X ShareIds(round[p][j])
    BY <1>1 DEF StepInv, LeftRounds
  <2> QED BY <2>1 DEF OwnInv, TypeOK
<1>8. round[p][j] <= round[q][j]
  <2>1. PICK r \in Nat : r <= round[q][j] /\ s \in ShareIds(r)
    BY <1>5, <1>6 DEF StepInv, BoxRounds
  <2>2. r = round[p][j]
    BY <1>7, <2>1, ShareIdsApart
  <2> QED BY <2>1, <2>2
<1>9. /\ left'[p][j] = left[p][j] \ {<<q, s>>}
      /\ \A o \in Parties, k \in Jobs : (o # p \/ k # j) => left'[o][k] = left[o][k]
  BY <1>1 DEF OwnInv, TypeOK
<1>10. LeftRounds'
  <2> SUFFICES ASSUME NEW o \in Parties, NEW k \in Jobs, pc[o][k] = "recons"
               PROVE  /\ left'[o][k] \subseteq Others(o) \X ShareIds(round[o][k])
                      /\ \A x \in Others(o) :
                           \/ round[o][k] <= round[x][k]
                           \/ \A y \in ShareIds(round[o][k]) : <<x, y>> \in left'[o][k]
    BY <1>1 DEF LeftRounds
  <2>0. /\ left[o][k] \subseteq Others(o) \X ShareIds(round[o][k])
        /\ \A x \in Others(o) :
             \/ round[o][k] <= round[x][k]
             \/ \A y \in ShareIds(round[o][k]) : <<x, y>> \in left[o][k]
    BY DEF StepInv, LeftRounds
  <2>1. CASE o = p /\ k = j
    BY <1>8, <1>9, <2>0, <2>1
  <2>2. CASE o # p \/ k # j
    BY <1>9, <2>0, <2>2
  <2> QED BY <2>1, <2>2
<1> QED BY <1>1, <1>4, <1>10 DEF StepInv, NetRounds, Lockstep

\* A thread leaves a round when it has taken a share of everybody.
LEMMA ReconsDoneInStep ==
  ASSUME Width > 0, OwnInv, StepInv, NEW p \in Parties, NEW j \in Jobs, ReconsDone(p, j)
  PROVE  StepInv'
<1>1. /\ pc[p][j] = "recons" /\ left[p][j] = {} /\ UNCHANGED <<shares, net, left>>
      /\ round' = [round EXCEPT ![p][j] = @ + 1]
      /\ \E label \in {"open", "done"} : pc' = [pc EXCEPT ![p][j] = label]
  BY DEF ReconsDone, Goto
<1>2. /\ \A o \in Parties, k \in Jobs : round[o][k] \in Nat
      /\ \A o \in Parties, k \in Jobs : (o # p \/ k # j) =>
           round'[o][k] = round[o][k] /\ pc'[o][k] = pc[o][k]
      /\ round'[p][j] = round[p][j] + 1 /\ pc'[p][j] # "recons"
  BY <1>1 DEF OwnInv, TypeOK
<1>3. \A o \in Parties, k \in Jobs : round'[o][k] \in Nat /\ round[o][k] <= round'[o][k]
  BY <1>2
<1>4. \A q \in Others(p) : round[p][j] <= round[q][j]
  <2>1. round[p][j] * Width + 0 \in ShareIds(round[p][j])
    BY ExchangeAssumption DEF ShareIds
  <2> QED BY <1>1, <2>1 DEF StepInv, LeftRounds
<1>5. Lockstep'
  <2> SUFFICES ASSUME NEW o \in Parties, NEW q \in Parties, NEW k \in Jobs
               PROVE  round'[o][k] <= round'[q][k] + 1
    BY DEF Lockstep
  <2>1. round[o][k] <= round[q][k] + 1
    BY DEF StepInv, Lockstep
  <2>2. CASE o = p /\ k = j /\ q # p
    BY <1>2, <1>4, <2>2 DEF Others
  <2>3. CASE ~(o = p /\ k = j)
    BY <1>2, <1>3, <2>1, <2>3
  <2>4. CASE o = q
    BY <1>3, <2>4
  <2> QED BY <2>2, <2>3, <2>4
<1>6. NetRounds'
  <2> SUFFICES ASSUME NEW m \in net PROVE m.round <= round'[m.from][m.for]
    BY <1>1 DEF NetRounds
  <2>1. m.from \in Parties /\ m.for \in Jobs /\ m.round \in Nat
    BY DEF OwnInv, TypeOK, Requests
  <2>2. m.round <= round[m.from][m.for]
    BY DEF StepInv, NetRounds
  <2> QED BY <1>2, <1>3, <2>1, <2>2
<1>7. BoxRounds'
  <2> SUFFICES ASSUME NEW o \in Parties, NEW e \in shares[o]
               PROVE  \E r \in Nat : r <= round'[e.key.from][e.val] /\ e.key.share \in ShareIds(r)
    BY <1>1 DEF BoxRounds
  <2>1. e.key.from \in Parties /\ e.val \in Jobs
    BY DEF OwnInv, TypeOK, Entries, Addresses
  <2>2. PICK r \in Nat : r <= round[e.key.from][e.val] /\ e.key.share \in ShareIds(r)
    BY DEF StepInv, BoxRounds
  <2>3. r <= round'[e.key.from][e.val]
    BY <1>2, <1>3, <2>1, <2>2
  <2> QED BY <2>2, <2>3
<1>8. LeftRounds'
  <2> SUFFICES ASSUME NEW o \in Parties, NEW k \in Jobs, pc'[o][k] = "recons"
               PROVE  /\ left[o][k] \subseteq Others(o) \X ShareIds(round'[o][k])
                      /\ \A x \in Others(o) :
                           \/ round'[o][k] <= round'[x][k]
                           \/ \A y \in ShareIds(round'[o][k]) : <<x, y>> \in left[o][k]
    BY <1>1 DEF LeftRounds
  <2>1. (o # p \/ k # j) /\ round'[o][k] = round[o][k] /\ pc[o][k] = "recons"
    BY <1>2
  <2>2. /\ left[o][k] \subseteq Others(o) \X ShareIds(round[o][k])
        /\ \A x \in Others(o) :
             \/ round[o][k] <= round[x][k]
             \/ \A y \in ShareIds(round[o][k]) : <<x, y>> \in left[o][k]
    BY <2>1 DEF StepInv, LeftRounds
  <2>3. \A x \in Others(o) : round[o][k] <= round[x][k] => round[o][k] <= round'[x][k]
    BY <1>2, <1>3 DEF Others
  <2> QED BY <2>1, <2>2, <2>3
<1> QED BY <1>5, <1>6, <1>7, <1>8 DEF StepInv

\* Opening a value is a rendezvous of the parties: no thread of a job is more
\* than one value ahead of another.  It takes distinct job ids, and at least one
\* share in every request.
THEOREM JobsRunInStep ==
  ASSUME IdsDistinct, Width > 0
  PROVE  Spec => []Lockstep
<1>1. Init => OwnInv /\ StepInv
  BY OwnInit, StepInit
<1>2. OwnInv /\ StepInv /\ [Next]_exchangeVars => StepInv'
  <2> SUFFICES ASSUME OwnInv, StepInv, [Next]_exchangeVars PROVE StepInv'
    OBVIOUS
  <2>1. ASSUME NEW p \in Parties, NEW j \in Jobs, Step(p, j) PROVE StepInv'
    <3>1. ASSUME NEW q \in Parties, Send(p, j, q) PROVE StepInv'
      BY <3>1, SendInStep
    <3>2. CASE OpenDone(p, j)
      BY <3>2, OpenDoneInStep
    <3>3. ASSUME NEW y \in left[p][j], GetShare(p, j, y[1], y[2]) PROVE StepInv'
      BY <3>3, GetShareInStep
    <3>4. CASE ReconsDone(p, j)
      BY <3>4, ReconsDoneInStep
    <3> QED BY <2>1, <3>1, <3>2, <3>3, <3>4 DEF Step
  <2>2. ASSUME NEW p \in Parties, NEW j \in Jobs, NEW q \in Parties, SendFails(p, j, q)
        PROVE  StepInv'
    BY <2>2, SendFailsInStep
  <2>3. ASSUME NEW p \in Parties, Handle(p) PROVE StepInv'
    BY <2>3, ExchangeInStep DEF Handle
  <2>4. ASSUME NEW p \in Parties, NEW j \in Jobs, Start(p, j, JobIdOf[j]) PROVE StepInv'
    BY <2>4, StartInStep
  <2>5. CASE UNCHANGED exchangeVars
    BY <2>5 DEF exchangeVars, StepInv, NetRounds, BoxRounds, LeftRounds, Lockstep
  <2> QED BY <2>1, <2>2, <2>3, <2>4, <2>5 DEF Next, ExchangeNext, Finished
<1>3. Spec => []OwnInv
  BY ExchangeInvariant
<1>4. StepInv => Lockstep
  BY DEF StepInv
<1> QED BY <1>1, <1>2, <1>3, <1>4, PTL DEF Spec
=============================================================================
