---------------------------- MODULE ShareExchange ----------------------------
(***************************************************************************)
(* How the threads of a job open shared values to each other:              *)
(* Share/Networking.hpp, Share/AddressId.hpp and the client and server     *)
(* ComputationToComputationContainer.  In every round the thread of a      *)
(* party sends its shares to the other parties, in parallel and until each *)
(* request is answered, and then takes the shares of the others out of its *)
(* party's mailbox, a map from (party, share id, job id) to a value.       *)
(*                                                                         *)
(* The thread_id of an address is 0 in every thread and left out.  What a  *)
(* share is worth is not modelled: a value is the job it was computed for. *)
(***************************************************************************)
EXTENDS Naturals, FiniteSets

CONSTANTS Parties,   \* party ids
          Jobs,      \* executions; each has one thread at every party
          JobIds,    \* job ids
          JobIdOf,   \* JobIdOf[j]: the job id of execution j
          Rounds,    \* bound: values opened by a job, one after the other
          Width,     \* shares sent in one request
          MaxErrors  \* bound: requests that fail at the caller

ASSUME ExchangeAssumption ==
  /\ Parties \subseteq Nat /\ IsFiniteSet(Parties)
  /\ JobIdOf \in [Jobs -> JobIds]
  /\ Rounds \in Nat /\ Width \in Nat /\ MaxErrors \in Nat

Others(p) == Parties \ {p}

Addresses == [from : Parties, share : Nat, job : JobIds]
Entries == [key : Addresses, val : Jobs]
Requests ==
  [from : Parties, to : Parties, for : Jobs, job : JobIds, round : Nat, try : Nat]

VARIABLES
  shares,  \* shares[p]: the mailbox of p, a set of entries with distinct keys
  net,     \* requests not yet handled
  pc,      \* pc[p][j]: "idle", "open", "recons", "done" or "failed"
  jobId,   \* jobId[p][j]: job_id_assigned_in_thread, as a set; {} before Start
  round,   \* round[p][j]: how many values the thread has opened so far
  send,    \* send[p][j][q]: "todo", "sent" or "done"
  try,     \* try[p][j][q]: requests to q that failed in this round
  left,    \* left[p][j]: the <<party, share id>> pairs recons has yet to take
  taken,   \* history: taken[p][j], the executions whose values it took
  errors   \* failed requests so far

exchangeVars == <<shares, net, pc, jobId, round, send, try, left, taken, errors>>

TypeOK ==
  /\ shares \in [Parties -> SUBSET Entries]
  /\ net \subseteq Requests
  /\ pc \in [Parties -> [Jobs -> {"idle", "open", "recons", "done", "failed"}]]
  /\ jobId \in [Parties -> [Jobs -> SUBSET JobIds]]
  /\ round \in [Parties -> [Jobs -> Nat]]
  /\ send \in [Parties -> [Jobs -> [Parties -> {"todo", "sent", "done"}]]]
  /\ try \in [Parties -> [Jobs -> [Parties -> Nat]]]
  /\ left \in [Parties -> [Jobs -> SUBSET (Parties \X Nat)]]
  /\ taken \in [Parties -> [Jobs -> SUBSET Jobs]]
  /\ errors \in Nat

ForAllThreads(x) == [p \in Parties |-> [j \in Jobs |-> x]]

Init ==
  /\ shares = [p \in Parties |-> {}] /\ net = {}
  /\ pc = ForAllThreads("idle")
  /\ jobId = ForAllThreads({})
  /\ round = ForAllThreads(0)
  /\ send = ForAllThreads([q \in Parties |-> "todo"])
  /\ try = ForAllThreads([q \in Parties |-> 0])
  /\ left = ForAllThreads({})
  /\ taken = ForAllThreads({})
  /\ errors = 0

Goto(p, j, label) == pc' = [pc EXCEPT ![p][j] = label]

\* The job's thread starts under job id i; its share ids start at 0.
Start(p, j, i) ==
  /\ pc[p][j] = "idle"
  /\ jobId' = [jobId EXCEPT ![p][j] = {i}]
  /\ Goto(p, j, IF Rounds > 0 THEN "open" ELSE "done")
  /\ UNCHANGED <<shares, net, round, send, try, left, taken, errors>>

-----------------------------------------------------------------------------
(* open: one sending thread per other party                                 *)

\* Mutant: the generator is not advanced.
ShareIdsFixed(r) == 0..(Width - 1)

\* The share ids of a round: share_id_generator++ for each value.
ShareIds(r) == {r * Width + i : i \in 0..(Width - 1)}

IdOf(p, j) == CHOOSE i \in jobId[p][j] : TRUE

Request(p, j, q) ==
  [from |-> p, to |-> q, for |-> j, job |-> IdOf(p, j),
   round |-> round[p][j], try |-> try[p][j][q]]

\* exchangeShare, exchangeShares: the request leaves.
Send(p, j, q) ==
  /\ pc[p][j] = "open" /\ q # p /\ send[p][j][q] = "todo"
  /\ net' = net \cup {Request(p, j, q)}
  /\ send' = [send EXCEPT ![p][j][q] = "sent"]
  /\ UNCHANGED <<shares, pc, round, try, left, taken, errors, jobId>>

\* The mailbox after the handler has read the shares ids of request m.
Stored(box, m, ids) ==
  LET new == {[key |-> [from |-> m.from, share |-> s, job |-> m.job],
               val |-> m.for] : s \in ids}
  IN {e \in box : \A n \in new : n.key # e.key} \cup new

Answers(m) == send[m.from][m.for][m.to] = "sent" /\ Request(m.from, m.for, m.to) = m

\* The ExchangeShare(s) handler stores the shares, under the mutex, and the
\* caller, if it still waits for this request, sees it answered.
ExchangeShares(m) ==
  /\ m \in net
  /\ net' = net \ {m}
  /\ shares' = [shares EXCEPT ![m.to] = Stored(@, m, ShareIds(m.round))]
  /\ send' = [send EXCEPT ![m.from][m.for][m.to] = IF Answers(m) THEN "done" ELSE @]
  /\ UNCHANGED <<pc, round, try, left, taken, errors, jobId>>

\* The request fails at the caller, who repeats it: it was lost, is late, or
\* the handler had read the first shares of the stream, perhaps all.
SendFails(p, j, q) ==
  /\ send[p][j][q] = "sent" /\ errors < MaxErrors
  /\ \/ UNCHANGED <<net, shares>>
     \/ /\ Request(p, j, q) \in net
        /\ net' = net \ {Request(p, j, q)}
        /\ \E n \in 0..Width :
             LET ids == {s \in ShareIds(round[p][j]) : s < round[p][j] * Width + n}
             IN shares' = [shares EXCEPT ![q] = Stored(@, Request(p, j, q), ids)]
  /\ send' = [send EXCEPT ![p][j][q] = "todo"]
  /\ try' = [try EXCEPT ![p][j][q] = @ + 1]
  /\ errors' = errors + 1
  /\ UNCHANGED <<pc, round, left, taken, jobId>>

\* Every sending thread is joined; recons begins.
OpenDone(p, j) ==
  /\ pc[p][j] = "open" /\ \A q \in Others(p) : send[p][j][q] = "done"
  /\ left' = [left EXCEPT ![p][j] = Others(p) \X ShareIds(round[p][j])]
  /\ Goto(p, j, "recons")
  /\ UNCHANGED <<shares, net, round, send, try, taken, errors, jobId>>

-----------------------------------------------------------------------------
(* recons                                                                   *)

\* Mutant: the job id is not part of the key.
GetShareOfAnyJob(p, j, q, s) ==
  /\ pc[p][j] = "recons" /\ <<q, s>> \in left[p][j]
  /\ \E e \in shares[p] :
       /\ e.key.from = q /\ e.key.share = s
       /\ shares' = [shares EXCEPT ![p] = @ \ {e}]
       /\ taken' = [taken EXCEPT ![p][j] = @ \cup {e.val}]
  /\ left' = [left EXCEPT ![p][j] = @ \ {<<q, s>>}]
  /\ UNCHANGED <<net, pc, round, send, try, errors, jobId>>

\* getShare, getShares: parties and shares in order; the thread blocks until
\* the share is in the mailbox, takes its value and erases it.
GetShare(p, j, q, s) ==
  /\ pc[p][j] = "recons" /\ <<q, s>> \in left[p][j]
  /\ \A y \in left[p][j] : q < y[1] \/ (q = y[1] /\ s <= y[2])
  /\ \E e \in shares[p] :
       /\ e.key = [from |-> q, share |-> s, job |-> IdOf(p, j)]
       /\ shares' = [shares EXCEPT ![p] = @ \ {e}]
       /\ taken' = [taken EXCEPT ![p][j] = @ \cup {e.val}]
  /\ left' = [left EXCEPT ![p][j] = @ \ {<<q, s>>}]
  /\ UNCHANGED <<net, pc, round, send, try, errors, jobId>>

\* Mutant: the job opens the same value for ever.
ReconsDoneAgain(p, j) ==
  /\ pc[p][j] = "recons" /\ left[p][j] = {}
  /\ send' = [send EXCEPT ![p][j] = [q \in Parties |-> "todo"]]
  /\ Goto(p, j, "open")
  /\ UNCHANGED <<shares, net, round, try, left, taken, errors, jobId>>

\* The value is known; the job goes on to the next one or ends.
ReconsDone(p, j) ==
  /\ pc[p][j] = "recons" /\ left[p][j] = {}
  /\ round' = [round EXCEPT ![p][j] = @ + 1]
  /\ send' = [send EXCEPT ![p][j] = [q \in Parties |-> "todo"]]
  /\ try' = [try EXCEPT ![p][j] = [q \in Parties |-> 0]]
  /\ Goto(p, j, IF round[p][j] + 1 < Rounds THEN "open" ELSE "done")
  /\ UNCHANGED <<shares, net, left, taken, errors, jobId>>

-----------------------------------------------------------------------------
Step(p, j) ==
  \/ (\E q \in Parties : Send(p, j, q)) \/ OpenDone(p, j)
  \/ (\E y \in left[p][j] : GetShare(p, j, y[1], y[2]))
  \/ ReconsDone(p, j)

Handle(p) == \E m \in net : m.to = p /\ ExchangeShares(m)

ExchangeNext ==
  \/ \E p \in Parties, j \in Jobs : Step(p, j)
  \/ \E p \in Parties, j \in Jobs, q \in Parties : SendFails(p, j, q)
  \/ \E p \in Parties : Handle(p)

Finished == (\A p \in Parties, j \in Jobs : pc[p][j] = "done") /\ UNCHANGED exchangeVars

Next ==
  \/ ExchangeNext
  \/ \E p \in Parties, j \in Jobs : Start(p, j, JobIdOf[j])
  \/ Finished

Spec == Init /\ [][Next]_exchangeVars

\* Threads and handlers that can run do; failures are never due.
FairSpec ==
  /\ Spec
  /\ \A p \in Parties, j \in Jobs :
       WF_exchangeVars(Start(p, j, JobIdOf[j])) /\ WF_exchangeVars(Step(p, j))
  /\ \A p \in Parties : WF_exchangeVars(Handle(p))

-----------------------------------------------------------------------------
IdsDistinct == \A j, k \in Jobs : JobIdOf[j] = JobIdOf[k] => j = k

\* A thread takes only values of its own job, even when requests are repeated,
\* late or broken off in the middle.  It needs the job ids to be distinct.
OnlyOwnShares ==
  \A p \in Parties, j \in Jobs : taken[p][j] \subseteq {j}

\* The threads of a job run in step: nobody is more than one value ahead.
Lockstep ==
  \A p, q \in Parties, j \in Jobs : round[p][j] <= round[q][j] + 1

\* Every thread of every job ends, since failed requests are repeated.
JobsEnd == <>(\A p \in Parties, j \in Jobs : pc[p][j] = "done")
=============================================================================
