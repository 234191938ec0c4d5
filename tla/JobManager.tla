----------------------------- MODULE JobManager -----------------------------
(***************************************************************************)
(* The job manager of the computation containers, Job/JobManager.hpp, and  *)
(* the jobs it starts.  The manager of the party SP takes a request from   *)
(* one queue and a job id from another, tells every party in turn to start *)
(* the job, and puts the id back when SP's own thread of the job ends.     *)
(* The threads exchange shares as in module ShareExchange, addressed by    *)
(* that job id.  The queues are taken at what BoundedQueue promises.       *)
(*                                                                         *)
(* A start request that fails is repeated, though the party may have       *)
(* handled it or may do so later.  Then the job has one more thread there, *)
(* which is called a twin.                                                 *)
(***************************************************************************)
EXTENDS Naturals, Sequences, FiniteSets

CONSTANTS Parties,
          SP,         \* sp_id
          Jobs,       \* requests the client makes, one execution each
          Twins,      \* threads made by start requests that failed at the caller
          MaxJobNum,  \* bound of MAX_JOB_NUM
          MayFail,    \* jobs and twins whose threads may fail before they compute
          Rounds, Width, MaxErrors  \* as in ShareExchange

ASSUME ManagerAssumption ==
  /\ Parties \subseteq Nat /\ SP \in Parties
  /\ IsFiniteSet(Jobs) /\ IsFiniteSet(Twins) /\ Jobs \cap Twins = {}
  /\ MayFail \subseteq Jobs \cup Twins
  /\ MaxJobNum \in Nat
  /\ Rounds \in Nat /\ Width \in Nat /\ MaxErrors \in Nat

JobIds == 1..MaxJobNum
Runs == Jobs \cup Twins
Overtaking == {"thread", "leftover"}

VARIABLES
  shares, net, pc, jobId, round, send, try, left, taken, errors,  \* ShareExchange
  submitted,  \* the requests made so far
  reqQueue,   \* job_req_queue of SP
  idQueue,    \* job_id_queue of SP
  current,    \* the request runJobManager is dealing with, as a set
  currentId,  \* the job id it popped for it, as a set
  told,       \* the parties sendJobInfo has told
  orphans,    \* start requests that failed at SP and may still be handled
  returned,   \* the jobs and twins whose id SP's thread has put back
  maxJobNum,  \* MAX_JOB_NUM, with fewer ids than jobs or enough of them
  overtaken   \* history: what an earlier job under the same id had not done with
              \* when a job was started: a "thread", a "leftover" share or request

exchangeVars == <<shares, net, pc, jobId, round, send, try, left, taken, errors>>
managerVars == <<submitted, reqQueue, idQueue, current, currentId, told, orphans,
                 returned, maxJobNum, overtaken>>
vars == <<exchangeVars, managerVars>>

\* Which job runs under which id is decided here, so JobIdOf is not used.
ex == INSTANCE ShareExchange WITH Jobs <- Runs, JobIdOf <- [j \in Runs |-> 1]

TypeOK ==
  /\ ex!TypeOK
  /\ submitted \subseteq Jobs /\ returned \subseteq Runs
  /\ reqQueue \in Seq(Jobs) /\ idQueue \in Seq(JobIds)
  /\ current \subseteq Jobs /\ currentId \subseteq JobIds
  /\ told \subseteq Parties
  /\ orphans \subseteq [to : Parties, run : Twins, id : JobIds]
  /\ maxJobNum \in 1..MaxJobNum /\ overtaken \subseteq Overtaking

\* Mutant: ids counted from 0.
IdsFromZero == [i \in 1..maxJobNum |-> i - 1]

\* Mutant: one id for all.
OneIdForAll == [i \in 1..maxJobNum |-> 1]

\* The constructor fills job_id_queue.
InitialIds == [i \in 1..maxJobNum |-> i]

Init ==
  /\ ex!Init
  /\ maxJobNum \in 1..MaxJobNum /\ overtaken = {}
  /\ submitted = {} /\ returned = {} /\ orphans = {}
  /\ reqQueue = << >>
  /\ idQueue = InitialIds
  /\ current = {} /\ currentId = {} /\ told = {}

\* ExecuteComputation of SP; the other parties answer and do nothing.
PushJobReq(j) ==
  /\ j \notin submitted
  /\ submitted' = submitted \cup {j}
  /\ reqQueue' = Append(reqQueue, j)
  /\ UNCHANGED <<exchangeVars, idQueue, current, currentId, told, orphans,
                 returned, maxJobNum, overtaken>>

\* runJobManager, step 1.
PollingPopJobReq ==
  /\ current = {} /\ reqQueue # << >>
  /\ current' = {Head(reqQueue)}
  /\ reqQueue' = Tail(reqQueue)
  /\ UNCHANGED <<exchangeVars, submitted, idQueue, currentId, told, orphans,
                 returned, maxJobNum, overtaken>>

\* runJobManager, step 2.
PollingPopJobId ==
  /\ current # {} /\ currentId = {} /\ idQueue # << >>
  /\ currentId' = {Head(idQueue)}
  /\ idQueue' = Tail(idQueue)
  /\ UNCHANGED <<exchangeVars, submitted, reqQueue, current, told, orphans,
                 returned, maxJobNum, overtaken>>

Ended(p, j) == pc[p][j] \in {"done", "failed"}

\* SP has put back the id of job j, but another party still runs its thread
\* of it, or a share or a request of it is left over.
Straggles(j, what) ==
  /\ j \in returned
  /\ CASE what = "thread" -> \E p \in Parties : ~ Ended(p, j)
       [] what = "leftover" -> \/ \E p \in Parties : \E e \in shares[p] : e.val = j
                              \/ \E r \in net : r.for = j

\* The request of sendJobInfo that is under way: parties in order, SP included.
NextToTell(p) == p \notin told /\ \A u \in Parties \ told : p <= u

\* executeComputeFromSP is answered: ExecuteComputeFromSP of the party has
\* started the job's thread.
SendJobInfo(p) ==
  /\ NextToTell(p)
  /\ \E j \in current, i \in currentId : ex!Start(p, j, i)
  /\ told' = told \cup {p}
  /\ overtaken' = overtaken \cup
                    {what \in Overtaking : \E j \in Jobs \ current, i \in currentId :
                                             i \in jobId[SP][j] /\ Straggles(j, what)}
  /\ UNCHANGED <<submitted, reqQueue, idQueue, current, currentId, orphans, returned,
                 maxJobNum>>

Unused(t) ==
  /\ \A o \in orphans : o.run # t
  /\ \A p \in Parties : pc[p][t] = "idle"

\* The request fails at the caller, which waits and repeats it.  It was lost,
\* has been handled or will be: it stays in orphans or is taken out at once or
\* later.
SendJobInfoFails(p) ==
  /\ NextToTell(p) /\ current # {} /\ errors < MaxErrors
  /\ errors' = errors + 1
  /\ \E i \in currentId, t \in Twins :
       Unused(t) /\ orphans' = orphans \cup {[to |-> p, run |-> t, id |-> i]}
  /\ UNCHANGED <<shares, net, pc, jobId, round, send, try, left, taken, submitted,
                 reqQueue, idQueue, current, currentId, told, returned, maxJobNum,
                 overtaken>>

\* ExecuteComputeFromSP of a request that its caller has given up.
StartOrphan(o) ==
  /\ o \in orphans
  /\ ex!Start(o.to, o.run, o.id)
  /\ orphans' = orphans \ {o}
  /\ UNCHANGED <<submitted, reqQueue, idQueue, current, currentId, told, returned,
                 maxJobNum, overtaken>>

\* The loop of runJobManager begins again.
SendJobInfoDone ==
  /\ told = Parties
  /\ current' = {} /\ currentId' = {} /\ told' = {}
  /\ UNCHANGED <<exchangeVars, submitted, reqQueue, idQueue, orphans, returned, maxJobNum,
                 overtaken>>

\* The job's own work: its opened values, or an error while it is made or
\* reads its tables, which the thread logs.
Work ==
  /\ ex!ExchangeNext
  /\ UNCHANGED managerVars

JobFails(p, j) ==
  /\ j \in MayFail
  /\ pc[p][j] = "open" /\ round[p][j] = 0
  /\ \A u \in Parties : send[p][j][u] = "todo" /\ try[p][j][u] = 0
  /\ pc' = [pc EXCEPT ![p][j] = "failed"]
  /\ UNCHANGED <<shares, net, jobId, round, send, try, left, taken, errors, managerVars>>

\* Mutant: the id is put back by the error handler and again at the end.
PushJobIdTwice(j) ==
  /\ Ended(SP, j) /\ j \notin returned
  /\ returned' = returned \cup {j}
  /\ \E i \in jobId[SP][j] : idQueue' = idQueue \o <<i, i>>
  /\ UNCHANGED <<exchangeVars, submitted, reqQueue, current, currentId, told,
                 orphans, maxJobNum, overtaken>>

\* Mutant: the push of the id is inside the try block.
PushJobIdInTry(j) ==
  /\ pc[SP][j] = "done" /\ j \notin returned
  /\ returned' = returned \cup {j}
  /\ \E i \in jobId[SP][j] : idQueue' = Append(idQueue, i)
  /\ UNCHANGED <<exchangeVars, submitted, reqQueue, current, currentId, told,
                 orphans, maxJobNum, overtaken>>

\* The end of asyncRun's thread at the trigger party.
PushJobId(j) ==
  /\ Ended(SP, j) /\ j \notin returned
  /\ returned' = returned \cup {j}
  /\ \E i \in jobId[SP][j] : idQueue' = Append(idQueue, i)
  /\ UNCHANGED <<exchangeVars, submitted, reqQueue, current, currentId, told,
                 orphans, maxJobNum, overtaken>>

Manage ==
  \/ PollingPopJobReq \/ PollingPopJobId
  \/ (\E p \in Parties : SendJobInfo(p)) \/ SendJobInfoDone

AllEnded == \A p \in Parties, j \in Jobs : Ended(p, j)
Finished == AllEnded /\ Jobs \subseteq returned /\ current = {} /\ UNCHANGED vars

Next ==
  \/ \E j \in Jobs : PushJobReq(j)
  \/ Manage
  \/ (\E p \in Parties : SendJobInfoFails(p)) \/ (\E o \in orphans : StartOrphan(o))
  \/ Work
  \/ \E p \in Parties, j \in Runs : JobFails(p, j)
  \/ \E j \in Runs : PushJobId(j)
  \/ Finished

Spec == Init /\ [][Next]_vars

\* The manager, the threads and the handlers: what is done when it can be.
\* Requests, failures and orphans are never due.
Progress ==
  \/ Manage
  \/ \E j \in Runs : PushJobId(j)
  \/ /\ \/ \E p \in Parties : ex!Handle(p)
        \/ \E p \in Parties, j \in Runs : ex!Step(p, j)
     /\ UNCHANGED managerVars

\* Less is assumed than fairness to each thread: a run of all jobs has finitely
\* many steps, so none can be put off for ever by the others.
FairSpec == Spec /\ WF_vars(Progress)

-----------------------------------------------------------------------------
\* SP's threads, as users of job ids, and the twins it was ever made to start.
HeldAtSP(i) == {j \in Runs : i \in jobId[SP][j] /\ j \notin returned}
TwinsAtSP(i) == {t \in Twins : i \in jobId[SP][t]}
Copies(i) == {n \in DOMAIN idQueue : idQueue[n] = i}

\* A job id is in one place: once in the queue, or with the manager that has not
\* told SP yet, or with SP's thread of one job.  So SP never runs more than
\* MaxJobNum jobs and never two under one id, unless a start request to SP itself
\* was handled although it failed at the caller: each such request adds one use
\* of its id for good, since both threads put it back, and nothing else does.
IdConservation ==
  \A i \in 1..maxJobNum :
    Cardinality(Copies(i)) + Cardinality(HeldAtSP(i))
      + (IF i \in currentId /\ SP \notin told THEN 1 ELSE 0)
    = 1 + Cardinality(TwinsAtSP(i))

\* Some start request was handled although it failed at the caller.
RepeatedStart == \E p \in Parties, t \in Twins : pc[p][t] # "idle"

\* "job_id_queue manages the job ids that can be used": a job that runs under
\* an id taken from it meets the shares of no other job, be the id new or used
\* before.  There are three exceptions.  SP put the id back and it was taken again
\* while another party was still at work on the last job under it; or while a share
\* or a request of that job was left over, its threads having ended: a repeated
\* request that arrived late, or what a failed thread did not take; or a start
\* request was handled although it failed, so that a job has two threads at a party.
UsableIdsKeepJobsApart == overtaken = {} /\ ~ RepeatedStart => ex!OnlyOwnShares

\* All ids are held by jobs that wait at SP for a party where they failed.
Starved ==
  \A i \in 1..maxJobNum : \E k \in Jobs :
    i \in jobId[SP][k] /\ ~ Ended(SP, k) /\ \E p \in Parties : pc[p][k] = "failed"

\* Every request is carried out at every party, unless a thread of that job
\* fails: lost and repeated exchanges, what they leave over under a reused id,
\* start requests that were lost, the other jobs and their failures do not keep it
\* from its end.  The exceptions: the failures leave no id; a job was started
\* under an id that a thread of an earlier one still used; a start request was
\* handled although it failed.
JobsAreServed ==
  \A j \in Jobs :
    (j \in submitted)
      ~> \/ \A p \in Parties : pc[p][j] = "done"
         \/ \E p \in Parties : pc[p][j] = "failed"
         \/ Starved \/ "thread" \in overtaken \/ RepeatedStart
=============================================================================
