------------------------------- MODULE JobRun --------------------------------
(***************************************************************************)
(* The jobs and predictions of one computation container: Job/JobBase.hpp, *)
(* Job/JobStatus.hpp, Model/ModelBase.cpp and Model/ModelManager.hpp, with *)
(* the rows they keep in the bucket result through AnyToDb/Client.cpp.  A  *)
(* run is one thread: of a job that ExecuteComputeFromSP started, or of a  *)
(* prediction.  A start that was repeated is a second run with the same    *)
(* job uuid.  Queries may be lost or answered with an error, and what was  *)
(* given up may still be carried out, at once or after later queries.      *)
(***************************************************************************)
EXTENDS Integers, FiniteSets

CONSTANTS Runs, Uuids,
          Tasks,        \* what the runs may be asked for, [Runs -> Task]
          CounterSize,  \* values of the logical counter, 2^16
          MaxClock,     \* ticks of the clock, 2^16 ns each
          MaxErrors     \* failures of a query or of a computation, here or elsewhere

\* A run is asked for a job or a prediction, under a job uuid.  The method may
\* be one nobody knows, a data id may have no rows, the joined table none.
Task == [uuid : Uuids, kind : {"job", "predict"}, about : {"ok", "unknown", "noData", "empty"}]

ASSUME RunAssumption ==
  /\ IsFiniteSet(Runs) /\ Tasks \subseteq [Runs -> Task]
  /\ CounterSize \in Nat \ {0} /\ MaxClock \in Nat /\ MaxErrors \in Nat

\* pb_common_types::JobStatus.
UNKNOWN == 0
PRE_JOB == 1
READ_DB == 2
COMPUTE == 3
WRITE_DB == 4
COMPLETED == 5

VARIABLES
  task,     \* what each run is asked for
  pc,       \* where the thread of a run is
  status,   \* statusManager.status of the run
  key,      \* the key of the row it inserts
  counter,  \* the static of getLogicalCounter
  precas,   \* the static of getCas
  clock,    \* the timestamp without its low 16 bits
  drawn,    \* values of the counter drawn since the clock ticked
  got,      \* the counter as a thread has read it
  docs,     \* the bucket result: [key, uuid, status, result]
  errors,   \* failures so far
  left,     \* attempts of queries that were given up and are with DbGate
  landed,   \* those of them that DbGate carried out
  alive,    \* FALSE when the container has crashed
  reply,    \* the answer to a prediction
  raced     \* whether two threads were in getLogicalCounter at once

keyVars == <<key, counter, precas, clock, drawn, got, raced>>
dbVars == <<docs, errors, left, landed>>
vars == <<task, pc, status, keyVars, dbVars, alive, reply>>

Codes == {"none", "OK", "INVALID_ARGUMENT", "INTERNAL", "ABORTED", "UNKNOWN"}
Points == {"idle", "key", "count", "register", "update", "read", "compute", "write",
           "stuck", "returned", "thrown", "done"}
Keys == 0..((MaxClock + 1) * CounterSize)

\* A query of a run, with the key and the status it had when it was put
\* together.
Queries == [what : {"select", "insert", "status", "result"}, run : Runs, key : Keys,
            status : UNKNOWN..COMPLETED]
Attempts == [no : 0..(MaxErrors - 1), query : Queries]

TypeOK ==
  /\ task \in [Runs -> Task]
  /\ pc \in [Runs -> Points] /\ status \in [Runs -> UNKNOWN..COMPLETED]
  /\ key \in [Runs -> Keys]
  /\ counter \in 0..(CounterSize - 1) /\ precas \in Keys
  /\ clock \in 0..MaxClock /\ drawn \in 0..CounterSize
  /\ got \in [Runs -> [clock : 0..MaxClock, counter : 0..(CounterSize - 1)]]
  /\ docs \subseteq [key : Keys, uuid : Uuids, status : UNKNOWN..COMPLETED, result : SUBSET Runs]
  /\ errors \in 0..MaxErrors /\ alive \in BOOLEAN /\ raced \in BOOLEAN
  /\ left \subseteq Attempts /\ landed \subseteq left
  /\ reply \in [Runs -> Codes]

Unread == [clock |-> 0, counter |-> 0]

Init ==
  /\ task \in Tasks
  /\ pc = [r \in Runs |-> "idle"] /\ status = [r \in Runs |-> UNKNOWN]
  /\ key = [r \in Runs |-> 0] /\ precas = 0 /\ clock = 0 /\ drawn = 0
  /\ counter = CounterSize - 1  \* about to wrap, after many jobs
  /\ got = [r \in Runs |-> Unread]
  /\ docs = {} /\ errors = 0 /\ left = {} /\ landed = {}
  /\ alive = TRUE /\ raced = FALSE
  /\ reply = [r \in Runs |-> "none"]

At(r, point) == alive /\ pc[r] = point
Goto(r, point) == pc' = [pc EXCEPT ![r] = point]
Is(r, about) == task[r].about = about

\* asyncRun and JobSelector, ModelManager::push and select.  A job's
\* StatusManager registers it when it is made, a prediction's in initJobID.
Start(r) ==
  /\ At(r, "idle")
  /\ IF Is(r, "unknown") THEN Goto(r, "returned") /\ UNCHANGED status
     ELSE Goto(r, "key") /\ status' = [status EXCEPT ![r] = PRE_JOB]
  /\ UNCHANGED <<task, keyVars, dbVars, alive, reply>>

-----------------------------------------------------------------------------
(* The key of a row: getCas, and counter++ in getLogicalCounter, which is a *)
(* read and a write without a lock.                                         *)

Tick ==
  /\ alive /\ drawn > 0 /\ clock < MaxClock
  /\ clock' = clock + 1 /\ drawn' = 0
  /\ UNCHANGED <<task, pc, status, key, counter, precas, got, raced, dbVars, alive, reply>>

\* The clock ticks before the counter has gone round: 2^16 draws take longer
\* than 2^16 ns.  Ticks without a draw in between are one.
createCas(r) ==
  /\ At(r, "key") /\ drawn < CounterSize
  /\ got' = [got EXCEPT ![r] = [clock |-> clock, counter |-> counter]]
  /\ drawn' = drawn + 1
  /\ raced' = (raced \/ \E s \in Runs \ {r} : pc[s] = "count")
  /\ Goto(r, "count")
  /\ UNCHANGED <<task, status, key, counter, precas, clock, dbVars, alive, reply>>

Cas(r) == got[r].clock * CounterSize + got[r].counter

\* Mutant: the counter is read and not moved on.
getCasSameCount(r) ==
  /\ At(r, "count")
  /\ key' = [key EXCEPT ![r] = Cas(r)] /\ precas' = Cas(r) /\ Goto(r, "register")
  /\ got' = [got EXCEPT ![r] = Unread]
  /\ UNCHANGED <<task, status, counter, clock, drawn, raced, dbVars, alive, reply>>

\* Mutant: a counter of more than 16 bits.
getCasWide(r) ==
  /\ At(r, "count")
  /\ counter' = got[r].counter + 1
  /\ IF precas # 0 /\ Cas(r) < precas
     THEN Goto(r, "key") /\ UNCHANGED <<key, precas>>
     ELSE key' = [key EXCEPT ![r] = Cas(r)] /\ precas' = Cas(r) /\ Goto(r, "register")
  /\ got' = [got EXCEPT ![r] = Unread]
  /\ UNCHANGED <<task, status, clock, drawn, raced, dbVars, alive, reply>>

\* The counter is written, and a key smaller than the last one drawn again.
getCas(r) ==
  /\ At(r, "count")
  /\ counter' = (got[r].counter + 1) % CounterSize
  /\ IF precas # 0 /\ Cas(r) < precas
     THEN Goto(r, "key") /\ UNCHANGED <<key, precas>>
     ELSE key' = [key EXCEPT ![r] = Cas(r)] /\ precas' = Cas(r) /\ Goto(r, "register")
  /\ got' = [got EXCEPT ![r] = Unread]
  /\ UNCHANGED <<task, status, clock, drawn, raced, dbVars, alive, reply>>

-----------------------------------------------------------------------------
(* Queries.                                                                 *)

\* An error: thrown by the constructor or initJobID, and otherwise caught by
\* run(), which returns.
Thrown(r) == Goto(r, IF pc[r] = "register" THEN "thrown" ELSE "returned")

\* INSERT; the database refuses a key it has, and DbGate does not report it.
Inserted(k, u) ==
  IF \E d \in docs : d.key = k THEN docs
  ELSE docs \cup {[key |-> k, uuid |-> u, status |-> PRE_JOB, result |-> {}]}

\* UPDATE of every row of a job uuid.
StatusSet(u, s) == {IF d.uuid = u THEN [d EXCEPT !.status = s] ELSE d : d \in docs}
ResultSet(u, v) == {IF d.uuid = u THEN [d EXCEPT !.result = v] ELSE d : d \in docs}

Query(r, what) == [what |-> what, run |-> r, key |-> key[r], status |-> status[r]]

\* The bucket after DbGate has carried a query out.
Applied(q) ==
  LET u == task[q.run].uuid IN
  CASE q.what = "select" -> docs [] q.what = "insert" -> Inserted(q.key, u)
    [] q.what = "status" -> StatusSet(u, q.status) [] q.what = "result" -> ResultSet(u, {q.run})

\* One attempt of executeQuery, and what follows once it succeeds.  An attempt
\* that fails is left with DbGate; it is repeated when the code is UNAVAILABLE
\* and reconnect succeeds within RECONNECT_LIMIT tries, otherwise the error is
\* thrown.
executeQuery(r, q, Done) ==
  \/ docs' = Applied(q) /\ Done /\ UNCHANGED <<errors, left, landed>>
  \/ /\ errors < MaxErrors /\ errors' = errors + 1
     /\ left' = IF q.what = "select" THEN left ELSE left \cup {[no |-> errors, query |-> q]}
     /\ UNCHANGED <<docs, landed, status>> /\ (UNCHANGED pc \/ Thrown(r))

\* DbGate runs a query without looking at the stream it came by: what the
\* client gave up may be carried out at any time, or never.
Land(a) ==
  /\ a \in left \ landed
  /\ docs' = Applied(a.query) /\ landed' = landed \cup {a}
  /\ UNCHANGED <<task, pc, status, keyVars, errors, left, alive, reply>>

\* nextStatus: the status is moved on first, then the row.
NextStatus(r) == status' = [status EXCEPT ![r] = @ + 1] /\ Goto(r, "update")

\* Mutant: a key for every attempt.
registerJobNewKey(r) ==
  /\ At(r, "register")
  /\ executeQuery(r, [Query(r, "insert") EXCEPT !.key = @ + errors], NextStatus(r))
  /\ UNCHANGED <<task, keyVars, alive, reply>>

\* registerJob, and the start of run(): the same query, with the same key, in
\* every attempt.
registerJob(r) ==
  /\ At(r, "register")
  /\ executeQuery(r, Query(r, "insert"), NextStatus(r))
  /\ UNCHANGED <<task, keyVars, alive, reply>>

After(s) == CASE s = READ_DB -> "read" [] s = COMPUTE -> "compute"
              [] s = WRITE_DB -> "write" [] s = COMPLETED -> "returned"

\* Mutant: the row gets the status the run comes from.
updateJobStatusLate(r) ==
  /\ At(r, "update")
  /\ executeQuery(r, [Query(r, "status") EXCEPT !.status = IF @ > COMPUTE THEN @ - 2 ELSE @],
                  Goto(r, After(status[r])) /\ UNCHANGED status)
  /\ UNCHANGED <<task, keyVars, alive, reply>>

updateJobStatus(r) ==
  /\ At(r, "update")
  /\ executeQuery(r, Query(r, "status"), Goto(r, After(status[r])) /\ UNCHANGED status)
  /\ UNCHANGED <<task, keyVars, alive, reply>>

-----------------------------------------------------------------------------
(* run().                                                                   *)

Crash == alive' = FALSE /\ UNCHANGED <<pc, status>>

\* Mutant: a missing table is waited for.
readDbWaits(r) ==
  /\ At(r, "read")
  /\ IF Is(r, "noData") THEN UNCHANGED <<pc, status, dbVars>>
     ELSE executeQuery(r, Query(r, "select"), NextStatus(r))
  /\ UNCHANGED <<task, alive, keyVars, reply>>

\* readDb.  A data id without rows makes the parsing fail with an exception
\* that has no trace: a prediction logs it, a job looks for the trace through a
\* null pointer.  An empty table is indexed at its first row.  Either may end
\* the process or go unnoticed.
readDb(r) ==
  /\ At(r, "read")
  /\ \/ Is(r, "ok") /\ executeQuery(r, Query(r, "select"), NextStatus(r)) /\ UNCHANGED alive
     \/ /\ Is(r, "noData")
        /\ (task[r].kind = "job" /\ Crash) \/ (Thrown(r) /\ UNCHANGED <<status, alive>>)
        /\ UNCHANGED dbVars
     \/ /\ Is(r, "empty")
        /\ Crash \/ (NextStatus(r) /\ UNCHANGED alive) \/ (Thrown(r) /\ UNCHANGED <<status, alive>>)
        /\ UNCHANGED dbVars
  /\ UNCHANGED <<task, keyVars, reply>>

\* compute of a job, predict of a model: it ends or fails; or the thread of
\* another party has failed and the share it owes is waited for in getShare,
\* which has no timeout.
compute(r) ==
  /\ At(r, "compute")
  /\ \/ NextStatus(r) /\ UNCHANGED errors
     \/ /\ errors < MaxErrors /\ errors' = errors + 1
        /\ (Thrown(r) \/ Goto(r, "stuck")) /\ UNCHANGED status
  /\ UNCHANGED <<task, keyVars, docs, left, landed, alive, reply>>

\* Mutant: the row says it is complete, then the result is written.
writeDbAfterwards(r) ==
  /\ At(r, "write")
  /\ executeQuery(r, [Query(r, "status") EXCEPT !.status = COMPLETED], NextStatus(r))
  /\ UNCHANGED <<task, keyVars, alive, reply>>

writeDb(r) ==
  /\ At(r, "write")
  /\ executeQuery(r, Query(r, "result"), NextStatus(r))
  /\ UNCHANGED <<task, keyVars, alive, reply>>

\* The answer of Server::Predict, by the status that run() returns.  An error
\* of initJobID leaves the handler as an exception.
PredictCode(r) ==
  CASE pc[r] = "thrown" -> "UNKNOWN" [] status[r] = UNKNOWN -> "INVALID_ARGUMENT"
    [] status[r] = PRE_JOB -> "INTERNAL" [] status[r] = READ_DB -> "ABORTED" [] OTHER -> "OK"

\* The end of the thread: asyncRun catches everything, f.get() hands the status
\* of a prediction to the handler.
End(r) ==
  /\ alive /\ pc[r] \in {"returned", "thrown"}
  /\ Goto(r, "done")
  /\ reply' = [reply EXCEPT ![r] = IF task[r].kind = "predict" THEN PredictCode(r) ELSE "none"]
  /\ UNCHANGED <<task, status, keyVars, dbVars, alive>>

Step(r) ==
  \/ createCas(r) \/ getCas(r) \/ registerJob(r) \/ updateJobStatus(r)
  \/ readDb(r) \/ compute(r) \/ writeDb(r) \/ End(r)

Finished ==
  (~ alive \/ \A r \in Runs : pc[r] \in {"done", "stuck"}) /\ UNCHANGED vars

Next ==
  \/ Tick \/ Finished
  \/ \E r \in Runs : Start(r) \/ Step(r)
  \/ \E a \in left : Land(a)

\* Threads run, and the clock goes on; nothing makes DbGate carry out what was
\* given up.
Spec == Init /\ [][Next]_vars
FairSpec == Spec /\ WF_vars(Tick) /\ \A r \in Runs : WF_vars(Step(r))

-----------------------------------------------------------------------------
Row(u) == {d \in docs : d.uuid = u}
HasKey(r) == pc[r] \notin {"idle", "key", "count"} /\ ~ Is(r, "unknown")
Sole(r) == \A s \in Runs \ {r} : task[s].uuid = task[r].uuid => pc[s] = "idle"
Registered(r) == HasKey(r) /\ pc[r] # "register" /\ pc[r] # "thrown" /\ status[r] >= READ_DB

\* Keys are different as long as getLogicalCounter is never entered by two
\* threads at once, whatever the clock does and when the counter wraps.
KeysApart ==
  ~ raced => \A r, s \in Runs : r # s /\ HasKey(r) /\ HasKey(s) => key[r] # key[s]

\* A run that got past its registration has one row of its own, however often
\* the INSERT was repeated after a lost answer and however late the repeated
\* ones are carried out; no run has two.
OneRowPerRun ==
  ~ raced => /\ \A r \in Runs : Registered(r) => \E d \in docs : d.key = key[r] /\ d.uuid = task[r].uuid
             /\ \A d \in docs : \E r \in Runs : HasKey(r) /\ key[r] = d.key
             /\ \A u \in Uuids : Cardinality(Row(u)) <= Cardinality({r \in Runs : HasKey(r) /\ task[r].uuid = u})

\* An UPDATE that the run gave up was carried out after all, with this status.
SetLate(r, s) ==
  \E a \in landed : a.query.what = "status" /\ a.query.run = r /\ a.query.status = s

\* The row of a job that was started once is where the job is, or one step
\* behind it, also when a query fails and the job is given up.  It is never
\* ahead, and further behind only with the status of an UPDATE that the run
\* gave up: DbGate may carry that out after the newer ones.
RowFollowsRun ==
  \A r \in Runs : ~ raced /\ Registered(r) /\ Sole(r) =>
    \A d \in Row(task[r].uuid) :
      /\ d.status <= status[r]
      /\ d.status \in {status[r] - 1, status[r]} \/ SetLate(r, d.status)

\* What the client gets from GetComputationResult, which insists on a single
\* row: if the row says the job is completed it has the result.
AnswerIsComplete ==
  ~ raced => \A d \in docs : Row(d.uuid) = {d} /\ d.status = COMPLETED => d.result # {}

\* Every run that starts comes to its end, however queries fail, unless the
\* container goes down with it or compute waits for a share that a party whose
\* thread failed never sends.
RunsEnd == \A r \in Runs : (pc[r] # "idle") ~> (pc[r] \in {"done", "stuck"} \/ ~ alive)
=============================================================================
