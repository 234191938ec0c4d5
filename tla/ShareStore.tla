----------------------------- MODULE ShareStore -----------------------------
(***************************************************************************)
(* One management container's view of its share database: the client of    *)
(* Client/ManageToDbGate/Client.go, run by one goroutine per gRPC request. *)
(* Every operation is a few queries under the keyed lock `ls`; a query is  *)
(* one step, and requests interleave between the steps.                    *)
(***************************************************************************)
EXTENDS Naturals, Sequences, FiniteSets

CONSTANTS Reqs,      \* request goroutines, one operation each
          DataIDs,
          PieceIDs,
          JobUUIDs,
          Ops,       \* the operations a request may be asked for
          Failures   \* ways a query may fail, a subset of FailureKinds

\* open: the stream cannot be opened and the query is not run.  recv: the
\* stream breaks; DbGate, which does not look at the stream's context, runs the
\* query to its end all the same.  partial: the gate answers with the rows it
\* had read when its own result stream failed.
FailureKinds == {"open", "recv", "partial"}

MaxIds == 3  \* ids named by one deletion, at most

OpTypes ==
  [op : {"InsertShares"}, ids : {<<d>> : d \in DataIDs}, piece : PieceIDs,
   json : BOOLEAN]
  \cup [op : {"DeleteShares"}, ids : UNION {[1..n -> DataIDs] : n \in 1..MaxIds}]
  \cup [op : {"GetSchema"}, ids : {<<d>> : d \in DataIDs}]
  \cup [op : {"InsertModelParams"}, ids : {<<j>> : j \in JobUUIDs}, json : BOOLEAN]
  \cup [op : {"GetComputationResult"}, ids : {<<j>> : j \in JobUUIDs}]
  \cup [op : {"GetDataList"}, ids : {<< >>}]

ASSUME StoreAssumption ==
  /\ Ops \subseteq OpTypes
  /\ Failures \subseteq FailureKinds

Keys == DataIDs \cup JobUUIDs
CC == "cc"  \* the computation container, as the inserter of a result row

VARIABLES
  set, senders, waiting, held,  \* the lock set `ls`
  share,    \* the share bucket: [uuid, id, piece], uuid being the inserter
  result,   \* the result bucket: [uuid, id]
  late,     \* late[r]: the write of r that DbGate goes on with on its own
  task,     \* task[r]: the operation r runs
  pc,       \* pc[r]: where r is
  todo,     \* todo[r]: the ids r has yet to lock
  verdict,  \* verdict[r]: what r will answer, once it is known
  met       \* history: pairs of requests that were at work together

lockVars == <<set, senders, waiting, held>>
dbVars == <<share, result, late>>
reqVars == <<task, pc, todo, verdict, met>>
vars == <<lockVars, dbVars, reqVars>>

ls == INSTANCE LockSet WITH Procs <- Reqs

TypeOK ==
  /\ ls!TypeOK
  /\ share \subseteq [uuid : Reqs, id : DataIDs, piece : PieceIDs]
  /\ result \subseteq [uuid : Reqs \cup {CC}, id : JobUUIDs]
  /\ late \in [Reqs -> {"none", "running", "landed"}]
  /\ task \in [Reqs -> Ops \cup {<< >>}]
  /\ pc \in [Reqs -> {"idle", "lock", "check", "recheck", "relock", "write",
                      "unlock", "done"}]
  /\ todo \in [Reqs -> Seq(Keys)]
  /\ verdict \in [Reqs -> {"none", "ok", "error"}]
  /\ met \subseteq Reqs \X Reqs

Init ==
  /\ ls!NewLockSet
  /\ share = {} /\ result = {}
  /\ late = [r \in Reqs |-> "none"]
  /\ task = [r \in Reqs |-> << >>]
  /\ pc = [r \in Reqs |-> "idle"]
  /\ todo = [r \in Reqs |-> << >>]
  /\ verdict = [r \in Reqs |-> "none"]
  /\ met = {}

-----------------------------------------------------------------------------
(* Queries.  A failed open is reported as an empty answer without an error, *)
(* which only a query that parses its answer notices.                       *)

\* What a SELECT of the given rows can bring back.
Answers(rows) ==
  {[err |-> FALSE, rows |-> rows]}
  \cup (IF Failures \cap {"open", "recv"} = {} THEN {}
        ELSE {[err |-> TRUE, rows |-> {}]})
  \cup (IF "partial" \notin Failures THEN {}
        ELSE {[err |-> FALSE, rows |-> s] : s \in SUBSET rows})

\* What a bucket can hold when a write to it returns, what the writer is told,
\* and whether DbGate is left with the query: it may then run it at any time,
\* at once, after the writer has given up its lock, or never.
Outcomes(old, new) ==
  {[bucket |-> new, verdict |-> "ok", late |-> "none"]}
  \cup (IF "open" \notin Failures THEN {}
        ELSE {[bucket |-> old, verdict |-> "ok", late |-> "none"]})
  \cup (IF "recv" \notin Failures THEN {}
        ELSE {[bucket |-> old, verdict |-> "error", late |-> "running"]})

RowsOf(bucket, id) == {x \in bucket : x.id = id}

-----------------------------------------------------------------------------
(* Steps shared by the operations                                           *)

Is(r, op) == pc[r] # "idle" /\ task[r].op = op
Id(r) == task[r].ids[1]
Items(s) == {s[i] : i \in DOMAIN s}
Ids(r) == Items(task[r].ids)
UnderWay(r) == pc[r] \notin {"idle", "done"}
\* r has not returned, or its last query has not.
AtWork(r) == UnderWay(r) \/ late[r] = "running"
Goto(r, label) == pc' = [pc EXCEPT ![r] = label]
Decide(r, v) == verdict' = [verdict EXCEPT ![r] = v]

\* The buckets once the write of r has been carried out: insertShares adds a
\* row under a fresh UUID, deleteShares removes every piece of every id it
\* names, insertModelParams adds a row.
NewShare(r) == [uuid |-> r, id |-> Id(r), piece |-> task[r].piece]
NewResult(r) == [uuid |-> r, id |-> Id(r)]
ShareAfter(r) ==
  CASE Is(r, "InsertShares") -> share \cup {NewShare(r)}
    [] Is(r, "DeleteShares") -> {x \in share : x.id \notin Ids(r)}
    [] OTHER -> share
ResultAfter(r) ==
  IF Is(r, "InsertModelParams") THEN result \cup {NewResult(r)} ELSE result

\* The query of the write comes back to the client, one way or another.
WriteShare(r) ==
  \E o \in Outcomes(share, ShareAfter(r)) :
    share' = o.bucket /\ Decide(r, o.verdict) /\ late' = [late EXCEPT ![r] = o.late]
WriteResult(r) ==
  \E o \in Outcomes(result, ResultAfter(r)) :
    result' = o.bucket /\ Decide(r, o.verdict) /\ late' = [late EXCEPT ![r] = o.late]

\* DbGate carries out a query whose client has gone: nobody hears of it.
Land(r) ==
  /\ late[r] = "running"
  /\ late' = [late EXCEPT ![r] = "landed"]
  /\ share' = ShareAfter(r) /\ result' = ResultAfter(r)
  /\ UNCHANGED <<lockVars, reqVars>>

\* Mutant: a deletion locks only the first id it names.
LockFirstOnly(o) == IF o.ids = << >> THEN << >> ELSE <<Head(o.ids)>>

\* The ids an operation locks before its first query, in the order it does.
LockOrder(o) == o.ids

\* A gRPC handler calls the client.
Call(r, o) ==
  /\ pc[r] = "idle"
  /\ task' = [task EXCEPT ![r] = o]
  /\ todo' = [todo EXCEPT ![r] = LockOrder(o)]
  /\ Goto(r, IF o.ids = << >> THEN "check" ELSE "lock")
  /\ met' = met \cup UNION {{<<r, q>>, <<q, r>>} : q \in {q \in Reqs : AtWork(q)}}
  /\ UNCHANGED <<lockVars, dbVars, verdict>>

\* ls.Lock of the next id, up to the receive.
Lock(r) ==
  /\ pc[r] \in {"lock", "relock"}
  /\ ls!LockCall(r, Head(todo[r]))
  /\ UNCHANGED <<dbVars, reqVars>>

\* ls.Lock returns; after the last id the operation goes on to its query.
Locked(r) ==
  /\ pc[r] \in {"lock", "relock"}
  /\ ls!LockReceive(r, Head(todo[r]))
  /\ todo' = [todo EXCEPT ![r] = Tail(@)]
  /\ IF Len(todo[r]) > 1 THEN UNCHANGED pc
     ELSE Goto(r, IF pc[r] = "lock" THEN "check" ELSE "write")
  /\ UNCHANGED <<dbVars, task, verdict, met>>

\* The deferred ls.Unlock calls, last id first; the operation then returns.
Unlock(r) ==
  /\ pc[r] = "unlock"
  /\ \E i \in DOMAIN task[r].ids :
       /\ task[r].ids[i] \in held[r]
       /\ \A j \in DOMAIN task[r].ids : j > i => task[r].ids[j] \notin held[r]
       /\ ls!Unlock(r, task[r].ids[i])
  /\ IF Cardinality(held[r]) > 1 THEN UNCHANGED pc ELSE Goto(r, "done")
  /\ UNCHANGED <<dbVars, task, todo, verdict, met>>

\* Mutant: existPieceID and count forget the deferred Unlock.
LockAgainWithoutUnlock(r) ==
  /\ pc[r] = "recheck"
  /\ IF verdict[r] = "error" /\ Is(r, "InsertShares")
     THEN Goto(r, "done") /\ UNCHANGED todo
     ELSE Goto(r, "relock") /\ todo' = [todo EXCEPT ![r] = <<Id(r)>>]
  /\ UNCHANGED <<lockVars, dbVars, task, verdict, met>>

\* Mutant: existPieceID and count unlock before they return, besides the defer.
UnlockTwiceAndLockAgain(r) ==
  /\ pc[r] = "recheck"
  /\ ls!UnlockTwice(r, Id(r))
  /\ IF verdict[r] = "error" /\ Is(r, "InsertShares")
     THEN Goto(r, "done") /\ UNCHANGED todo
     ELSE Goto(r, "relock") /\ todo' = [todo EXCEPT ![r] = <<Id(r)>>]
  /\ UNCHANGED <<dbVars, task, verdict, met>>

\* existPieceID and count release the id on return, and their caller, unless
\* it returns too, takes it again before it writes.
UnlockAndLockAgain(r) ==
  /\ pc[r] = "recheck"
  /\ ls!Unlock(r, Id(r))
  /\ IF verdict[r] = "error" /\ Is(r, "InsertShares")
     THEN Goto(r, "done") /\ UNCHANGED todo
     ELSE Goto(r, "relock") /\ todo' = [todo EXCEPT ![r] = <<Id(r)>>]
  /\ UNCHANGED <<dbVars, task, verdict, met>>

-----------------------------------------------------------------------------
(* The operations                                                           *)

\* Mutant: the rows found are not compared with the piece.
ExistPieceIDUnchecked(r) ==
  /\ Is(r, "InsertShares") /\ pc[r] = "check"
  /\ \E a \in Answers(RowsOf(share, Id(r))) :
       IF a.err THEN Decide(r, "error") ELSE UNCHANGED verdict
  /\ Goto(r, "recheck")
  /\ UNCHANGED <<lockVars, dbVars, task, todo, met>>

\* insertShares, the duplicate check of existPieceID.
ExistPieceID(r) ==
  /\ Is(r, "InsertShares") /\ pc[r] = "check"
  /\ \E a \in Answers(RowsOf(share, Id(r))) :
       IF a.err \/ \E x \in a.rows : x.piece = task[r].piece
       THEN Decide(r, "error") ELSE UNCHANGED verdict
  /\ Goto(r, "recheck")
  /\ UNCHANGED <<lockVars, dbVars, task, todo, met>>

\* Mutant: data id and piece id change places in the row.
InsertSharesSwapped(r) ==
  /\ Is(r, "InsertShares") /\ pc[r] = "write"
  /\ share' = share \cup {[uuid |-> r, id |-> task[r].piece, piece |-> Id(r)]}
  /\ Decide(r, "ok")
  /\ Goto(r, "unlock")
  /\ UNCHANGED <<lockVars, result, late, task, todo, met>>

\* insertShares, the insertion under a fresh UUID.
InsertShares(r) ==
  /\ Is(r, "InsertShares") /\ pc[r] = "write"
  /\ IF ~task[r].json
     THEN Decide(r, "error") /\ UNCHANGED <<share, late>>
     ELSE WriteShare(r)
  /\ Goto(r, "unlock")
  /\ UNCHANGED <<lockVars, result, task, todo, met>>

\* Mutant: the lock is given up between the SELECT and the DELETE.
SelectForDeleteThenUnlock(r) ==
  /\ Is(r, "DeleteShares") /\ pc[r] = "check"
  /\ IF \E d \in Ids(r) : RowsOf(share, d) = {}
     THEN Decide(r, "error") /\ Goto(r, "unlock")
     ELSE Goto(r, "recheck") /\ UNCHANGED verdict
  /\ UNCHANGED <<lockVars, dbVars, task, todo, met>>

\* deleteShares, the check that every id named has a row.
SelectForDelete(r) ==
  /\ Is(r, "DeleteShares") /\ pc[r] = "check"
  /\ \E a \in Answers({x \in share : x.id \in Ids(r)}) :
       IF a.err \/ \E d \in Ids(r) : RowsOf(a.rows, d) = {}
       THEN Decide(r, "error") /\ Goto(r, "unlock")
       ELSE Goto(r, "write") /\ UNCHANGED verdict
  /\ UNCHANGED <<lockVars, dbVars, task, todo, met>>

\* deleteShares, the deletion of every piece of every id.
DeleteShares(r) ==
  /\ Is(r, "DeleteShares") /\ pc[r] = "write"
  /\ WriteShare(r)
  /\ Goto(r, "unlock")
  /\ UNCHANGED <<lockVars, result, task, todo, met>>

\* getSchema: some row of the id must be there.
GetSchema(r) ==
  /\ Is(r, "GetSchema") /\ pc[r] = "check"
  /\ \E a \in Answers(RowsOf(share, Id(r))) :
       Decide(r, IF a.err \/ a.rows = {} THEN "error" ELSE "ok")
  /\ Goto(r, "unlock")
  /\ UNCHANGED <<lockVars, dbVars, task, todo, met>>

\* insertModelParams, the count of results of the job.
Count(r) ==
  /\ Is(r, "InsertModelParams") /\ pc[r] = "check"
  /\ \E a \in Answers(RowsOf(result, Id(r))) :
       IF a.err \/ a.rows # {} THEN Decide(r, "error") ELSE UNCHANGED verdict
  /\ Goto(r, "recheck")
  /\ UNCHANGED <<lockVars, dbVars, task, todo, met>>

\* insertModelParams: the count is looked at only once the lock is back.
InsertModelParams(r) ==
  /\ Is(r, "InsertModelParams") /\ pc[r] = "write"
  /\ IF verdict[r] = "error" \/ ~task[r].json
     THEN Decide(r, "error") /\ UNCHANGED <<result, late>>
     ELSE WriteResult(r)
  /\ Goto(r, "unlock")
  /\ UNCHANGED <<lockVars, share, task, todo, met>>

\* getComputationResult: exactly one row of the job must be there.
GetComputationResult(r) ==
  /\ Is(r, "GetComputationResult") /\ pc[r] = "check"
  /\ \E a \in Answers(RowsOf(result, Id(r))) :
       Decide(r, IF a.err \/ Cardinality(a.rows) # 1 THEN "error" ELSE "ok")
  /\ Goto(r, "unlock")
  /\ UNCHANGED <<lockVars, dbVars, task, todo, met>>

\* getDataList takes no lock.
GetDataList(r) ==
  /\ Is(r, "GetDataList") /\ pc[r] = "check"
  /\ \E a \in Answers(share) : Decide(r, IF a.err THEN "error" ELSE "ok")
  /\ Goto(r, "done")
  /\ UNCHANGED <<lockVars, dbVars, task, todo, met>>

\* registerJob of the computation container puts the job's row into the same
\* bucket, from another process and without the lock.
RegisterJob(j) ==
  /\ [uuid |-> CC, id |-> j] \notin result
  /\ result' = result \cup {[uuid |-> CC, id |-> j]}
  /\ UNCHANGED <<lockVars, share, late, reqVars>>

Step(r) ==
  \/ Lock(r) \/ Locked(r) \/ Unlock(r) \/ UnlockAndLockAgain(r)
  \/ ExistPieceID(r) \/ InsertShares(r)
  \/ SelectForDelete(r) \/ DeleteShares(r)
  \/ GetSchema(r) \/ Count(r) \/ InsertModelParams(r)
  \/ GetComputationResult(r) \/ GetDataList(r)

\* Every request has returned.
Finished == (\A r \in Reqs : pc[r] = "done") /\ UNCHANGED vars

Next ==
  \/ \E r \in Reqs : Step(r) \/ Land(r) \/ \E o \in Ops : Call(r, o)
  \/ \E j \in JobUUIDs : RegisterJob(j)
  \/ Finished

Spec == Init /\ [][Next]_vars

-----------------------------------------------------------------------------
(* Properties                                                               *)

\* The requests use `ls` so that it gives them one mutex per id: whatever fails
\* and returns early, each of them unlocks what it has locked, and that once.
LocksAreMutexes == ls!MutexSpec

\* The rows of a data id change only while the request that changes them
\* holds the id and no other request does: what `ls` is there for.  The one
\* exception is a write whose stream broke.  Its request has named the id, has
\* answered or will answer with an error, and may have unlocked the id when
\* DbGate carries the query out.
IdsChangeUnderTheirLock ==
  [][\A d \in DataIDs :
       RowsOf(share', d) # RowsOf(share, d) =>
         \E r \in Reqs :
           \/ pc'[r] # pc[r] /\ ls!Holders(d) = {r}
           \/ late'[r] # late[r] /\ d \in Ids(r) /\ verdict[r] = "error"]_vars

\* Two rows of one piece, or two uploads of one job's parameters, come only
\* from requests that were at work together, counting the query that DbGate
\* goes on with after its stream broke: an upload that starts when another one
\* is over at both is refused by existPieceID or count.
DuplicatesOnlyFromOverlap ==
  /\ \A x, y \in share :
       x # y /\ x.id = y.id /\ x.piece = y.piece => <<x.uuid, y.uuid>> \in met
  /\ \A x, y \in result :
       x # y /\ x.id = y.id /\ CC \notin {x.uuid, y.uuid} => <<x.uuid, y.uuid>> \in met

\* The row of d that a deletion had seen was taken away by the query of an
\* earlier deletion that was still on its way when r was called.
SweptAway(r, d) ==
  \E q \in Reqs : /\ Is(q, "DeleteShares") /\ d \in Ids(q)
                  /\ late[q] = "landed" /\ <<q, r>> \in met

\* deleteShares deletes only if every id it names still has a row at the time
\* of the DELETE: the SELECT it relies on is not stale, unless DbGate has since
\* carried out a deletion of the id that had been reported as failed.
DeleteActsOnFreshCheck ==
  [][\A r \in Reqs : DeleteShares(r) =>
       \A d \in Ids(r) : RowsOf(share, d) # {} \/ SweptAway(r, d)]_vars

\* r waits for an id that q holds.
WaitsFor(r, q) == \E k \in held[q] : waiting[r] = {k}

\* A request that keeps another one waiting while it waits itself is a
\* deletion of several ids: no other operation can be part of a deadlock.
OnlyMultiIdDeletesDeadlock ==
  \A q, r \in Reqs : WaitsFor(q, r) /\ waiting[r] # {} =>
    Is(r, "DeleteShares") /\ Len(task[r].ids) > 1
=============================================================================
