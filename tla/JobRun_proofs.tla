--------------------------- MODULE JobRun_proofs ---------------------------
(***************************************************************************)
(* Proofs about the keys and rows of jobs, for any runs, uuids and tasks,  *)
(* any size of the logical counter, whatever queries fail and whenever     *)
(* what was given up is carried out.                                       *)
(***************************************************************************)
EXTENDS JobRun, FiniteSetTheorems, TLAPS

-----------------------------------------------------------------------------
(* Where a run is and its status                                            *)

\* A run gets its status along its way; what nobody knows is given up at once.
PhaseOf(r) ==
  /\ pc[r] = "idle" => status[r] = UNKNOWN
  /\ pc[r] \in {"key", "count", "register", "thrown"} => status[r] = PRE_JOB
  /\ pc[r] = "update" => status[r] \in READ_DB..COMPLETED
  /\ pc[r] = "read" => status[r] = READ_DB
  /\ pc[r] = "compute" => status[r] = COMPUTE
  /\ pc[r] = "write" => status[r] = WRITE_DB

PhaseInv ==
  \A r \in Runs :
    /\ PhaseOf(r)
    /\ Is(r, "unknown") => pc[r] \in {"idle", "returned", "done"} /\ status[r] = UNKNOWN

-----------------------------------------------------------------------------
(* Keys, while getLogicalCounter was never entered by two threads at once   *)

Base == clock * CounterSize

\* Draws since the tick that are over: the one under way does not count.
DrawsOver == IF \E r \in Runs : pc[r] = "count" /\ got[r].clock = clock
             THEN drawn - 1 ELSE drawn

\* A thread that has read the counter is alone, before or after the last tick.
DrawingOK(r) ==
  pc[r] = "count" =>
    /\ \A s \in Runs : pc[s] = "count" => s = r
    /\ got[r].counter = counter
    /\ \/ got[r].clock = clock /\ Cas(r) = Base + counter /\ drawn >= 1
       \/ got[r].clock < clock /\ Cas(r) < Base /\ drawn = 0
    /\ \A s \in Runs : HasKey(s) => Cas(r) # key[s]

\* A key is from before the last tick, or counts back from the counter by one of
\* the draws since.
KeyOK(r) ==
  HasKey(r) =>
    /\ key[r] < Base + CounterSize
    /\ key[r] >= Base => \E d \in 1..DrawsOver :
         key[r] = Base + counter - d \/ key[r] = Base + counter - d + CounterSize
    /\ \A s \in Runs : HasKey(s) /\ s # r => key[r] # key[s]

KeysOK == \A r \in Runs : DrawingOK(r) /\ KeyOK(r)

-----------------------------------------------------------------------------
(* Rows                                                                     *)

\* Every row has a key of its own, drawn by a run of its uuid; a run that is
\* past its registration has its row.
RowsOK ==
  /\ \A d \in docs : \E r \in Runs : HasKey(r) /\ key[r] = d.key /\ task[r].uuid = d.uuid
  /\ \A d, e \in docs : d.key = e.key => d = e
  /\ \A r \in Runs : status[r] >= READ_DB =>
       \E d \in docs : d.key = key[r] /\ d.uuid = task[r].uuid

\* The rows of a run that is alone with its uuid are where the run is, or where
\* an UPDATE that the run gave up has set them.
FollowsAt(r, d) ==
  /\ pc[r] = "register" => d.status = PRE_JOB
  /\ pc[r] \in {"read", "compute", "write"} => d.status = status[r] \/ SetLate(r, d.status)
  /\ status[r] >= READ_DB =>
       /\ d.status <= status[r]
       /\ d.status \in {status[r] - 1, status[r]} \/ SetLate(r, d.status)

FollowOK ==
  \A r \in Runs : Sole(r) => \A d \in docs : d.uuid = task[r].uuid => FollowsAt(r, d)

\* A row is completed by a run that is completed, whose own row has the result.
ResultsOK ==
  /\ \A d \in docs : d.status = COMPLETED =>
       \E r \in Runs : status[r] = COMPLETED /\ task[r].uuid = d.uuid
  /\ \A r \in Runs : status[r] = COMPLETED =>
       \A d \in docs : d.key = key[r] => d.result # {}

\* What was given up inserts the row of the run that gave it up, or sets a
\* status that the run has reached.
LeftOK ==
  \A a \in left :
    /\ a.query.what = "insert" => HasKey(a.query.run) /\ a.query.key = key[a.query.run]
    /\ a.query.what = "status" => a.query.status \in READ_DB..status[a.query.run]

RunInv ==
  /\ TypeOK /\ PhaseInv
  /\ ~ raced => KeysOK /\ RowsOK /\ FollowOK /\ ResultsOK /\ LeftOK

-----------------------------------------------------------------------------
(* The operators the model is built from                                    *)

Statuses == UNKNOWN..COMPLETED
Docs == [key : Keys, uuid : Uuids, status : Statuses, result : SUBSET Runs]

\* A key of a clock and a count is in range.
LEMMA CasInKeys ==
  ASSUME NEW c \in 0..MaxClock, NEW n \in 0..(CounterSize - 1)
  PROVE  c * CounterSize + n \in Keys
<1>1. CounterSize \in Nat /\ CounterSize > 0 /\ MaxClock \in Nat /\ c \in Nat /\ n \in Nat
  BY RunAssumption
<1>2. (MaxClock - c) * CounterSize >= 0
  BY <1>1
<1>3. (MaxClock - c) * CounterSize = MaxClock * CounterSize - c * CounterSize
      /\ (MaxClock + 1) * CounterSize = MaxClock * CounterSize + CounterSize
  BY <1>1
<1>4. c * CounterSize \in Nat /\ MaxClock * CounterSize \in Nat
  BY <1>1
<1> QED BY <1>1, <1>2, <1>3, <1>4 DEF Keys

\* What an UPDATE does to the rows: their keys and uuids stay.
LEMMA StatusSetIs ==
  ASSUME docs \subseteq Docs, NEW u \in Uuids, NEW s \in Statuses
  PROVE  /\ StatusSet(u, s) \subseteq Docs
         /\ \A e \in StatusSet(u, s) : \E d \in docs :
              /\ e.key = d.key /\ e.uuid = d.uuid /\ e.result = d.result
              /\ e.status = (IF d.uuid = u THEN s ELSE d.status)
              /\ e = (IF d.uuid = u THEN [d EXCEPT !.status = s] ELSE d)
         /\ \A d \in docs : \E e \in StatusSet(u, s) : e.key = d.key /\ e.uuid = d.uuid
<1> DEFINE f(d) == IF d.uuid = u THEN [d EXCEPT !.status = s] ELSE d
<1>1. \A d \in docs :
        /\ f(d) \in Docs /\ f(d).key = d.key /\ f(d).uuid = d.uuid /\ f(d).result = d.result
        /\ f(d).status = (IF d.uuid = u THEN s ELSE d.status)
  <2> TAKE d \in docs
  <2>1. d \in Docs
    OBVIOUS
  <2>2. CASE d.uuid = u
    BY <2>1, <2>2 DEF Docs
  <2>3. CASE d.uuid # u
    BY <2>1, <2>3
  <2> QED BY <2>2, <2>3
<1>2. StatusSet(u, s) = {f(d) : d \in docs}
  BY DEF StatusSet
<1> QED BY <1>1, <1>2

LEMMA ResultSetIs ==
  ASSUME docs \subseteq Docs, NEW u \in Uuids, NEW v \in SUBSET Runs
  PROVE  /\ ResultSet(u, v) \subseteq Docs
         /\ \A e \in ResultSet(u, v) : \E d \in docs :
              /\ e.key = d.key /\ e.uuid = d.uuid /\ e.status = d.status
              /\ e.result = (IF d.uuid = u THEN v ELSE d.result)
              /\ e = (IF d.uuid = u THEN [d EXCEPT !.result = v] ELSE d)
         /\ \A d \in docs : \E e \in ResultSet(u, v) : e.key = d.key /\ e.uuid = d.uuid
<1> DEFINE f(d) == IF d.uuid = u THEN [d EXCEPT !.result = v] ELSE d
<1>1. \A d \in docs :
        /\ f(d) \in Docs /\ f(d).key = d.key /\ f(d).uuid = d.uuid /\ f(d).status = d.status
        /\ f(d).result = (IF d.uuid = u THEN v ELSE d.result)
  <2> TAKE d \in docs
  <2>1. d \in Docs
    OBVIOUS
  <2>2. CASE d.uuid = u
    BY <2>1, <2>2 DEF Docs
  <2>3. CASE d.uuid # u
    BY <2>1, <2>3
  <2> QED BY <2>2, <2>3
<1>2. ResultSet(u, v) = {f(d) : d \in docs}
  BY DEF ResultSet
<1> QED BY <1>1, <1>2

\* INSERT adds a row unless the key is there.
LEMMA InsertedIs ==
  ASSUME NEW k, NEW u
  PROVE  /\ docs \subseteq Inserted(k, u)
         /\ \E e \in Inserted(k, u) : e.key = k
         /\ \A e \in Inserted(k, u) : e \notin docs =>
              /\ e = [key |-> k, uuid |-> u, status |-> PRE_JOB, result |-> {}]
              /\ \A d \in docs : d.key # k
<1>1. CASE \E d \in docs : d.key = k
  BY <1>1 DEF Inserted
<1>2. CASE \A d \in docs : d.key # k
  <2> DEFINE new == [key |-> k, uuid |-> u, status |-> PRE_JOB, result |-> {}]
  <2>1. Inserted(k, u) = docs \cup {new} /\ new.key = k
    BY <1>2 DEF Inserted
  <2> HIDE DEF new
  <2>2. /\ docs \subseteq Inserted(k, u)
        /\ \E e \in Inserted(k, u) : e.key = k
        /\ \A e \in Inserted(k, u) : e \notin docs => e = new
    BY <2>1
  <2> QED BY <1>2, <2>2 DEF new
<1> QED BY <1>1, <1>2

-----------------------------------------------------------------------------
(* Types and phases                                                         *)

LEMMA InitInv == Init => TypeOK /\ PhaseInv
<1> SUFFICES ASSUME Init PROVE TypeOK /\ PhaseInv
  OBVIOUS
<1>1. task \in [Runs -> Task] /\ \A r \in Runs : task[r] \in Task
  BY RunAssumption DEF Init
<1>2. 0 \in Keys /\ CounterSize - 1 \in 0..(CounterSize - 1)
  <2>1. 0 * CounterSize + 0 \in Keys
    BY RunAssumption, CasInKeys
  <2> QED BY <2>1, RunAssumption
<1>3. TypeOK
  <2>1. pc \in [Runs -> Points] /\ status \in [Runs -> UNKNOWN..COMPLETED]
    BY DEF Init, Points, UNKNOWN, COMPLETED
  <2>2. key \in [Runs -> Keys] /\ precas \in Keys /\ counter \in 0..(CounterSize - 1)
    BY <1>2 DEF Init
  <2>3. clock \in 0..MaxClock /\ drawn \in 0..CounterSize /\ errors \in 0..MaxErrors
    BY RunAssumption DEF Init
  <2>4. got \in [Runs -> [clock : 0..MaxClock, counter : 0..(CounterSize - 1)]]
    BY RunAssumption DEF Init, Unread
  <2>5. docs = {} /\ alive \in BOOLEAN /\ raced \in BOOLEAN /\ reply \in [Runs -> Codes]
        /\ left = {} /\ landed = {}
    BY DEF Init, Codes
  <2> QED BY <1>1, <2>1, <2>2, <2>3, <2>4, <2>5 DEF TypeOK
<1>4. PhaseInv
  BY DEF Init, PhaseInv, PhaseOf, UNKNOWN
<1> QED BY <1>3, <1>4

(* What the steps of run r do to its place, its status and the rows.        *)

To(r, point, s) == pc' = [pc EXCEPT ![r] = point] /\ status' = [status EXCEPT ![r] = s]
Stays(r) == pc' = pc /\ status' = status

Begins(r) ==
  /\ pc[r] = "idle" /\ docs' = docs
  /\ \/ Is(r, "unknown") /\ To(r, "returned", status[r])
     \/ ~ Is(r, "unknown") /\ To(r, "key", PRE_JOB)

Registers(r) ==
  LET after == Inserted(key[r], task[r].uuid) IN
  /\ pc[r] = "register"
  /\ \/ docs' = after /\ To(r, "update", status[r] + 1)
     \/ docs' = docs /\ (Stays(r) \/ To(r, "thrown", status[r]))

Updates(r) ==
  LET after == StatusSet(task[r].uuid, status[r]) IN
  /\ pc[r] = "update"
  /\ \/ docs' = after /\ To(r, After(status[r]), status[r])
     \/ docs' = docs /\ (Stays(r) \/ To(r, "returned", status[r]))

Computes(r) ==
  /\ pc[r] \in {"read", "compute"} /\ docs' = docs
  /\ \/ To(r, "update", status[r] + 1) \/ Stays(r) \/ To(r, "returned", status[r])
     \/ To(r, "stuck", status[r])

Writes(r) ==
  LET after == ResultSet(task[r].uuid, {r}) IN
  /\ pc[r] = "write"
  /\ \/ docs' = after /\ To(r, "update", status[r] + 1)
     \/ docs' = docs /\ (Stays(r) \/ To(r, "returned", status[r]))

Ends(r) ==
  pc[r] \in {"returned", "thrown"} /\ docs' = docs /\ To(r, "done", status[r])

\* The query that is given up, if any.
GivesUp(r, point, what) ==
  pc[r] = point /\ \E n \in 0..(MaxErrors - 1) : left' = left \cup {[no |-> n, query |-> Query(r, what)]}

Leaves(r) ==
  \/ left' = left \/ GivesUp(r, "register", "insert")
  \/ GivesUp(r, "update", "status") \/ GivesUp(r, "write", "result")

Works(r) ==
  /\ UNCHANGED <<task, keyVars, landed>> /\ Leaves(r)
  /\ Begins(r) \/ Registers(r) \/ Updates(r) \/ Computes(r) \/ Writes(r) \/ Ends(r)

\* What the queries do.
LEMMA AppliedIs ==
  ASSUME NEW q
  PROVE  /\ q.what = "select" => Applied(q) = docs
         /\ q.what = "insert" => Applied(q) = Inserted(q.key, task[q.run].uuid)
         /\ q.what = "status" => Applied(q) = StatusSet(task[q.run].uuid, q.status)
         /\ q.what = "result" => Applied(q) = ResultSet(task[q.run].uuid, {q.run})
BY DEF Applied

LEMMA QueryIs ==
  ASSUME NEW r, NEW what
  PROVE  /\ Query(r, what).what = what /\ Query(r, what).run = r
         /\ Query(r, what).key = key[r] /\ Query(r, what).status = status[r]
BY DEF Query

\* An attempt, by what it asks for.
LEMMA TryIs ==
  ASSUME TypeOK, NEW r \in Runs, NEW what \in {"select", "insert", "status", "result"},
         NEW Done, executeQuery(r, Query(r, what), Done)
  PROVE  /\ landed' = landed
         /\ \/ docs' = Applied(Query(r, what)) /\ Done /\ left' = left
            \/ /\ docs' = docs /\ status' = status /\ (pc' = pc \/ Thrown(r))
               /\ \/ what = "select" /\ left' = left
                  \/ \E n \in 0..(MaxErrors - 1) : left' = left \cup {[no |-> n, query |-> Query(r, what)]}
<1>1. CASE docs' = Applied(Query(r, what)) /\ Done /\ UNCHANGED <<errors, left, landed>>
  BY <1>1
<1>2. CASE /\ errors < MaxErrors
           /\ left' = IF Query(r, what).what = "select" THEN left
                      ELSE left \cup {[no |-> errors, query |-> Query(r, what)]}
           /\ UNCHANGED <<docs, landed, status>> /\ (UNCHANGED pc \/ Thrown(r))
  <2>1. errors \in 0..(MaxErrors - 1)
    BY <1>2, RunAssumption DEF TypeOK
  <2> QED BY <1>2, <2>1, QueryIs
<1> QED BY <1>1, <1>2 DEF executeQuery

\* The actions that draw no key are of this form.
LEMMA StepWorks ==
  ASSUME TypeOK, NEW r \in Runs,
         \/ Start(r) \/ registerJob(r) \/ updateJobStatus(r) \/ readDb(r)
         \/ compute(r) \/ writeDb(r) \/ End(r)
  PROVE  Works(r)
<1>1. pc \in [Runs -> Points] /\ status \in [Runs -> UNKNOWN..COMPLETED]
  BY DEF TypeOK
<1>0. status' = status => status' = [status EXCEPT ![r] = status[r]]
  BY <1>1
<1>2. CASE Start(r)
  BY <1>0, <1>2 DEF Start, At, Goto, Works, Leaves, Begins, To, dbVars
<1>3. CASE registerJob(r)
  <2>1. Applied(Query(r, "insert")) = Inserted(key[r], task[r].uuid)
    BY DEF Applied, Query
  <2>2. /\ pc[r] = "register" /\ landed' = landed
        /\ \/ docs' = Inserted(key[r], task[r].uuid) /\ NextStatus(r) /\ left' = left
           \/ /\ docs' = docs /\ status' = status /\ (pc' = pc \/ Thrown(r))
              /\ GivesUp(r, "register", "insert")
    BY <1>3, <2>1, TryIs DEF registerJob, At, GivesUp
  <2>3. Registers(r) /\ Leaves(r)
    BY <1>0, <2>2 DEF NextStatus, Thrown, Goto, Registers, To, Stays, Leaves
  <2> QED BY <1>3, <2>2, <2>3 DEF registerJob, Works
<1>4. CASE updateJobStatus(r)
  <2>1. Applied(Query(r, "status")) = StatusSet(task[r].uuid, status[r])
    BY DEF Applied, Query
  <2>2. /\ pc[r] = "update" /\ landed' = landed
        /\ \/ /\ docs' = StatusSet(task[r].uuid, status[r]) /\ left' = left
              /\ Goto(r, After(status[r])) /\ status' = status
           \/ /\ docs' = docs /\ status' = status /\ (pc' = pc \/ Thrown(r))
              /\ GivesUp(r, "update", "status")
    BY <1>4, <2>1, TryIs DEF updateJobStatus, At, GivesUp
  <2>3. Updates(r) /\ Leaves(r)
    BY <1>0, <2>2 DEF Thrown, Goto, Updates, To, Stays, Leaves
  <2> QED BY <1>4, <2>2, <2>3 DEF updateJobStatus, Works
<1>5. CASE readDb(r)
  <2>1. CASE executeQuery(r, Query(r, "select"), NextStatus(r))
    <3>1. Applied(Query(r, "select")) = docs
      BY DEF Applied, Query
    <3>2. /\ landed' = landed /\ left' = left /\ docs' = docs
          /\ NextStatus(r) \/ (status' = status /\ (pc' = pc \/ Thrown(r)))
      <4>1. Query(r, "select").what = "select"
        BY QueryIs
      <4> QED BY <2>1, <3>1, <4>1 DEF executeQuery
    <3>3. Computes(r) /\ Leaves(r)
      BY <1>0, <1>5, <3>2 DEF readDb, NextStatus, Thrown, At, Goto, Computes, To, Stays, Leaves
    <3> QED BY <1>5, <3>2, <3>3 DEF readDb, Works
  <2>2. CASE ~ executeQuery(r, Query(r, "select"), NextStatus(r))
    <3>1. Computes(r) /\ Leaves(r) /\ landed' = landed
      BY <1>0, <1>5, <2>2
         DEF readDb, NextStatus, Thrown, Crash, At, Goto, Computes, To, Stays, Leaves, dbVars
    <3> QED BY <1>5, <3>1 DEF readDb, Works
  <2> QED BY <2>1, <2>2
<1>6. CASE compute(r)
  <2>1. Computes(r) /\ Leaves(r)
    BY <1>0, <1>6 DEF compute, NextStatus, Thrown, At, Goto, Computes, To, Stays, Leaves
  <2> QED BY <1>6, <2>1 DEF compute, Works
<1>7. CASE writeDb(r)
  <2>1. Applied(Query(r, "result")) = ResultSet(task[r].uuid, {r})
    BY DEF Applied, Query
  <2>2. /\ pc[r] = "write" /\ landed' = landed
        /\ \/ docs' = ResultSet(task[r].uuid, {r}) /\ NextStatus(r) /\ left' = left
           \/ /\ docs' = docs /\ status' = status /\ (pc' = pc \/ Thrown(r))
              /\ GivesUp(r, "write", "result")
    BY <1>7, <2>1, TryIs DEF writeDb, At, GivesUp
  <2>3. Writes(r) /\ Leaves(r)
    BY <1>0, <2>2 DEF NextStatus, Thrown, Goto, Writes, To, Stays, Leaves
  <2> QED BY <1>7, <2>2, <2>3 DEF writeDb, Works
<1>8. CASE End(r)
  BY <1>0, <1>8 DEF End, Goto, Works, Leaves, Ends, To, dbVars
<1> QED BY <1>2, <1>3, <1>4, <1>5, <1>6, <1>7, <1>8

LEMMA AfterIs ==
  /\ After(READ_DB) = "read" /\ After(COMPUTE) = "compute"
  /\ After(WRITE_DB) = "write" /\ After(COMPLETED) = "returned"
BY DEF After, READ_DB, COMPUTE, WRITE_DB, COMPLETED

\* Where a working run goes and with which status.
LEMMA WorksMoves ==
  ASSUME TypeOK, PhaseInv, NEW r \in Runs, Works(r)
  PROVE  \E point \in Points, s \in Statuses :
           /\ To(r, point, s)
           /\ point \notin {"idle", "count"}
           /\ point \in {"key", "register", "thrown"} => s = PRE_JOB
           /\ point = "update" => s \in READ_DB..COMPLETED
           /\ point = "read" => s = READ_DB
           /\ point = "compute" => s = COMPUTE
           /\ point = "write" => s = WRITE_DB
           /\ Is(r, "unknown") => point \in {"returned", "done"} /\ s = UNKNOWN
           /\ s >= status[r]
           /\ \/ pc[r] = "idle" /\ (point = "key" \/ Is(r, "unknown"))
              \/ pc[r] \notin {"idle", "key", "count"} /\ point # "key"
<1> USE DEF UNKNOWN, PRE_JOB, READ_DB, COMPUTE, WRITE_DB, COMPLETED
<1>1. /\ pc \in [Runs -> Points] /\ status \in [Runs -> 0..5] /\ pc[r] \in Points /\ status[r] \in 0..5
      /\ PhaseOf(r)
      /\ Is(r, "unknown") => pc[r] \in {"idle", "returned", "done"} /\ status[r] = UNKNOWN
  BY DEF TypeOK, PhaseInv
<1>2. ASSUME Stays(r) PROVE To(r, pc[r], status[r])
  BY <1>1, <1>2 DEF Stays, To
<1>3. CASE Begins(r)
  BY <1>1, <1>3 DEF Begins, PhaseOf, Points, Statuses
<1>4. CASE Registers(r)
  BY <1>1, <1>2, <1>4 DEF Registers, PhaseOf, Points, Statuses
<1>5. CASE Updates(r)
  <2>1. After(status[r]) \in {"read", "compute", "write", "returned"}
        /\ (status[r] = READ_DB <=> After(status[r]) = "read")
        /\ (status[r] = COMPUTE <=> After(status[r]) = "compute")
        /\ (status[r] = WRITE_DB <=> After(status[r]) = "write")
    <3>1. status[r] \in {READ_DB, COMPUTE, WRITE_DB, COMPLETED}
      BY <1>1, <1>5 DEF Updates, PhaseOf
    <3> QED BY <3>1, AfterIs
  <2> QED BY <1>1, <1>2, <1>5, <2>1 DEF Updates, PhaseOf, Points, Statuses
<1>6. CASE Computes(r)
  BY <1>1, <1>2, <1>6 DEF Computes, PhaseOf, Points, Statuses
<1>7. CASE Writes(r)
  BY <1>1, <1>2, <1>7 DEF Writes, PhaseOf, Points, Statuses
<1>8. CASE Ends(r)
  BY <1>1, <1>8 DEF Ends, PhaseOf, Points, Statuses
<1> QED BY <1>3, <1>4, <1>5, <1>6, <1>7, <1>8 DEF Works

LEMMA WorksTypes ==
  ASSUME TypeOK, PhaseInv, NEW r \in Runs, Works(r)
  PROVE  /\ pc' \in [Runs -> Points] /\ status' \in [Runs -> Statuses] /\ docs' \subseteq Docs
         /\ left \subseteq left' /\ left' \subseteq Attempts /\ landed' \subseteq left'
         /\ PhaseInv'
         /\ \A s \in Runs : s # r => pc'[s] = pc[s] /\ status'[s] = status[s]
         /\ \A s \in Runs : /\ HasKey(s)' <=> HasKey(s)
                            /\ pc'[s] = "count" <=> pc[s] = "count"
                            /\ status'[s] >= status[s]
         /\ pc'[r] # "idle"
<1>0. task' = task
  BY DEF Works
<1>1. /\ pc \in [Runs -> Points] /\ status \in [Runs -> Statuses] /\ docs \subseteq Docs
      /\ task[r].uuid \in Uuids /\ key[r] \in Keys /\ task[r] \in Task
      /\ \A s \in Runs : status[s] \in 0..5
  BY DEF TypeOK, Docs, Statuses, Task, UNKNOWN, COMPLETED
<1>2. PICK point \in Points, t \in Statuses :
        /\ To(r, point, t)
        /\ point \notin {"idle", "count"}
        /\ point \in {"key", "register", "thrown"} => t = PRE_JOB
        /\ point = "update" => t \in READ_DB..COMPLETED
        /\ point = "read" => t = READ_DB
        /\ point = "compute" => t = COMPUTE
        /\ point = "write" => t = WRITE_DB
        /\ Is(r, "unknown") => point \in {"returned", "done"} /\ t = UNKNOWN
        /\ t >= status[r]
        /\ \/ pc[r] = "idle" /\ (point = "key" \/ Is(r, "unknown"))
           \/ pc[r] \notin {"idle", "key", "count"} /\ point # "key"
  BY WorksMoves
<1>3. /\ \A s \in Runs : s # r => pc'[s] = pc[s] /\ status'[s] = status[s]
      /\ pc'[r] = point /\ status'[r] = t
      /\ pc' \in [Runs -> Points] /\ status' \in [Runs -> Statuses]
  BY <1>1, <1>2 DEF To
<1>4. docs' \subseteq Docs
  <2>1. Inserted(key[r], task[r].uuid) \subseteq Docs
    BY <1>1 DEF Inserted, Docs, Statuses, PRE_JOB, UNKNOWN, COMPLETED
  <2>2. StatusSet(task[r].uuid, status[r]) \subseteq Docs
    BY <1>1, StatusSetIs
  <2>3. ResultSet(task[r].uuid, {r}) \subseteq Docs
    BY <1>1, ResultSetIs
  <2> QED BY <1>1, <2>1, <2>2, <2>3
      DEF Works, Begins, Registers, Updates, Computes, Writes, Ends
<1>5. PhaseInv'
  <2> SUFFICES ASSUME NEW s \in Runs
               PROVE  /\ PhaseOf(s)'
                      /\ Is(s, "unknown")' => pc'[s] \in {"idle", "returned", "done"} /\ status'[s] = UNKNOWN
    BY DEF PhaseInv
  <2>1. CASE s = r
    BY <1>0, <1>2, <1>3, <2>1 DEF PhaseOf, Is
  <2>2. CASE s # r
    BY <1>0, <1>3, <2>2 DEF PhaseInv, PhaseOf, Is
  <2> QED BY <2>1, <2>2
<1>6. \A s \in Runs : /\ HasKey(s)' <=> HasKey(s)
                      /\ pc'[s] = "count" <=> pc[s] = "count"
                      /\ status'[s] >= status[s]
  <2> TAKE s \in Runs
  <2>1. CASE s = r
    BY <1>0, <1>1, <1>2, <1>3, <2>1 DEF HasKey, Is
  <2>2. CASE s # r
    BY <1>0, <1>1, <1>3, <2>2 DEF HasKey, Is
  <2> QED BY <2>1, <2>2
<1>7. left \subseteq left' /\ left' \subseteq Attempts /\ landed' \subseteq left'
  <2>1. \A what \in {"insert", "status", "result"} : Query(r, what) \in Queries
    BY <1>1 DEF Query, Queries, Statuses
  <2>2. left \subseteq Attempts /\ landed \subseteq left /\ landed' = landed
    BY DEF TypeOK, Works
  <2>3. \A n \in 0..(MaxErrors - 1), q \in Queries : [no |-> n, query |-> q] \in Attempts
    BY DEF Attempts
  <2> QED BY <2>1, <2>2, <2>3 DEF Works, Leaves, GivesUp
<1> QED BY <1>2, <1>3, <1>4, <1>5, <1>6, <1>7

\* What DbGate carries out late leaves everything else alone.
LEMMA LandTypes ==
  ASSUME TypeOK, PhaseInv, NEW a \in left, Land(a)
  PROVE  TypeOK' /\ PhaseInv'
<1> DEFINE q == a.query
<1>1. a \in Attempts /\ q \in Queries /\ docs \subseteq Docs /\ landed \subseteq left
  BY DEF TypeOK, Attempts, Docs, Statuses
<1>2. /\ q.run \in Runs /\ q.key \in Keys /\ q.status \in Statuses
      /\ q.what \in {"select", "insert", "status", "result"}
      /\ task[q.run].uuid \in Uuids /\ {q.run} \in SUBSET Runs
  BY <1>1 DEF Queries, Statuses, TypeOK, Task
<1>3. docs' = Applied(q) /\ landed' = landed \cup {a}
      /\ UNCHANGED <<task, pc, status, keyVars, errors, left, alive, reply>>
  BY DEF Land
<1> HIDE DEF q
<1>4. docs' \subseteq Docs
  <2>1. Inserted(q.key, task[q.run].uuid) \subseteq Docs
    BY <1>1, <1>2 DEF Inserted, Docs, Statuses, PRE_JOB, UNKNOWN, COMPLETED
  <2>2. StatusSet(task[q.run].uuid, q.status) \subseteq Docs
    BY <1>1, <1>2, StatusSetIs
  <2>3. ResultSet(task[q.run].uuid, {q.run}) \subseteq Docs
    BY <1>1, <1>2, ResultSetIs
  <2> QED BY <1>1, <1>2, <1>3, <2>1, <2>2, <2>3, AppliedIs
<1>5. TypeOK'
  BY <1>1, <1>3, <1>4 DEF TypeOK, keyVars, Docs, Statuses
<1>6. PhaseInv'
  BY <1>3 DEF PhaseInv, PhaseOf, Is
<1> QED BY <1>5, <1>6

LEMMA TypeStep == TypeOK /\ PhaseInv /\ [Next]_vars => TypeOK' /\ PhaseInv'
<1> SUFFICES ASSUME TypeOK, PhaseInv, [Next]_vars PROVE TypeOK' /\ PhaseInv'
  OBVIOUS
<1>1. CASE Tick
  <2>1. PhaseInv'
    BY <1>1 DEF Tick, PhaseInv, PhaseOf, Is
  <2>2. clock' \in 0..MaxClock /\ drawn' \in 0..CounterSize
    BY <1>1, RunAssumption DEF Tick, TypeOK
  <2> QED BY <1>1, <2>1, <2>2 DEF Tick, TypeOK, dbVars
<1>2. ASSUME NEW r \in Runs, createCas(r) PROVE TypeOK' /\ PhaseInv'
  <2>1. pc' = [pc EXCEPT ![r] = "count"] /\ pc[r] = "key" /\ UNCHANGED <<task, status>>
    BY <1>2 DEF createCas, Goto, At
  <2>2. pc \in [Runs -> Points] /\ "count" \in Points
    BY DEF TypeOK, Points
  <2>3. PhaseInv'
    BY <2>1, <2>2 DEF PhaseInv, PhaseOf, Is
  <2>4. got' \in [Runs -> [clock : 0..MaxClock, counter : 0..(CounterSize - 1)]]
    BY <1>2 DEF createCas, TypeOK
  <2>5. drawn' \in 0..CounterSize
    BY <1>2, RunAssumption DEF createCas, TypeOK
  <2>6. raced' \in BOOLEAN
    BY <1>2 DEF createCas
  <2>7. pc' \in [Runs -> Points]
    BY <2>1, <2>2
  <2> QED BY <1>2, <2>3, <2>4, <2>5, <2>6, <2>7 DEF createCas, TypeOK, dbVars
<1>3. ASSUME NEW r \in Runs, getCas(r) PROVE TypeOK' /\ PhaseInv'
  <2>1. /\ pc[r] = "count" /\ UNCHANGED <<task, status>>
        /\ \E point \in {"key", "register"} : pc' = [pc EXCEPT ![r] = point]
    BY <1>3 DEF getCas, Goto, At
  <2>2. pc \in [Runs -> Points] /\ {"key", "register"} \subseteq Points
    BY DEF TypeOK, Points
  <2>3. \A s \in Runs : pc'[s] = pc[s] \/ (s = r /\ pc'[s] \in {"key", "register"})
    BY <2>1, <2>2
  <2>4. PhaseInv'
    BY <2>1, <2>3 DEF PhaseInv, PhaseOf, Is
  <2>5. pc' \in [Runs -> Points]
    BY <2>1, <2>2
  <2>6. Cas(r) \in Keys
    BY CasInKeys DEF TypeOK, Cas
  <2>7. key' \in [Runs -> Keys] /\ precas' \in Keys
    BY <1>3, <2>6 DEF getCas, TypeOK
  <2>8. counter' \in 0..(CounterSize - 1)
    BY <1>3, RunAssumption DEF getCas, TypeOK
  <2>9. got' \in [Runs -> [clock : 0..MaxClock, counter : 0..(CounterSize - 1)]]
    BY <1>3, RunAssumption DEF getCas, Unread, TypeOK
  <2> QED BY <1>3, <2>4, <2>5, <2>7, <2>8, <2>9 DEF getCas, TypeOK, dbVars
<1>4. ASSUME NEW r \in Runs, Works(r),
             errors' \in 0..MaxErrors, alive' \in BOOLEAN, reply' \in [Runs -> Codes]
      PROVE  TypeOK' /\ PhaseInv'
  <2>1. /\ pc' \in [Runs -> Points] /\ status' \in [Runs -> Statuses] /\ docs' \subseteq Docs
        /\ PhaseInv' /\ left' \subseteq Attempts /\ landed' \subseteq left'
    BY <1>4, WorksTypes
  <2>2. UNCHANGED <<task, keyVars>>
    BY <1>4 DEF Works
  <2> QED BY <1>4, <2>1, <2>2 DEF TypeOK, keyVars, Docs, Statuses
<1>5. ASSUME NEW r \in Runs,
             \/ Start(r) \/ registerJob(r) \/ updateJobStatus(r) \/ readDb(r)
             \/ compute(r) \/ writeDb(r) \/ End(r)
      PROVE  TypeOK' /\ PhaseInv'
  <2>1. errors' = errors \/ (errors < MaxErrors /\ errors' = errors + 1)
    BY <1>5 DEF Start, registerJob, updateJobStatus, readDb, compute, writeDb, End, executeQuery, dbVars
  <2>2. errors' \in 0..MaxErrors
    BY <2>1, RunAssumption DEF TypeOK
  <2>3. alive' = alive \/ alive' = FALSE
    BY <1>5 DEF Start, registerJob, updateJobStatus, readDb, compute, writeDb, End, Crash
  <2>4. alive' \in BOOLEAN
    BY <2>3 DEF TypeOK
  <2>5. reply' \in [Runs -> Codes]
    <3>1. PredictCode(r) \in Codes /\ "none" \in Codes
      BY DEF PredictCode, Codes
    <3> QED BY <1>5, <3>1 DEF TypeOK, Start, registerJob, updateJobStatus, readDb, compute, writeDb, End
  <2> QED BY <1>4, <1>5, <2>2, <2>4, <2>5, StepWorks
<1>6. CASE UNCHANGED vars
  BY <1>6 DEF vars, keyVars, dbVars, TypeOK, PhaseInv, PhaseOf, Is
<1> QED BY <1>1, <1>2, <1>3, <1>5, <1>6, LandTypes DEF Next, Step, Finished

\* The types of the state, and the status of a run at each point of its way.
THEOREM RunsKeepTheirPhases == Spec => [](TypeOK /\ PhaseInv)
BY InitInv, TypeStep, PTL DEF Spec

-----------------------------------------------------------------------------
(* Keys                                                                     *)

LEMMA KeyNumbers ==
  ASSUME TypeOK
  PROVE  /\ CounterSize \in Nat /\ CounterSize > 0
         /\ clock \in Nat /\ counter \in Nat /\ counter < CounterSize
         /\ drawn \in Nat /\ drawn <= CounterSize
         /\ Base \in Nat
         /\ \A r \in Runs : key[r] \in Nat /\ Cas(r) \in Nat /\ got[r].clock \in Nat
<1>1. CounterSize \in Nat /\ CounterSize > 0 /\ MaxClock \in Nat
  BY RunAssumption
<1>2. \A c \in 0..MaxClock, n \in 0..(CounterSize - 1) : c * CounterSize + n \in Nat
  BY <1>1
<1>3. clock * CounterSize \in Nat
  BY <1>1 DEF TypeOK
<1>4. \A r \in Runs : got[r].clock \in 0..MaxClock /\ got[r].counter \in 0..(CounterSize - 1)
  BY DEF TypeOK
<1>5. \A r \in Runs : key[r] \in Nat
  BY <1>1 DEF TypeOK, Keys
<1>6. /\ clock \in Nat /\ counter \in Nat /\ counter < CounterSize
      /\ drawn \in Nat /\ drawn <= CounterSize
  BY <1>1 DEF TypeOK
<1>7. \A r \in Runs : Cas(r) \in Nat /\ got[r].clock \in Nat
  BY <1>2, <1>4 DEF Cas
<1> QED BY <1>1, <1>3, <1>5, <1>6, <1>7 DEF Base

LEMMA WorksKeys ==
  ASSUME TypeOK, PhaseInv, KeysOK, NEW r \in Runs, Works(r)
  PROVE  KeysOK'
<1>1. \A s \in Runs : (HasKey(s)' <=> HasKey(s)) /\ (pc'[s] = "count" <=> pc[s] = "count")
  BY WorksTypes
<1>2. UNCHANGED <<key, counter, clock, drawn, got>>
  BY DEF Works, keyVars
<1>3. Base' = Base /\ DrawsOver' = DrawsOver /\ \A s \in Runs : Cas(s)' = Cas(s)
  BY <1>1, <1>2 DEF Base, DrawsOver, Cas
<1>4. \A s \in Runs : DrawingOK(s)'
  BY <1>1, <1>2, <1>3 DEF KeysOK, DrawingOK
<1>5. \A s \in Runs : KeyOK(s)'
  BY <1>1, <1>2, <1>3 DEF KeysOK, KeyOK
<1> QED BY <1>4, <1>5 DEF KeysOK

\* A tick puts every key, and the one being drawn, into the past.
LEMMA TickKeys ==
  ASSUME TypeOK, KeysOK, Tick
  PROVE  KeysOK'
<1>1. /\ clock' = clock + 1 /\ drawn' = 0 /\ drawn > 0
      /\ UNCHANGED <<task, pc, key, counter, got>>
  BY DEF Tick
<1>2. /\ Base' = Base + CounterSize
      /\ \A s \in Runs : (HasKey(s)' <=> HasKey(s)) /\ Cas(s)' = Cas(s)
  <2>1. (clock + 1) * CounterSize = clock * CounterSize + CounterSize
    BY KeyNumbers
  <2> QED BY <1>1, <2>1 DEF Base, HasKey, Is, Cas
<1>3. \A s \in Runs : DrawingOK(s)'
  <2> SUFFICES ASSUME NEW s \in Runs, pc[s] = "count" PROVE DrawingOK(s)'
    BY <1>1 DEF DrawingOK
  <2>1. /\ got[s].clock <= clock /\ Cas(s) < Base + CounterSize
    BY KeyNumbers DEF KeysOK, DrawingOK
  <2>2. got[s].clock < clock' /\ Cas(s)' < Base'
    BY <1>1, <1>2, <2>1, KeyNumbers
  <2> QED BY <1>1, <1>2, <2>2 DEF KeysOK, DrawingOK
<1>4. \A s \in Runs : KeyOK(s)'
  <2> SUFFICES ASSUME NEW s \in Runs, HasKey(s) PROVE KeyOK(s)'
    BY <1>2 DEF KeyOK
  <2>1. key[s] < Base + CounterSize /\ \A o \in Runs : HasKey(o) /\ o # s => key[s] # key[o]
    BY DEF KeysOK, KeyOK
  <2>2. key'[s] < Base' /\ key'[s] < Base' + CounterSize /\ ~(key'[s] >= Base')
    BY <1>1, <1>2, <2>1, KeyNumbers
  <2> QED BY <1>1, <1>2, <2>1, <2>2 DEF KeyOK
<1> QED BY <1>3, <1>4 DEF KeysOK

\* The counter has not gone round since the tick, so the key it gives now was
\* not drawn since; and the earlier ones are from the past.
LEMMA CreateKeys ==
  ASSUME TypeOK, KeysOK, NEW r \in Runs, createCas(r), \A s \in Runs \ {r} : pc[s] # "count"
  PROVE  KeysOK'
<1>1. /\ pc[r] = "key" /\ drawn < CounterSize
      /\ got' = [got EXCEPT ![r] = [clock |-> clock, counter |-> counter]]
      /\ drawn' = drawn + 1
      /\ pc' = [pc EXCEPT ![r] = "count"]
      /\ UNCHANGED <<task, key, counter, clock>>
  BY DEF createCas, At, Goto
<1>2. /\ \A s \in Runs : s # r => pc'[s] = pc[s] /\ got'[s] = got[s]
      /\ pc'[r] = "count" /\ got'[r] = [clock |-> clock, counter |-> counter]
  BY <1>1 DEF TypeOK
<1>3. /\ Base' = Base /\ Cas(r)' = Base + counter
      /\ \A s \in Runs : HasKey(s)' <=> HasKey(s)
      /\ \A s \in Runs : pc[s] # "count" /\ (pc'[s] = "count" <=> s = r)
  BY <1>1, <1>2 DEF Base, HasKey, Is, Cas
<1>4. DrawsOver' = drawn /\ DrawsOver = drawn
  <2>1. DrawsOver = drawn
    BY <1>3 DEF DrawsOver
  <2>2. DrawsOver' = drawn' - 1
    BY <1>1, <1>2 DEF DrawsOver
  <2> QED BY <1>1, <2>1, <2>2, KeyNumbers
<1>5. \A s \in Runs : KeyOK(s)'
  BY <1>1, <1>3, <1>4 DEF KeysOK, KeyOK
<1>6. ASSUME NEW s \in Runs, HasKey(s) PROVE Base + counter # key[s]
  <2>1. CASE key[s] < Base
    BY <2>1, KeyNumbers
  <2>2. CASE key[s] >= Base
    <3>1. PICK d \in 1..drawn :
            key[s] = Base + counter - d \/ key[s] = Base + counter - d + CounterSize
      BY <1>4, <1>6, <2>2 DEF KeysOK, KeyOK
    <3> QED BY <1>1, <3>1, KeyNumbers
  <2> QED BY <2>1, <2>2, KeyNumbers
<1>7. \A s \in Runs : DrawingOK(s)'
  <2> SUFFICES ASSUME NEW s \in Runs, s = r PROVE DrawingOK(s)'
    BY <1>3 DEF DrawingOK
  <2>1. got'[r].counter = counter' /\ got'[r].clock = clock' /\ drawn' >= 1
    BY <1>1, <1>2, KeyNumbers
  <2> QED BY <1>1, <1>3, <1>6, <2>1 DEF DrawingOK
<1> QED BY <1>5, <1>7 DEF KeysOK

\* The counter moves on by one, or goes round.
LEMMA NextCount ==
  ASSUME NEW n \in Nat, NEW size \in Nat, n < size
  PROVE  (n + 1) % size = IF n + 1 = size THEN 0 ELSE n + 1
OBVIOUS

LEMMA GetKeys ==
  ASSUME TypeOK, KeysOK, NEW r \in Runs, getCas(r)
  PROVE  KeysOK'
<1>0. /\ CounterSize \in Nat /\ CounterSize > 0 /\ clock \in Nat
      /\ counter \in Nat /\ counter < CounterSize
      /\ drawn \in Nat /\ drawn <= CounterSize /\ Base \in Nat
      /\ \A s \in Runs : key[s] \in Nat /\ Cas(s) \in Nat /\ got[s].clock \in Nat
  BY KeyNumbers
<1>1. /\ pc[r] = "count" /\ UNCHANGED <<task, clock, drawn>>
      /\ counter' = (got[r].counter + 1) % CounterSize
  BY DEF getCas, At
<1>2. /\ \A s \in Runs : pc[s] = "count" => s = r
      /\ got[r].counter = counter
      /\ \/ got[r].clock = clock /\ Cas(r) = Base + counter /\ drawn >= 1
         \/ got[r].clock < clock /\ Cas(r) < Base /\ drawn = 0
      /\ \A s \in Runs : HasKey(s) => Cas(r) # key[s]
  BY <1>1 DEF KeysOK, DrawingOK
<1>3. counter' = IF counter + 1 = CounterSize THEN 0 ELSE counter + 1
  BY <1>0, <1>1, <1>2, NextCount
<1>4. \A s \in Runs : s # r => pc'[s] = pc[s] /\ key'[s] = key[s]
  BY DEF getCas, Goto, TypeOK
<1>5. \/ pc'[r] = "key" /\ key'[r] = key[r]
      \/ pc'[r] = "register" /\ key'[r] = Cas(r)
  BY DEF getCas, Goto, TypeOK
<1>6. \A s \in Runs : pc'[s] # "count"
  BY <1>2, <1>4, <1>5
<1>7. /\ Base' = Base /\ DrawsOver' = drawn
      /\ DrawsOver = IF got[r].clock = clock THEN drawn - 1 ELSE drawn
  BY <1>1, <1>2, <1>6 DEF Base, DrawsOver
<1>8. \A s \in Runs : /\ s # r => (HasKey(s)' <=> HasKey(s))
                      /\ HasKey(r)' => key'[r] = Cas(r)
                      /\ ~ HasKey(r)
  BY <1>1, <1>4, <1>5 DEF HasKey, Is
<1>9. Cas(r) < Base + CounterSize
  BY <1>0, <1>2
<1>10. ASSUME NEW s \in Runs, HasKey(s)' PROVE key'[s] < Base' + CounterSize
  BY <1>4, <1>7, <1>8, <1>9, <1>10 DEF KeysOK, KeyOK
<1>11. ASSUME NEW s \in Runs, HasKey(s)', key'[s] >= Base'
       PROVE  \E d \in 1..drawn :
                key'[s] = Base + counter' - d \/ key'[s] = Base + counter' - d + CounterSize
  <2>1. CASE s = r
    <3>1. key'[s] = Base + counter /\ drawn >= 1
      BY <1>0, <1>2, <1>7, <1>8, <1>11, <2>1
    <3>2. key'[s] = Base + counter' - 1 \/ key'[s] = Base + counter' - 1 + CounterSize
      BY <1>0, <1>3, <3>1
    <3>3. 1 \in 1..drawn
      BY <1>0, <3>1
    <3> QED BY <3>2, <3>3
  <2>2. CASE s # r
    <3>1. HasKey(s) /\ key'[s] = key[s] /\ key[s] >= Base /\ key[s] < Base + CounterSize
      BY <1>4, <1>7, <1>8, <1>11, <2>2 DEF KeysOK, KeyOK
    <3>2. PICK d \in 1..DrawsOver :
            key[s] = Base + counter - d \/ key[s] = Base + counter - d + CounterSize
      BY <3>1 DEF KeysOK, KeyOK
    <3>3. got[r].clock = clock /\ d \in 1..(drawn - 1)
      BY <1>0, <1>2, <1>7, <3>2
    <3>4. d + 1 \in 1..drawn
      BY <1>0, <3>3
    <3>5. key[s] = Base + counter' - (d + 1) \/ key[s] = Base + counter' - (d + 1) + CounterSize
      BY <1>0, <1>3, <3>1, <3>2, <3>3
    <3> QED BY <3>1, <3>4, <3>5
  <2> QED BY <2>1, <2>2
<1>12. ASSUME NEW s \in Runs, NEW o \in Runs, HasKey(s)', HasKey(o)', s # o
       PROVE  key'[s] # key'[o]
  BY <1>2, <1>4, <1>8, <1>12 DEF KeysOK, KeyOK
<1>13. \A s \in Runs : KeyOK(s)'
  BY <1>7, <1>10, <1>11, <1>12 DEF KeyOK
<1>14. \A s \in Runs : DrawingOK(s)'
  BY <1>6 DEF DrawingOK
<1> QED BY <1>13, <1>14 DEF KeysOK

-----------------------------------------------------------------------------
(* Rows                                                                     *)

\* The runs that are past their registration are the ones whose status is.
LEMMA PastRegistration ==
  ASSUME TypeOK, PhaseInv, NEW r \in Runs
  PROVE  /\ status[r] >= READ_DB <=> Registered(r)
         /\ pc[r] = "register" => HasKey(r)
         /\ status[r] \in 0..5
<1>1. /\ status[r] \in 0..5 /\ pc[r] \in Points /\ PhaseOf(r)
      /\ Is(r, "unknown") => pc[r] \in {"idle", "returned", "done"} /\ status[r] = UNKNOWN
  BY DEF TypeOK, PhaseInv, UNKNOWN, COMPLETED
<1> QED BY <1>1 DEF Registered, HasKey, PhaseOf, Points, UNKNOWN, PRE_JOB, READ_DB, COMPUTE, WRITE_DB, COMPLETED

\* What a query does to the rows: those of other uuids stay, none gets another
\* key, and one that is new has the key of the INSERT.
LEMMA QueryRows ==
  ASSUME docs \subseteq Docs, RowsOK,
         NEW u \in Uuids, NEW k, NEW s \in Statuses, NEW v \in SUBSET Runs,
         \/ docs' = docs \/ docs' = Inserted(k, u)
         \/ docs' = StatusSet(u, s) \/ docs' = ResultSet(u, v)
  PROVE  /\ \A e \in docs' :
              \/ \E d \in docs : e.key = d.key /\ e.uuid = d.uuid
              \/ /\ docs' = Inserted(k, u) /\ e.key = k /\ e.uuid = u
         /\ \A d \in docs : \E e \in docs' : e.key = d.key /\ e.uuid = d.uuid
         /\ \A d, e \in docs' : d.key = e.key => d = e
         /\ \A d \in docs \cup docs' : d.uuid # u => (d \in docs' <=> d \in docs)
<1>1. \A d, e \in docs : d.key = e.key => d = e
  BY DEF RowsOK
<1>2. CASE docs' = docs
  BY <1>1, <1>2
<1>3. CASE docs' = Inserted(k, u)
  <2> DEFINE new == [key |-> k, uuid |-> u, status |-> PRE_JOB, result |-> {}]
  <2>1. /\ docs \subseteq docs'
        /\ \A e \in docs' : e \notin docs => e = new /\ \A d \in docs : d.key # k
    BY <1>3, InsertedIs
  <2>2. new.key = k /\ new.uuid = u
    OBVIOUS
  <2> HIDE DEF new
  <2>3. \A d, e \in docs' : d.key = e.key => d = e
    BY <1>1, <2>1, <2>2
  <2> QED BY <1>3, <2>1, <2>2, <2>3
<1>4. CASE docs' = StatusSet(u, s)
  <2> DEFINE f(d) == IF d.uuid = u THEN [d EXCEPT !.status = s] ELSE d
  <2>1. /\ \A e \in docs' : \E d \in docs : e.key = d.key /\ e.uuid = d.uuid /\ e = f(d)
        /\ \A d \in docs : \E e \in docs' : e.key = d.key /\ e.uuid = d.uuid
    BY <1>1, <1>4, StatusSetIs
  <2>2. docs' = {f(d) : d \in docs}
    BY <1>4 DEF StatusSet
  <2>3. \A d \in docs : d.uuid # u => f(d) = d
    OBVIOUS
  <2> HIDE DEF f
  <2>4. \A d, e \in docs' : d.key = e.key => d = e
    BY <1>1, <2>1
  <2>5. \A d \in docs \cup docs' : d.uuid # u => (d \in docs' <=> d \in docs)
    BY <2>1, <2>2, <2>3
  <2> QED BY <2>1, <2>4, <2>5
<1>5. CASE docs' = ResultSet(u, v)
  <2> DEFINE f(d) == IF d.uuid = u THEN [d EXCEPT !.result = v] ELSE d
  <2>1. /\ \A e \in docs' : \E d \in docs : e.key = d.key /\ e.uuid = d.uuid /\ e = f(d)
        /\ \A d \in docs : \E e \in docs' : e.key = d.key /\ e.uuid = d.uuid
    BY <1>1, <1>5, ResultSetIs
  <2>2. docs' = {f(d) : d \in docs}
    BY <1>5 DEF ResultSet
  <2>3. \A d \in docs : d.uuid # u => f(d) = d
    OBVIOUS
  <2> HIDE DEF f
  <2>4. \A d, e \in docs' : d.key = e.key => d = e
    BY <1>1, <2>1
  <2>5. \A d \in docs \cup docs' : d.uuid # u => (d \in docs' <=> d \in docs)
    BY <2>1, <2>2, <2>3
  <2> QED BY <2>1, <2>4, <2>5
<1> QED BY <1>2, <1>3, <1>4, <1>5

\* What a step of run r does to the rows.
LEMMA WorksRows ==
  ASSUME TypeOK, PhaseInv, RowsOK, NEW r \in Runs, Works(r)
  PROVE  /\ \A e \in docs' :
              \/ \E d \in docs : e.key = d.key /\ e.uuid = d.uuid
              \/ /\ pc[r] = "register" /\ e.key = key[r] /\ e.uuid = task[r].uuid
         /\ \A d \in docs : \E e \in docs' : e.key = d.key /\ e.uuid = d.uuid
         /\ \A d, e \in docs' : d.key = e.key => d = e
         /\ \A d \in docs \cup docs' : d.uuid # task[r].uuid => (d \in docs' <=> d \in docs)
<1>1. /\ docs \subseteq Docs /\ task[r].uuid \in Uuids /\ status[r] \in Statuses
      /\ {r} \in SUBSET Runs /\ \A d, e \in docs : d.key = e.key => d = e
  BY DEF TypeOK, Docs, Statuses, Task, RowsOK
<1>2. CASE docs' = docs
  BY <1>1, <1>2
<1>3. CASE pc[r] = "register" /\ docs' = Inserted(key[r], task[r].uuid)
  <2>1. docs' = Inserted(key[r], task[r].uuid)
    BY <1>3
  <2>2. /\ \A d \in docs : \E e \in docs' : e.key = d.key /\ e.uuid = d.uuid
        /\ \A d, e \in docs' : d.key = e.key => d = e
        /\ \A d \in docs \cup docs' : d.uuid # task[r].uuid => (d \in docs' <=> d \in docs)
    BY <1>1, <2>1, QueryRows
  <2>3. \A e \in docs' : e \in docs \/ (e.key = key[r] /\ e.uuid = task[r].uuid)
    BY <2>1, InsertedIs
  <2> QED BY <1>3, <2>2, <2>3
<1>4. CASE docs' = StatusSet(task[r].uuid, status[r])
  <2>1. /\ \A e \in docs' : \E d \in docs : e.key = d.key /\ e.uuid = d.uuid
    BY <1>1, <1>4, StatusSetIs
  <2> QED BY <1>1, <1>4, <2>1, QueryRows
<1>5. CASE docs' = ResultSet(task[r].uuid, {r})
  <2>1. /\ \A e \in docs' : \E d \in docs : e.key = d.key /\ e.uuid = d.uuid
    BY <1>1, <1>5, ResultSetIs
  <2> QED BY <1>1, <1>5, <2>1, QueryRows
<1> QED BY <1>2, <1>3, <1>4, <1>5
    DEF Works, Begins, Registers, Updates, Computes, Writes, Ends

\* A row under the key of a run is the row of that run.
LEMMA OwnRow ==
  ASSUME KeysOK, RowsOK, NEW r \in Runs, HasKey(r), NEW d \in docs, d.key = key[r]
  PROVE  d.uuid = task[r].uuid
<1>1. PICK s \in Runs : HasKey(s) /\ key[s] = d.key /\ task[s].uuid = d.uuid
  BY DEF RowsOK
<1>2. s = r
  BY <1>1 DEF KeysOK, KeyOK
<1> QED BY <1>1, <1>2

LEMMA WorksRowsOK ==
  ASSUME TypeOK, PhaseInv, KeysOK, RowsOK, NEW r \in Runs, Works(r)
  PROVE  RowsOK'
<1>1. UNCHANGED <<task, key>>
  BY DEF Works, keyVars
<1>2. /\ \A e \in docs' :
           \/ \E d \in docs : e.key = d.key /\ e.uuid = d.uuid
           \/ /\ pc[r] = "register" /\ e.key = key[r] /\ e.uuid = task[r].uuid
      /\ \A d \in docs : \E e \in docs' : e.key = d.key /\ e.uuid = d.uuid
      /\ \A d, e \in docs' : d.key = e.key => d = e
  BY WorksRows
<1>3. /\ \A s \in Runs : s # r => status'[s] = status[s]
      /\ \A s \in Runs : HasKey(s)' <=> HasKey(s)
  BY WorksTypes
<1>4. \A e \in docs' : \E s \in Runs : HasKey(s) /\ key[s] = e.key /\ task[s].uuid = e.uuid
  BY <1>2, PastRegistration DEF RowsOK
<1>5. ASSUME NEW s \in Runs, status'[s] >= READ_DB
      PROVE  \E d \in docs' : d.key = key[s] /\ d.uuid = task[s].uuid
  <2>1. CASE status[s] >= READ_DB
    <3>1. PICK d \in docs : d.key = key[s] /\ d.uuid = task[s].uuid
      BY <2>1 DEF RowsOK
    <3> QED BY <1>2, <3>1
  <2>2. CASE ~(status[s] >= READ_DB)
    <3>1. s = r
      BY <1>3, <1>5, <2>2
    <3>2. status[r] \in 0..5 /\ ~(status[r] >= READ_DB) /\ status'[r] >= READ_DB
          /\ status \in [Runs -> 0..5]
      BY <1>5, <2>2, <3>1 DEF TypeOK, UNKNOWN, COMPLETED
    <3>3. Registers(r) /\ docs' = Inserted(key[r], task[r].uuid)
      <4>1. pc[r] \notin {"update", "read", "compute", "write"}
        BY <3>2 DEF PhaseInv, PhaseOf, READ_DB, COMPUTE, WRITE_DB, COMPLETED
      <4>2. ~ Begins(r) /\ ~ Ends(r)
        BY <3>2 DEF Begins, Ends, To, PRE_JOB, READ_DB
      <4>3. Registers(r)
        BY <4>1, <4>2 DEF Works, Updates, Computes, Writes
      <4> QED BY <3>2, <4>3 DEF Registers, To, Stays
    <3>4. PICK e \in docs' : e.key = key[r]
      BY <3>3, InsertedIs
    <3>5. e.uuid = task[r].uuid
      <4>1. HasKey(r)
        BY <3>3, PastRegistration DEF Registers
      <4>2. CASE e \in docs
        BY <3>4, <4>1, <4>2, OwnRow
      <4>3. CASE e \notin docs
        BY <3>3, <3>4, <4>3, InsertedIs
      <4> QED BY <4>2, <4>3
    <3> QED BY <3>1, <3>4, <3>5
  <2> QED BY <2>1, <2>2
<1> QED BY <1>1, <1>2, <1>3, <1>4, <1>5 DEF RowsOK

LEMMA WorksFollow ==
  ASSUME TypeOK, PhaseInv, RowsOK, FollowOK, NEW r \in Runs, Works(r)
  PROVE  FollowOK'
<1> USE DEF UNKNOWN, PRE_JOB, READ_DB, COMPUTE, WRITE_DB, COMPLETED
<1>1. task' = task /\ landed' = landed
  BY DEF Works
<1>0. \A s, t : SetLate(s, t)' <=> SetLate(s, t)
  BY <1>1 DEF SetLate
<1>2. /\ \A s \in Runs : s # r => pc'[s] = pc[s] /\ status'[s] = status[s]
      /\ pc'[r] # "idle"
  BY WorksTypes
<1>3. /\ docs \subseteq Docs /\ task[r].uuid \in Uuids /\ status[r] \in Statuses
      /\ status \in [Runs -> 0..5] /\ pc \in [Runs -> Points] /\ status[r] \in 0..5
      /\ PhaseOf(r) /\ \A d \in docs : d.status \in 0..5
  BY DEF TypeOK, Docs, Statuses, Task, PhaseInv
<1>4. ASSUME NEW s \in Runs, s # r, Sole(s)', NEW d \in docs', d.uuid = task[s].uuid
      PROVE  FollowsAt(s, d)'
  <2>1. task[r].uuid # task[s].uuid /\ Sole(s)
    BY <1>1, <1>2, <1>4 DEF Sole
  <2>2. d \in docs
    BY <1>4, <2>1, WorksRows
  <2>3. FollowsAt(s, d)
    BY <1>4, <2>1, <2>2 DEF FollowOK
  <2> QED BY <1>0, <1>2, <1>4, <2>3 DEF FollowsAt
<1>5. ASSUME Sole(r)', NEW e \in docs', e.uuid = task[r].uuid
      PROVE  FollowsAt(r, e)'
  <2>1. Sole(r)
    BY <1>1, <1>2, <1>5 DEF Sole
  <2>2. \A d \in docs : d.uuid = task[r].uuid => FollowsAt(r, d)
    BY <2>1 DEF FollowOK
  <2>3. \A point, t : To(r, point, t) => pc'[r] = point /\ status'[r] = t
    BY <1>3 DEF To
  <2>10. ASSUME e \in docs, Stays(r) \/ To(r, "returned", status[r]) \/ To(r, "thrown", status[r])
               \/ To(r, "stuck", status[r]) \/ To(r, "done", status[r])
         PROVE  FollowsAt(r, e)'
    <3>1. FollowsAt(r, e)
      BY <1>5, <2>2, <2>10
    <3>2. status'[r] = status[r] /\ (pc'[r] = pc[r] \/ pc'[r] \in {"returned", "thrown", "stuck", "done"})
      BY <2>3, <2>10 DEF Stays
    <3> QED BY <1>0, <3>1, <3>2 DEF FollowsAt
  <2>11. ASSUME e.status \in 0..5, status[r] \in 1..4, e.status <= status[r],
                e.status = status[r] \/ SetLate(r, e.status), To(r, "update", status[r] + 1)
         PROVE  FollowsAt(r, e)'
    <3>1. status'[r] = status[r] + 1 /\ pc'[r] = "update"
      BY <2>3, <2>11
    <3> QED BY <1>0, <2>11, <3>1 DEF FollowsAt
  <2>4. CASE Begins(r)
    BY <1>3, <2>3, <2>4 DEF Begins, PhaseOf, FollowsAt
  <2>5. CASE Registers(r)
    <3>1. CASE docs' = docs
      BY <1>5, <2>5, <2>10, <2>11, <3>1, <1>3, <2>2 DEF Registers, FollowsAt, PhaseOf
    <3>2. CASE docs' = Inserted(key[r], task[r].uuid) /\ To(r, "update", status[r] + 1)
      <4>1. e.status = PRE_JOB
        <5>1. CASE e \in docs
          BY <1>5, <2>2, <2>5, <5>1 DEF Registers, FollowsAt
        <5>2. CASE e \notin docs
          BY <1>5, <3>2, <5>2, InsertedIs
        <5> QED BY <5>1, <5>2
      <4>2. status[r] = PRE_JOB
        BY <1>3, <2>5 DEF Registers, PhaseOf
      <4> QED BY <2>11, <3>2, <4>1, <4>2
    <3> QED BY <2>5, <3>1, <3>2 DEF Registers
  <2>6. CASE Updates(r)
    <3>1. CASE docs' = docs /\ (Stays(r) \/ To(r, "returned", status[r]))
      BY <1>5, <2>10, <3>1
    <3>2. CASE docs' = StatusSet(task[r].uuid, status[r]) /\ To(r, After(status[r]), status[r])
      <4>1. e.status = status[r]
        BY <1>3, <1>5, <3>2, StatusSetIs
      <4>2. status[r] \in {READ_DB, COMPUTE, WRITE_DB, COMPLETED}
        BY <1>3, <2>6 DEF Updates, PhaseOf
      <4>3. After(status[r]) # "register"
        BY <4>2, AfterIs
      <4>4. status'[r] = status[r] /\ pc'[r] # "register"
        BY <2>3, <3>2, <4>3
      <4> QED BY <4>1, <4>2, <4>4 DEF FollowsAt
    <3> QED BY <2>6, <3>1, <3>2 DEF Updates
  <2>7. CASE Computes(r)
    <3>1. /\ e \in docs /\ e.status \in 0..5 /\ status[r] \in {2, 3} /\ e.status <= status[r]
          /\ e.status = status[r] \/ SetLate(r, e.status)
      BY <1>3, <1>5, <2>2, <2>7 DEF Computes, PhaseOf, FollowsAt
    <3> QED BY <2>7, <2>10, <2>11, <3>1 DEF Computes
  <2>8. CASE Writes(r)
    <3>1. CASE docs' = docs /\ (Stays(r) \/ To(r, "returned", status[r]))
      BY <1>5, <2>10, <3>1
    <3>2. CASE docs' = ResultSet(task[r].uuid, {r}) /\ To(r, "update", status[r] + 1)
      <4>1. PICK d \in docs : e.uuid = d.uuid /\ e.status = d.status
        BY <1>3, <1>5, <3>2, ResultSetIs
      <4>2. FollowsAt(r, d) /\ d.status \in 0..5
        BY <1>3, <1>5, <2>2, <4>1
      <4>3. status[r] = 4 /\ pc[r] = "write"
        BY <1>3, <2>8 DEF Writes, PhaseOf
      <4>4. /\ e.status \in 0..5 /\ e.status <= status[r]
            /\ e.status = status[r] \/ SetLate(r, e.status)
        BY <4>1, <4>2, <4>3 DEF FollowsAt
      <4> QED BY <2>11, <3>2, <4>3, <4>4
    <3> QED BY <2>8, <3>1, <3>2 DEF Writes
  <2>9. CASE Ends(r)
    BY <1>5, <2>9, <2>10 DEF Ends
  <2> QED BY <2>4, <2>5, <2>6, <2>7, <2>8, <2>9 DEF Works
<1> QED BY <1>1, <1>4, <1>5 DEF FollowOK

LEMMA WorksResults ==
  ASSUME TypeOK, PhaseInv, KeysOK, RowsOK, ResultsOK, NEW r \in Runs, Works(r)
  PROVE  ResultsOK'
<1> USE DEF UNKNOWN, PRE_JOB, READ_DB, COMPUTE, WRITE_DB, COMPLETED
<1>1. UNCHANGED <<task, key>>
  BY DEF Works, keyVars
<1>2. /\ \A s \in Runs : s # r => pc'[s] = pc[s] /\ status'[s] = status[s]
      /\ status' \in [Runs -> Statuses] /\ \A s \in Runs : status'[s] >= status[s]
  BY WorksTypes
<1>3. /\ docs \subseteq Docs /\ task[r].uuid \in Uuids /\ status[r] \in Statuses
      /\ status \in [Runs -> 0..5] /\ status[r] \in 0..5 /\ {r} \in SUBSET Runs
      /\ PhaseOf(r)
  BY DEF TypeOK, Docs, Statuses, Task, PhaseInv
<1>4. \A s \in Runs : status[s] = COMPLETED => status'[s] = COMPLETED
  BY <1>2, <1>3 DEF Statuses
\* Where a row after the step comes from.
<1>5. ASSUME NEW e \in docs'
      PROVE  \/ e \in docs
             \/ /\ pc[r] = "register" /\ e.key = key[r] /\ e.status = PRE_JOB
             \/ \E d \in docs : /\ e.key = d.key /\ e.uuid = d.uuid /\ e.result = d.result
                                /\ e.status = d.status \/ (e.status = status[r] /\ d.uuid = task[r].uuid)
             \/ \E d \in docs : /\ e.key = d.key /\ e.uuid = d.uuid /\ e.status = d.status
                                /\ e.result = d.result \/ e.result = {r}
  <2>1. CASE pc[r] = "register" /\ e \in Inserted(key[r], task[r].uuid)
    BY <2>1, InsertedIs
  <2>2. CASE e \in StatusSet(task[r].uuid, status[r])
    <3>1. PICK d \in docs : /\ e.key = d.key /\ e.uuid = d.uuid /\ e.result = d.result
                            /\ e.status = (IF d.uuid = task[r].uuid THEN status[r] ELSE d.status)
      BY <1>3, <2>2, StatusSetIs
    <3> QED BY <3>1
  <2>3. CASE e \in ResultSet(task[r].uuid, {r})
    <3>1. PICK d \in docs : /\ e.key = d.key /\ e.uuid = d.uuid /\ e.status = d.status
                            /\ e.result = (IF d.uuid = task[r].uuid THEN {r} ELSE d.result)
      BY <1>3, <2>3, ResultSetIs
    <3> QED BY <3>1
  <2> QED BY <1>5, <2>1, <2>2, <2>3
      DEF Works, Begins, Registers, Updates, Computes, Writes, Ends
<1>6. ASSUME NEW e \in docs', e.status = COMPLETED
      PROVE  \E s \in Runs : status'[s] = COMPLETED /\ task[s].uuid = e.uuid
  <2>1. \A d \in docs : d.status = COMPLETED =>
          \E s \in Runs : status'[s] = COMPLETED /\ task[s].uuid = d.uuid
    BY <1>4 DEF ResultsOK
  <2>2. CASE e \in docs
    BY <1>6, <2>1, <2>2
  <2>3. CASE \E d \in docs : e.uuid = d.uuid /\ e.status = d.status
    BY <1>6, <2>1, <2>3
  <2>4. CASE e.status = status[r] /\ e.uuid = task[r].uuid
    BY <1>4, <1>6, <2>4
  <2> QED BY <1>5, <1>6, <2>2, <2>3, <2>4
<1>7. ASSUME NEW s \in Runs, status'[s] = COMPLETED, NEW e \in docs', e.key = key[s]
      PROVE  e.result # {}
  <2>1. CASE status[s] = COMPLETED
    <3>1. HasKey(s)
      BY <2>1, PastRegistration DEF Registered
    <3>2. \A d \in docs : d.key = key[s] => d.result # {}
      BY <2>1 DEF ResultsOK
    <3>3. ~(pc[r] = "register" /\ e.key = key[r])
      <4> SUFFICES ASSUME pc[r] = "register", e.key = key[r] PROVE FALSE
        OBVIOUS
      <4>1. HasKey(r)
        BY PastRegistration
      <4>2. s = r
        BY <1>7, <3>1, <4>1 DEF KeysOK, KeyOK
      <4> QED BY <1>3, <2>1, <4>2 DEF PhaseOf
    <3> QED BY <1>5, <1>7, <3>2, <3>3
  <2>2. CASE status[s] # COMPLETED
    <3>1. s = r
      BY <1>2, <1>7, <2>2
    <3>2. \A point, t : To(r, point, t) => status'[r] = t
      BY <1>3 DEF To
    <3>3. docs' = ResultSet(task[r].uuid, {r}) /\ pc[r] = "write"
      <4>1. ~ Begins(r)
        BY <1>3, <1>7, <2>2, <3>1, <3>2 DEF Begins
      <4>2. ~ Registers(r)
        BY <1>3, <1>7, <2>2, <3>1, <3>2 DEF Registers, Stays, PhaseOf
      <4>3. ~ Updates(r)
        BY <1>3, <1>7, <2>2, <3>1, <3>2 DEF Updates, Stays, PhaseOf
      <4>4. ~ Computes(r)
        BY <1>3, <1>7, <2>2, <3>1, <3>2 DEF Computes, Stays, PhaseOf
      <4>5. ~ Ends(r)
        BY <1>3, <1>7, <2>2, <3>1, <3>2 DEF Ends
      <4>6. Writes(r)
        BY <4>1, <4>2, <4>3, <4>4, <4>5 DEF Works
      <4> QED BY <1>7, <2>2, <3>1, <3>2, <4>6 DEF Writes, Stays
    <3>4. PICK d \in docs : /\ e.key = d.key /\ e.uuid = d.uuid
                            /\ e.result = (IF d.uuid = task[r].uuid THEN {r} ELSE d.result)
      BY <1>3, <3>3, ResultSetIs
    <3>5. HasKey(r)
      BY <3>3 DEF PhaseInv, HasKey
    <3>6. d.uuid = task[r].uuid
      BY <1>7, <3>1, <3>4, <3>5, OwnRow
    <3> QED BY <3>4, <3>6
  <2> QED BY <2>1, <2>2
<1> QED BY <1>1, <1>6, <1>7 DEF ResultsOK

\* What a run gives up is its own.
LEMMA WorksLeft ==
  ASSUME TypeOK, PhaseInv, LeftOK, NEW r \in Runs, Works(r)
  PROVE  LeftOK'
<1>1. UNCHANGED <<task, key>>
  BY DEF Works, keyVars
<1>2. /\ \A s \in Runs : (HasKey(s)' <=> HasKey(s)) /\ status'[s] >= status[s]
      /\ \A s \in Runs : status[s] \in 0..5
      /\ status' \in [Runs -> Statuses] /\ left \subseteq Attempts
  BY WorksTypes DEF TypeOK, UNKNOWN, COMPLETED
<1>3. \A s \in Runs : status'[s] \in 0..5
  BY <1>2 DEF Statuses, UNKNOWN, COMPLETED
<1>4. ASSUME NEW a \in left
      PROVE  /\ a.query.what = "insert" => HasKey(a.query.run)' /\ a.query.key = key'[a.query.run]
             /\ a.query.what = "status" => a.query.status \in READ_DB..status'[a.query.run]
  <2>1. a.query.run \in Runs /\ a.query.status \in 0..5
    BY <1>2 DEF Attempts, Queries, UNKNOWN, COMPLETED
  <2>2. /\ a.query.what = "insert" => HasKey(a.query.run) /\ a.query.key = key[a.query.run]
        /\ a.query.what = "status" => a.query.status \in READ_DB..status[a.query.run]
    BY DEF LeftOK
  <2>3. a.query.what = "status" => a.query.status \in READ_DB..status'[a.query.run]
    BY <1>2, <1>3, <2>1, <2>2 DEF READ_DB
  <2> QED BY <1>1, <1>2, <2>1, <2>2, <2>3
<1> DEFINE Good(a) ==
             /\ a.query.what = "insert" => HasKey(a.query.run)' /\ a.query.key = key'[a.query.run]
             /\ a.query.what = "status" => a.query.status \in READ_DB..status'[a.query.run]
           New(n, what) == [no |-> n, query |-> Query(r, what)]
<1>5. ASSUME NEW a, NEW n, NEW point, NEW what, a = New(n, what), GivesUp(r, point, what),
             <<point, what>> \in {<<"register", "insert">>, <<"update", "status">>, <<"write", "result">>}
      PROVE  Good(a)
  <2>1. /\ a.query.what = what /\ a.query.run = r
        /\ a.query.key = key[r] /\ a.query.status = status[r]
    BY <1>5 DEF Query
  <2>2. what = "insert" => HasKey(r)'
    BY <1>2, <1>5, PastRegistration DEF GivesUp
  <2>3. what = "status" => status[r] \in READ_DB..status'[r]
    <3>1. what = "status" => status[r] \in READ_DB..COMPLETED
      BY <1>5 DEF GivesUp, PhaseInv, PhaseOf
    <3> QED BY <1>2, <1>3, <3>1 DEF READ_DB, COMPLETED
  <2> HIDE DEF New
  <2> QED BY <1>1, <2>1, <2>2, <2>3
<1>6. \A a \in left : Good(a)
  BY <1>4
<1> HIDE DEF Good
<1>7. ASSUME NEW point, NEW what, GivesUp(r, point, what),
             <<point, what>> \in {<<"register", "insert">>, <<"update", "status">>, <<"write", "result">>}
      PROVE  \A a \in left' : Good(a)
  <2>1. PICK n \in 0..(MaxErrors - 1) : left' = left \cup {New(n, what)}
    BY <1>7 DEF GivesUp
  <2>2. \A a : a = New(n, what) => Good(a)
    BY <1>5, <1>7
  <2> HIDE DEF New
  <2> QED BY <1>6, <2>1, <2>2
<1>8. \A a \in left' : Good(a)
  BY <1>6, <1>7 DEF Works, Leaves
<1> QED BY <1>8 DEF LeftOK, Good

\* What DbGate carries out late adds no row to a run that has one, and puts a
\* row behind its run at most.
LEMMA LandRaceFree ==
  ASSUME TypeOK, PhaseInv, KeysOK, RowsOK, FollowOK, ResultsOK, LeftOK, NEW a \in left, Land(a)
  PROVE  KeysOK' /\ RowsOK' /\ FollowOK' /\ ResultsOK' /\ LeftOK'
<1> USE DEF UNKNOWN, PRE_JOB, READ_DB, COMPUTE, WRITE_DB, COMPLETED
<1> DEFINE q == a.query
           u == task[q.run].uuid
<1>1. /\ docs' = Applied(q) /\ landed' = landed \cup {a}
      /\ UNCHANGED <<task, pc, status, key, counter, clock, drawn, got, left>>
  BY DEF Land, keyVars
<1>2. /\ docs \subseteq Docs /\ q \in Queries /\ a \in Attempts
  BY DEF TypeOK, Attempts, Docs, Statuses
<1>3. /\ q.run \in Runs /\ q.key \in Keys /\ q.status \in Statuses
      /\ q.what \in {"select", "insert", "status", "result"}
      /\ u \in Uuids /\ {q.run} \in SUBSET Runs
  BY <1>2 DEF Queries, Statuses, TypeOK, Task
<1>4. /\ q.what = "insert" => HasKey(q.run) /\ q.key = key[q.run]
      /\ q.what = "status" => q.status \in READ_DB..status[q.run]
  BY DEF LeftOK
<1>5. \A s, t : SetLate(s, t) => SetLate(s, t)'
  BY <1>1 DEF SetLate
<1>6. q.what = "status" => SetLate(q.run, q.status)'
  BY <1>1 DEF SetLate
<1> HIDE DEF q, u
<1>7. /\ q.what = "select" => docs' = docs
      /\ q.what = "insert" => docs' = Inserted(q.key, u)
      /\ q.what = "status" => docs' = StatusSet(u, q.status)
      /\ q.what = "result" => docs' = ResultSet(u, {q.run})
  BY <1>1, AppliedIs DEF u
<1>8. \A s \in Runs : /\ (HasKey(s)' <=> HasKey(s)) /\ (Sole(s)' <=> Sole(s))
                      /\ status[s] \in 0..5
                      /\ status[s] >= READ_DB => pc[s] # "idle"
  BY <1>1 DEF HasKey, Is, Sole, TypeOK, PhaseInv, PhaseOf
<1>9. KeysOK' /\ LeftOK'
  <2>1. Base' = Base /\ DrawsOver' = DrawsOver /\ \A s \in Runs : Cas(s)' = Cas(s)
    BY <1>1 DEF Base, DrawsOver, Cas
  <2>2. \A s \in Runs : DrawingOK(s)' /\ KeyOK(s)'
    BY <1>1, <1>8, <2>1 DEF KeysOK, KeyOK, DrawingOK
  <2>3. \A b \in left : b.query.run \in Runs
    BY DEF TypeOK, Attempts, Queries
  <2>4. LeftOK'
    BY <1>1, <1>8, <2>3 DEF LeftOK
  <2> QED BY <2>2, <2>4 DEF KeysOK
\* A row that is new is the row of a run that had none.
<1>10. ASSUME NEW e \in docs', q.what = "insert", e \notin docs
       PROVE  /\ e.key = key[q.run] /\ e.uuid = u /\ e.status = PRE_JOB
              /\ ~(status[q.run] >= READ_DB)
  <2>1. /\ e = [key |-> q.key, uuid |-> u, status |-> PRE_JOB, result |-> {}]
        /\ \A d \in docs : d.key # q.key
    BY <1>7, <1>10, InsertedIs
  <2>2. ~(status[q.run] >= READ_DB)
    BY <1>3, <1>4, <1>10, <2>1 DEF RowsOK
  <2> QED BY <1>4, <1>10, <2>1, <2>2
<1>11. RowsOK'
  <2>1. /\ \A e \in docs' :
             \/ \E d \in docs : e.key = d.key /\ e.uuid = d.uuid
             \/ e \notin docs /\ q.what = "insert"
        /\ \A d \in docs : \E e \in docs' : e.key = d.key /\ e.uuid = d.uuid
        /\ \A d, e \in docs' : d.key = e.key => d = e
    <3>1. CASE q.what = "select"
      BY <1>7, <3>1 DEF RowsOK
    <3>2. CASE q.what = "insert"
      <4>1. docs' = Inserted(q.key, u)
        BY <1>7, <3>2
      <4> QED BY <1>2, <1>3, <3>2, <4>1, QueryRows
    <3>3. CASE q.what = "status"
      <4>1. docs' = StatusSet(u, q.status)
        BY <1>7, <3>3
      <4>2. \A e \in docs' : \E d \in docs : e.key = d.key /\ e.uuid = d.uuid
        BY <1>2, <1>3, <4>1, StatusSetIs
      <4> QED BY <1>2, <1>3, <4>1, <4>2, QueryRows
    <3>4. CASE q.what = "result"
      <4>1. docs' = ResultSet(u, {q.run})
        BY <1>7, <3>4
      <4>2. \A e \in docs' : \E d \in docs : e.key = d.key /\ e.uuid = d.uuid
        BY <1>2, <1>3, <4>1, ResultSetIs
      <4> QED BY <1>2, <1>3, <4>1, <4>2, QueryRows
    <3> QED BY <1>3, <3>1, <3>2, <3>3, <3>4
  <2>2. \A e \in docs' : \E s \in Runs : HasKey(s) /\ key[s] = e.key /\ task[s].uuid = e.uuid
    BY <1>3, <1>4, <1>10, <2>1 DEF RowsOK, u
  <2>3. ASSUME NEW s \in Runs, status[s] >= READ_DB
        PROVE  \E e \in docs' : e.key = key[s] /\ e.uuid = task[s].uuid
    <3>1. PICK d \in docs : d.key = key[s] /\ d.uuid = task[s].uuid
      BY <2>3 DEF RowsOK
    <3> QED BY <2>1, <3>1
  <2> QED BY <1>1, <1>8, <2>1, <2>2, <2>3 DEF RowsOK
\* Where a row comes from.
<1>12. ASSUME NEW e \in docs'
       PROVE  \/ e \notin docs /\ q.what = "insert"
              \/ \E d \in docs :
                   /\ e.key = d.key /\ e.uuid = d.uuid
                   /\ e.status = d.status \/ (q.what = "status" /\ d.uuid = u /\ e.status = q.status)
                   /\ e.result = d.result \/ e.result = {q.run}
  <2>1. CASE q.what \in {"select", "insert"}
    <3>1. CASE e \in docs
      BY <3>1
    <3>2. CASE e \notin docs
      BY <1>7, <1>12, <2>1, <3>2
    <3> QED BY <3>1, <3>2
  <2>2. CASE q.what = "status"
    <3>1. PICK d \in docs : /\ e.key = d.key /\ e.uuid = d.uuid /\ e.result = d.result
                            /\ e.status = (IF d.uuid = u THEN q.status ELSE d.status)
      BY <1>2, <1>3, <1>7, <1>12, <2>2, StatusSetIs
    <3> QED BY <2>2, <3>1
  <2>3. CASE q.what = "result"
    <3>1. PICK d \in docs : /\ e.key = d.key /\ e.uuid = d.uuid /\ e.status = d.status
                            /\ e.result = (IF d.uuid = u THEN {q.run} ELSE d.result)
      BY <1>2, <1>3, <1>7, <1>12, <2>3, ResultSetIs
    <3> QED BY <3>1
  <2> QED BY <1>3, <2>1, <2>2, <2>3
<1>13. ASSUME NEW r \in Runs, Sole(r), NEW e \in docs', e.uuid = task[r].uuid
       PROVE  FollowsAt(r, e)'
  <2>1. CASE e \notin docs /\ q.what = "insert"
    <3>1. e.uuid = u /\ e.status = PRE_JOB /\ ~(status[q.run] >= READ_DB) /\ pc[q.run] # "idle"
      BY <1>4, <1>10, <2>1 DEF HasKey
    <3>2. q.run = r
      BY <1>3, <1>13, <3>1 DEF Sole, u
    <3>3. pc[r] \notin {"read", "compute", "write"}
      BY <3>1, <3>2 DEF PhaseInv, PhaseOf
    <3> QED BY <1>1, <3>1, <3>2, <3>3 DEF FollowsAt
  <2>2. ASSUME NEW d \in docs, d.uuid = e.uuid, e.status = d.status PROVE FollowsAt(r, e)'
    <3>1. FollowsAt(r, d)
      BY <1>13, <2>2 DEF FollowOK
    <3> QED BY <1>1, <1>5, <2>2, <3>1 DEF FollowsAt
  <2>3. CASE q.what = "status" /\ e.uuid = u /\ e.status = q.status
    <3>1. q.status \in READ_DB..status[q.run] /\ status[q.run] \in 0..5
      BY <1>3, <1>4, <1>8, <2>3
    <3>2. q.run = r
      BY <1>3, <1>8, <1>13, <2>3, <3>1 DEF Sole, u
    <3>3. SetLate(r, e.status)' /\ e.status <= status[r] /\ pc[r] # "register"
      BY <1>6, <2>3, <3>1, <3>2 DEF PhaseInv, PhaseOf
    <3> QED BY <1>1, <3>3 DEF FollowsAt
  <2> QED BY <1>12, <1>13, <2>1, <2>2, <2>3
<1>14. FollowOK'
  BY <1>1, <1>8, <1>13 DEF FollowOK
<1>15. ASSUME NEW e \in docs', e.status = COMPLETED
       PROVE  \E r \in Runs : status[r] = COMPLETED /\ task[r].uuid = e.uuid
  <2>1. ~(e \notin docs /\ q.what = "insert")
    BY <1>10, <1>15
  <2>2. ASSUME NEW d \in docs, d.uuid = e.uuid, e.status = d.status
        PROVE  \E r \in Runs : status[r] = COMPLETED /\ task[r].uuid = e.uuid
    BY <1>15, <2>2 DEF ResultsOK
  <2>3. CASE q.what = "status" /\ e.uuid = u /\ e.status = q.status
    <3>1. status[q.run] = COMPLETED
      BY <1>3, <1>4, <1>8, <1>15, <2>3
    <3> QED BY <1>3, <2>3, <3>1 DEF u
  <2> QED BY <1>12, <2>1, <2>2, <2>3
<1>16. ASSUME NEW s \in Runs, status[s] = COMPLETED, NEW e \in docs', e.key = key[s]
       PROVE  e.result # {}
  <2>1. ~(e \notin docs /\ q.what = "insert")
    <3> SUFFICES ASSUME e \notin docs, q.what = "insert" PROVE FALSE
      OBVIOUS
    <3>1. HasKey(s) /\ HasKey(q.run) /\ key[q.run] = key[s] /\ ~(status[q.run] >= READ_DB)
      BY <1>4, <1>10, <1>16, PastRegistration DEF Registered
    <3>2. s = q.run
      BY <1>3, <3>1 DEF KeysOK, KeyOK
    <3> QED BY <1>16, <3>1, <3>2
  <2>2. \A d \in docs : d.key = key[s] => d.result # {}
    BY <1>16 DEF ResultsOK
  <2> QED BY <1>12, <1>16, <2>1, <2>2
<1>17. ResultsOK'
  BY <1>1, <1>15, <1>16 DEF ResultsOK
<1> QED BY <1>9, <1>11, <1>14, <1>17

\* Drawing a key leaves the rows alone: who gets one has no row yet.
LEMMA DrawRows ==
  ASSUME TypeOK, PhaseInv, RowsOK, FollowOK, ResultsOK, LeftOK,
         UNCHANGED <<task, status, docs, left, landed>>,
         \A s \in Runs : \/ pc'[s] = pc[s] /\ key'[s] = key[s]
                         \/ pc[s] \in {"key", "count"} /\ pc'[s] \in {"key", "count", "register"}
  PROVE  RowsOK' /\ FollowOK' /\ ResultsOK' /\ LeftOK'
<1>1. \A s \in Runs : HasKey(s) => HasKey(s)' /\ key'[s] = key[s]
  BY DEF HasKey, Is
<1>2. \A s \in Runs : status[s] >= READ_DB => HasKey(s)
  BY PastRegistration DEF Registered
<1>3. RowsOK'
  BY <1>1, <1>2 DEF RowsOK
<1>4. \A s \in Runs : status[s] = COMPLETED => HasKey(s)
  <2>1. COMPLETED >= READ_DB
    BY DEF COMPLETED, READ_DB
  <2> QED BY <1>2, <2>1
<1>5. ResultsOK'
  BY <1>1, <1>4 DEF ResultsOK
<1>6. ASSUME NEW s \in Runs, Sole(s)', NEW d \in docs, d.uuid = task[s].uuid
      PROVE  FollowsAt(s, d)'
  <2>1. Sole(s)
    BY <1>6 DEF Sole
  <2>2. PICK r \in Runs : HasKey(r) /\ task[r].uuid = d.uuid
    BY DEF RowsOK
  <2>3. r = s
    BY <1>6, <2>1, <2>2 DEF Sole, HasKey
  <2>4. pc'[s] = pc[s]
    BY <2>2, <2>3 DEF HasKey
  <2>5. FollowsAt(s, d)
    BY <1>6, <2>1 DEF FollowOK
  <2> QED BY <2>4, <2>5 DEF FollowsAt, SetLate
<1>7. FollowOK'
  BY <1>6 DEF FollowOK
<1>8. LeftOK'
  <2>1. \A a \in left : a.query.run \in Runs
    BY DEF TypeOK, Attempts, Queries
  <2> QED BY <1>1, <2>1 DEF LeftOK
<1> QED BY <1>3, <1>5, <1>7, <1>8

-----------------------------------------------------------------------------
(* The invariant of the specification                                       *)

LEMMA RunInvInit == Init => RunInv
<1> SUFFICES ASSUME Init PROVE RunInv
  OBVIOUS
<1>1. TypeOK /\ PhaseInv
  BY InitInv
<1>2. \A r \in Runs : pc[r] = "idle" /\ ~ HasKey(r) /\ status[r] = UNKNOWN
  BY DEF Init, HasKey
<1>3. KeysOK
  BY <1>2 DEF KeysOK, KeyOK, DrawingOK
<1>4. docs = {}
  BY DEF Init
<1>5. RowsOK /\ FollowOK /\ ResultsOK /\ LeftOK
  BY <1>2, <1>4 DEF Init, RowsOK, FollowOK, ResultsOK, LeftOK, UNKNOWN, READ_DB, COMPLETED
<1> QED BY <1>1, <1>3, <1>5 DEF RunInv

\* What holds of keys and rows while getLogicalCounter was not raced.
RaceFree == KeysOK /\ RowsOK /\ FollowOK /\ ResultsOK /\ LeftOK

LEMMA WorksRaceFree ==
  ASSUME TypeOK, PhaseInv, RaceFree, NEW r \in Runs, Works(r)
  PROVE  RaceFree'
<1>1. KeysOK /\ RowsOK /\ FollowOK /\ ResultsOK /\ LeftOK
  BY DEF RaceFree
<1>2. KeysOK' /\ RowsOK' /\ FollowOK' /\ ResultsOK' /\ LeftOK'
  BY <1>1, WorksKeys, WorksRowsOK, WorksFollow, WorksResults, WorksLeft
<1> QED BY <1>2 DEF RaceFree

LEMMA TickRaceFree ==
  ASSUME TypeOK, PhaseInv, RaceFree, Tick
  PROVE  RaceFree'
<1>1. KeysOK /\ RowsOK /\ FollowOK /\ ResultsOK /\ LeftOK
  BY DEF RaceFree
<1>2. UNCHANGED <<task, status, docs, left, landed, pc, key>>
  BY DEF Tick, dbVars
<1>3. RowsOK' /\ FollowOK' /\ ResultsOK' /\ LeftOK'
  BY <1>1, <1>2, DrawRows
<1> QED BY <1>1, <1>3, TickKeys DEF RaceFree

LEMMA CreateRaceFree ==
  ASSUME TypeOK, PhaseInv, RaceFree, NEW r \in Runs, createCas(r),
         \A s \in Runs \ {r} : pc[s] # "count"
  PROVE  RaceFree'
<1>1. KeysOK /\ RowsOK /\ FollowOK /\ ResultsOK /\ LeftOK
  BY DEF RaceFree
<1>2. /\ UNCHANGED <<task, status, docs, left, landed, key>>
      /\ pc[r] = "key" /\ pc' = [pc EXCEPT ![r] = "count"]
  BY DEF createCas, At, Goto, dbVars
<1>3. \A s \in Runs : \/ pc'[s] = pc[s] /\ key'[s] = key[s]
                      \/ pc[s] \in {"key", "count"} /\ pc'[s] \in {"key", "count", "register"}
  BY <1>2 DEF TypeOK
<1>4. RowsOK' /\ FollowOK' /\ ResultsOK' /\ LeftOK'
  BY <1>1, <1>2, <1>3, DrawRows
<1> QED BY <1>1, <1>4, CreateKeys DEF RaceFree

LEMMA GetRaceFree ==
  ASSUME TypeOK, PhaseInv, RaceFree, NEW r \in Runs, getCas(r)
  PROVE  RaceFree'
<1>1. KeysOK /\ RowsOK /\ FollowOK /\ ResultsOK /\ LeftOK
  BY DEF RaceFree
<1>2. UNCHANGED <<task, status, docs, left, landed>> /\ pc[r] = "count"
  BY DEF getCas, At, dbVars
<1>3. \A s \in Runs : \/ pc'[s] = pc[s] /\ key'[s] = key[s]
                      \/ pc[s] \in {"key", "count"} /\ pc'[s] \in {"key", "count", "register"}
  BY <1>2 DEF getCas, Goto, TypeOK
<1>4. RowsOK' /\ FollowOK' /\ ResultsOK' /\ LeftOK'
  BY <1>1, <1>2, <1>3, DrawRows
<1> QED BY <1>1, <1>4, GetKeys DEF RaceFree

LEMMA RunInvStep == RunInv /\ [Next]_vars => RunInv'
<1> SUFFICES ASSUME RunInv, [Next]_vars PROVE RunInv'
  OBVIOUS
<1>1. TypeOK /\ PhaseInv
  BY DEF RunInv
<1>2. TypeOK' /\ PhaseInv'
  BY <1>1, TypeStep
<1>3. ~ raced => RaceFree
  BY DEF RunInv, RaceFree
<1>4. ASSUME RaceFree' \/ raced' PROVE RunInv'
  BY <1>2, <1>4 DEF RunInv, RaceFree
<1>5. CASE Tick
  <2>1. raced' = raced
    BY <1>5 DEF Tick
  <2>2. RaceFree => RaceFree'
    BY <1>1, <1>5, TickRaceFree
  <2> QED BY <1>3, <1>4, <2>1, <2>2
<1>6. ASSUME NEW r \in Runs, createCas(r) PROVE RunInv'
  <2>1. CASE raced \/ \E s \in Runs \ {r} : pc[s] = "count"
    <3>1. raced'
      BY <1>6, <2>1, Zenon DEF createCas
    <3> QED BY <1>4, <3>1
  <2>2. CASE ~ raced /\ \A s \in Runs \ {r} : pc[s] # "count"
    <3>1. RaceFree /\ \A s \in Runs \ {r} : pc[s] # "count"
      BY <1>3, <2>2
    <3>2. RaceFree'
      BY <1>1, <1>6, <3>1, CreateRaceFree
    <3> QED BY <1>4, <3>2
  <2> QED BY <2>1, <2>2
<1>7. ASSUME NEW r \in Runs, getCas(r) PROVE RunInv'
  <2>1. raced' = raced
    BY <1>7 DEF getCas
  <2>2. RaceFree => RaceFree'
    BY <1>1, <1>7, GetRaceFree
  <2> QED BY <1>3, <1>4, <2>1, <2>2
<1>8. ASSUME NEW r \in Runs,
             \/ Start(r) \/ registerJob(r) \/ updateJobStatus(r) \/ readDb(r)
             \/ compute(r) \/ writeDb(r) \/ End(r)
      PROVE  RunInv'
  <2>1. Works(r)
    BY <1>1, <1>8, StepWorks
  <2>2. raced' = raced
    BY <2>1 DEF Works, keyVars
  <2>3. RaceFree => RaceFree'
    BY <1>1, <2>1, WorksRaceFree
  <2> QED BY <1>3, <1>4, <2>2, <2>3
<1>9. CASE UNCHANGED vars
  <2>1. raced' = raced
        /\ UNCHANGED <<task, status, docs, left, landed, pc, key, counter, clock, drawn, got>>
    BY <1>9 DEF vars, keyVars, dbVars
  <2>2. RaceFree => KeysOK'
    BY <2>1 DEF RaceFree, KeysOK, KeyOK, DrawingOK, DrawsOver, Base, Cas, HasKey, Is
  <2>3. RaceFree => RowsOK' /\ FollowOK' /\ ResultsOK' /\ LeftOK'
    BY <2>1 DEF RaceFree, RowsOK, FollowOK, FollowsAt, SetLate, ResultsOK, LeftOK, Sole, HasKey, Is
  <2>4. RaceFree => RaceFree'
    BY <2>2, <2>3 DEF RaceFree
  <2> QED BY <1>3, <1>4, <2>1, <2>4
<1>10. ASSUME NEW a \in left, Land(a) PROVE RunInv'
  <2>1. raced' = raced
    BY <1>10 DEF Land, keyVars
  <2>2. RaceFree => RaceFree'
    BY <1>1, <1>10, LandRaceFree DEF RaceFree
  <2> QED BY <1>3, <1>4, <2>1, <2>2
<1> QED BY <1>5, <1>6, <1>7, <1>8, <1>9, <1>10 DEF Next, Step, Finished

-----------------------------------------------------------------------------
(* The theorems                                                             *)

\* What the model's state can be, for every number of runs and failures.
THEOREM TypesHold == Spec => []TypeOK
BY RunsKeepTheirPhases, PTL

\* The inductive invariant: phases always, keys, rows and what was given up
\* while getLogicalCounter was not raced.
THEOREM RunInvariant == Spec => []RunInv
BY RunInvInit, RunInvStep, PTL DEF Spec

\* getCas gives no key twice as long as getLogicalCounter is never entered by
\* two threads at once: neither when the counter goes round nor when the clock
\* ticks while a thread draws.
THEOREM KeysStayApart == Spec => []KeysApart
<1>1. RunInv => KeysApart
  <2> SUFFICES ASSUME RunInv PROVE KeysApart
    OBVIOUS
  <2>1. ~ raced => KeysOK
    BY DEF RunInv
  <2>2. KeysOK => \A r, s \in Runs : r # s /\ HasKey(r) /\ HasKey(s) => key[r] # key[s]
    BY DEF KeysOK, KeyOK
  <2> QED BY <2>1, <2>2 DEF KeysApart
<1> QED BY <1>1, RunInvariant, PTL

\* An INSERT repeated or late makes no second row: there are no more rows of a uuid than
\* runs of it that have drawn a key.
LEMMA RowsAreFew ==
  ASSUME RowsOK, NEW u
  PROVE  Cardinality(Row(u)) <= Cardinality({r \in Runs : HasKey(r) /\ task[r].uuid = u})
<1> DEFINE Owners == {r \in Runs : HasKey(r) /\ task[r].uuid = u}
           owner == [d \in Row(u) |-> CHOOSE r \in Owners : key[r] = d.key]
<1>1. IsFiniteSet(Owners)
  BY RunAssumption, FS_Subset
<1>2. \A d \in Row(u) : owner[d] \in Owners /\ key[owner[d]] = d.key
  <2> TAKE d \in Row(u)
  <2>1. \E r \in Owners : key[r] = d.key
    BY DEF RowsOK, Row
  <2> QED BY <2>1
<1>3. \A d, e \in Row(u) : owner[d] = owner[e] => d = e
  BY <1>2 DEF RowsOK, Row
<1>4. owner \in Injection(Row(u), Owners)
  <2>1. owner \in [Row(u) -> Owners]
    BY <1>2
  <2> QED BY <1>3, <2>1 DEF Injection, IsInjective
<1> HIDE DEF owner, Owners
<1> QED BY <1>1, <1>4, FS_Injection DEF Owners

\* Registering a job is idempotent: the row of a run is there, once.
THEOREM RegisteringIsIdempotent == Spec => []OneRowPerRun
<1>1. RunInv => OneRowPerRun
  <2> SUFFICES ASSUME RunInv, ~ raced PROVE OneRowPerRun
    BY DEF OneRowPerRun
  <2>1. RowsOK /\ TypeOK /\ PhaseInv
    BY DEF RunInv
  <2>2. \A r \in Runs : Registered(r) => \E d \in docs : d.key = key[r] /\ d.uuid = task[r].uuid
    BY <2>1 DEF RowsOK, Registered
  <2>3. \A d \in docs : \E r \in Runs : HasKey(r) /\ key[r] = d.key
    BY <2>1 DEF RowsOK
  <2>4. \A u \in Uuids : Cardinality(Row(u)) <= Cardinality({r \in Runs : HasKey(r) /\ task[r].uuid = u})
    BY <2>1, RowsAreFew
  <2> QED BY <2>2, <2>3, <2>4 DEF OneRowPerRun
<1> QED BY <1>1, RunInvariant, PTL

\* The status a client reads is where the job is, or one step behind, or that
\* of an UPDATE that the run gave up and DbGate carried out after all.
THEOREM RowsFollowRuns == Spec => []RowFollowsRun
<1>1. RunInv => RowFollowsRun
  <2> SUFFICES ASSUME RunInv, NEW r \in Runs, ~ raced, Registered(r), Sole(r), NEW d \in Row(task[r].uuid)
               PROVE  /\ d.status <= status[r]
                      /\ d.status \in {status[r] - 1, status[r]} \/ SetLate(r, d.status)
    BY DEF RowFollowsRun
  <2>1. FollowOK
    BY DEF RunInv
  <2>2. d \in docs /\ d.uuid = task[r].uuid /\ status[r] >= READ_DB
    BY DEF Row, Registered
  <2>3. FollowsAt(r, d)
    BY <2>1, <2>2 DEF FollowOK
  <2> QED BY <2>2, <2>3 DEF FollowsAt
<1> QED BY <1>1, RunInvariant, PTL

\* A client that finds a single row, and finds it completed, finds the result.
THEOREM CompletedHasResult == Spec => []AnswerIsComplete
<1>1. RunInv => AnswerIsComplete
  <2> SUFFICES ASSUME RunInv, ~ raced, NEW d \in docs, Row(d.uuid) = {d}, d.status = COMPLETED
               PROVE  d.result # {}
    BY DEF AnswerIsComplete
  <2>1. RowsOK /\ ResultsOK
    BY DEF RunInv
  <2>2. PICK r \in Runs : status[r] = COMPLETED /\ task[r].uuid = d.uuid
    BY <2>1 DEF ResultsOK
  <2>3. PICK e \in docs : e.key = key[r] /\ e.uuid = d.uuid
    BY <2>1, <2>2 DEF RowsOK, COMPLETED, READ_DB
  <2>4. e = d
    BY <2>3 DEF Row
  <2> QED BY <2>1, <2>2, <2>3, <2>4 DEF ResultsOK
<1> QED BY <1>1, RunInvariant, PTL
=============================================================================
