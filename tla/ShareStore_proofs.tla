-------------------------- MODULE ShareStore_proofs --------------------------
(***************************************************************************)
(* Proofs about the share database of a management container and about     *)
(* the keyed lock `ls` it is built on, for any number of requests, data    *)
(* ids and pieces and whatever queries fail.                               *)
(***************************************************************************)
EXTENDS ShareStore, FiniteSetTheorems, TLAPS

-----------------------------------------------------------------------------
(* The keyed lock `ls`, for any goroutines and keys                         *)

\* The initial lock set has no channel, hence no token and no holder.
LEMMA LockInvInit == ls!Init => ls!LockInv
BY DEF ls!Init, ls!NewLockSet, ls!LockInv, ls!TypeOK, ls!MutualExclusion, ls!OneToken

\* Lock(k) up to the receive may register k; then its one sender is the token.
LEMMA LockCallKeepsInv ==
  ASSUME ls!LockInv, NEW p \in Reqs, NEW k \in Keys, ls!LockCall(p, k)
  PROVE  ls!LockInv'
<1>1. ls!TypeOK'
  BY DEF ls!LockInv, ls!TypeOK, ls!LockCall, ls!SendersAfterGetChan
<1>2. ls!MutualExclusion'
  BY DEF ls!LockInv, ls!TypeOK, ls!MutualExclusion, ls!LockCall
<1>3. ls!OneToken'
  BY DEF ls!LockInv, ls!TypeOK, ls!OneToken, ls!LockCall, ls!SendersAfterGetChan
<1> QED BY <1>1, <1>2, <1>3 DEF ls!LockInv

\* The receive turns the token from a blocked sender into a holder.
LEMMA LockReceiveKeepsInv ==
  ASSUME ls!LockInv, NEW p \in Reqs, NEW k \in Keys, ls!LockReceive(p, k)
  PROVE  ls!LockInv'
<1>1. ls!TypeOK'
  BY DEF ls!LockInv, ls!TypeOK, ls!LockReceive
<1>2. \A q \in Reqs : k \notin held[q]
  BY DEF ls!LockInv, ls!TypeOK, ls!OneToken, ls!LockReceive
<1>3. ls!MutualExclusion'
  BY <1>2 DEF ls!LockInv, ls!TypeOK, ls!MutualExclusion, ls!LockReceive
<1>4. ls!OneToken'
  BY <1>2 DEF ls!LockInv, ls!TypeOK, ls!OneToken, ls!LockReceive
<1> QED BY <1>1, <1>3, <1>4 DEF ls!LockInv

\* Unlock turns the token from the holder into a blocked sender: the key is
\* registered, because it has a holder, so get_chan adds no sender of its own.
LEMMA UnlockKeepsInv ==
  ASSUME ls!LockInv, NEW p \in Reqs, NEW k \in Keys, ls!Unlock(p, k)
  PROVE  ls!LockInv'
<1>1. k \in set /\ senders[k] = 0
  BY DEF ls!LockInv, ls!TypeOK, ls!OneToken, ls!Unlock
<1>2. \A q \in Reqs : k \in held[q] => q = p
  BY DEF ls!LockInv, ls!TypeOK, ls!MutualExclusion, ls!Unlock
<1>3. ls!TypeOK'
  BY <1>1 DEF ls!LockInv, ls!TypeOK, ls!Unlock, ls!SendersAfterGetChan
<1>4. ls!MutualExclusion'
  BY DEF ls!LockInv, ls!TypeOK, ls!MutualExclusion, ls!Unlock
<1>5. ls!OneToken'
  BY <1>1, <1>2 DEF ls!LockInv, ls!TypeOK, ls!OneToken, ls!Unlock, ls!SendersAfterGetChan
<1> QED BY <1>3, <1>4, <1>5 DEF ls!LockInv

LEMMA LockStutterKeepsInv == ls!LockInv /\ UNCHANGED ls!lockVars => ls!LockInv'
BY DEF ls!LockInv, ls!TypeOK, ls!MutualExclusion, ls!OneToken, ls!lockVars

\* The token count of every key is an invariant of the lock set, and with it
\* the types of its state.
THEOREM LockSetInvariant == ls!Spec => []ls!LockInv
<1>1. ls!Init => ls!LockInv
  BY LockInvInit
<1>2. ls!LockInv /\ [ls!Next]_(ls!lockVars) => ls!LockInv'
  BY LockCallKeepsInv, LockReceiveKeepsInv, UnlockKeepsInv, LockStutterKeepsInv
     DEF ls!Next
<1> QED BY <1>1, <1>2, PTL DEF ls!Spec

\* No two goroutines ever hold one key, for any number of both.
THEOREM LockSetMutualExclusion == ls!Spec => []ls!MutualExclusion
<1>1. ls!LockInv => ls!MutualExclusion
  BY DEF ls!LockInv
<1> QED BY <1>1, LockSetInvariant, PTL

\* The lock set implements one mutex per key: a receive acquires the key, an
\* unlock releases it, and registering the channel is invisible.
THEOREM LockSetImplementsMutex == ls!Spec => ls!MutexSpec
<1> DEFINE own == [k \in Keys |-> ls!Holders(k)]
<1>1. ls!Init => ls!Mutex!Init
  BY DEF ls!Init, ls!NewLockSet, ls!Mutex!Init, ls!Holders
<1>2. ls!LockInv /\ [ls!Next]_(ls!lockVars) => [ls!Mutex!Next]_own
  <2> SUFFICES ASSUME ls!LockInv, [ls!Next]_(ls!lockVars)
               PROVE  [ls!Mutex!Next]_own
    OBVIOUS
  <2>1. ASSUME NEW p \in Reqs, NEW k \in Keys, ls!LockCall(p, k)
        PROVE  own' = own
    BY <2>1 DEF ls!LockCall, ls!Holders
  <2>2. ASSUME NEW p \in Reqs, NEW k \in Keys, ls!LockReceive(p, k)
        PROVE  ls!Mutex!Acquire(p, k)
    <3>1. own[k] = {}
      BY <2>2 DEF ls!LockInv, ls!TypeOK, ls!OneToken, ls!LockReceive, ls!Holders
    <3>2. \A j \in Keys : ls!Holders(j)' = IF j = k THEN {p} ELSE ls!Holders(j)
      BY <3>1, <2>2 DEF ls!LockInv, ls!TypeOK, ls!LockReceive, ls!Holders
    <3>3. own' = [own EXCEPT ![k] = {p}]
      BY <3>2
    <3> QED BY <3>1, <3>3 DEF ls!Mutex!Acquire
  <2>3. ASSUME NEW p \in Reqs, NEW k \in Keys, ls!Unlock(p, k)
        PROVE  ls!Mutex!Release(p, k)
    <3>1. own[k] = {p}
      BY <2>3 DEF ls!LockInv, ls!TypeOK, ls!MutualExclusion, ls!Unlock, ls!Holders
    <3>2. \A j \in Keys : ls!Holders(j)' = IF j = k THEN {} ELSE ls!Holders(j)
      BY <3>1, <2>3 DEF ls!LockInv, ls!TypeOK, ls!Unlock, ls!Holders
    <3>3. own' = [own EXCEPT ![k] = {}]
      BY <3>2
    <3> QED BY <3>1, <3>3 DEF ls!Mutex!Release
  <2>4. CASE UNCHANGED ls!lockVars
    BY <2>4 DEF ls!lockVars, ls!Holders
  <2> QED BY <2>1, <2>2, <2>3, <2>4 DEF ls!Next, ls!Mutex!Next
<1> QED BY <1>1, <1>2, LockSetInvariant, PTL DEF ls!Spec, ls!MutexSpec, ls!Mutex!Spec

-----------------------------------------------------------------------------
(* A request, its place and its locks                                       *)

\* The operations that give their lock up between check and write.
Relocking == {"InsertShares", "InsertModelParams"}

\* While a request looks and writes it holds every id it names; it waits only
\* for the next id; when it has returned it holds none.
ReqOK(r) ==
  /\ pc[r] # "idle" => task[r] \in Ops
  /\ pc[r] \notin {"lock", "relock"} => waiting[r] = {}
  /\ pc[r] \in {"lock", "relock"} => todo[r] # << >> /\ waiting[r] \subseteq {Head(todo[r])}
  /\ pc[r] \in {"idle", "relock", "done"} => held[r] = {}
  /\ pc[r] \in {"check", "recheck", "write"} => held[r] = Ids(r)
  /\ pc[r] = "lock" =>
       /\ held[r] \cup Items(todo[r]) = Ids(r)
       /\ Len(todo[r]) <= Len(task[r].ids)
       /\ Len(todo[r]) = Len(task[r].ids) => held[r] = {}
  /\ pc[r] = "relock" => todo[r] = <<Id(r)>>
  /\ pc[r] = "unlock" => held[r] \subseteq Ids(r)
  /\ pc[r] \in {"recheck", "relock"} => task[r].op \in Relocking
  /\ pc[r] = "write" => task[r].op \in Relocking \cup {"DeleteShares"}
  /\ late[r] # "none" => pc[r] \in {"unlock", "done"} /\ verdict[r] = "error"

StoreInv == TypeOK /\ ls!LockInv /\ \A r \in Reqs : ReqOK(r)

\* The SELECT of a deletion still holds when it comes to its DELETE, unless a
\* deletion that DbGate went on with has landed in between.
FreshInv ==
  \A r \in Reqs : Is(r, "DeleteShares") /\ pc[r] = "write" =>
    \A d \in Ids(r) : RowsOf(share, d) # {} \/ SweptAway(r, d)

-----------------------------------------------------------------------------
(* Rows and the requests that insert them                                   *)

\* Requests that are at work together have met.
MetInv ==
  \A q, r \in Reqs : q # r /\ AtWork(q) /\ AtWork(r) => <<q, r>> \in met

\* An upload whose check found nothing and that has not written yet.
Passed(r, op) ==
  /\ Is(r, op)
  /\ \/ pc[r] \in {"recheck", "relock", "write"} /\ verdict[r] # "error"
     \/ late[r] = "running"

\* A row that is there in spite of that check was inserted meanwhile.
ShareRows ==
  /\ \A x, y \in share :
       x # y /\ x.id = y.id /\ x.piece = y.piece => <<x.uuid, y.uuid>> \in met
  /\ \A r \in Reqs : Passed(r, "InsertShares") =>
       \A x \in share : x.id = Id(r) /\ x.piece = task[r].piece =>
         <<x.uuid, r>> \in met /\ <<r, x.uuid>> \in met
  /\ \A r \in Reqs : Is(r, "InsertShares") /\ pc[r] \in {"relock", "write"} => verdict[r] # "error"

ResultRows ==
  /\ \A x, y \in result :
       x # y /\ x.id = y.id /\ CC \notin {x.uuid, y.uuid} => <<x.uuid, y.uuid>> \in met
  /\ \A r \in Reqs : Passed(r, "InsertModelParams") =>
       \A x \in result : x.id = Id(r) /\ x.uuid # CC =>
         <<x.uuid, r>> \in met /\ <<r, x.uuid>> \in met

RowInv == MetInv /\ ShareRows /\ ResultRows
-----------------------------------------------------------------------------
(* The operators the model is built from                                    *)

LEMMA ItemsTail ==
  ASSUME NEW S, NEW s \in Seq(S), s # << >>
  PROVE  /\ Tail(s) \in Seq(S) /\ Len(Tail(s)) = Len(s) - 1 /\ Head(s) \in S
         /\ Items(s) = {Head(s)} \cup Items(Tail(s))
         /\ IF Len(s) > 1 THEN Tail(s) # << >> ELSE Tail(s) = << >>
<1>1. /\ Tail(s) \in Seq(S) /\ Len(Tail(s)) = Len(s) - 1 /\ Head(s) = s[1] /\ Len(s) \in Nat \ {0}
      /\ DOMAIN s = 1..Len(s) /\ DOMAIN Tail(s) = 1..(Len(s) - 1) /\ Head(s) \in S
  OBVIOUS
<1>2. \A i \in 1..(Len(s) - 1) : Tail(s)[i] = s[i + 1]
  BY <1>1
<1>3. \A i \in 1..Len(s) : s[i] \in {Head(s)} \cup Items(Tail(s))
  <2> SUFFICES ASSUME NEW i \in 1..Len(s), i # 1 PROVE s[i] \in Items(Tail(s))
    BY <1>1
  <2>1. i - 1 \in 1..(Len(s) - 1) /\ i - 1 + 1 = i
    BY <1>1
  <2>2. Tail(s)[i - 1] = s[i]
    BY <1>2, <2>1
  <2> QED BY <1>1, <2>1, <2>2 DEF Items
<1>4. \A i \in 1..(Len(s) - 1) : Tail(s)[i] \in Items(s)
  <2> TAKE i \in 1..(Len(s) - 1)
  <2>1. i + 1 \in 1..Len(s)
    BY <1>1
  <2> QED BY <1>1, <1>2, <2>1 DEF Items
<1>5. Head(s) \in Items(s)
  BY <1>1 DEF Items
<1>6. Items(s) \subseteq {Head(s)} \cup Items(Tail(s))
  BY <1>1, <1>3 DEF Items
<1>7. Items(Tail(s)) \subseteq Items(s)
  BY <1>1, <1>4 DEF Items
<1>8. IF Len(s) > 1 THEN Tail(s) # << >> ELSE Tail(s) = << >>
  <2>1. CASE Len(s) > 1
    <3>1. Len(Tail(s)) # 0
      BY <1>1, <2>1
    <3>2. Tail(s) # << >>
      BY <1>1, <3>1
    <3> QED BY <2>1, <3>2
  <2>2. CASE ~(Len(s) > 1)
    <3>1. Len(Tail(s)) = 0
      BY <1>1, <2>2
    <3> QED BY <1>1, <2>2, <3>1
  <2> QED BY <2>1, <2>2
<1> QED BY <1>1, <1>5, <1>6, <1>7, <1>8

LEMMA OneItem == \A d : Items(<<d>>) = {d} /\ Len(<<d>>) = 1 /\ <<d>>[1] = d /\ Head(<<d>>) = d
BY DEF Items

LEMMA NoItem == Items(<< >>) = {}
BY DEF Items

OpNames == {"InsertShares", "DeleteShares", "GetSchema", "InsertModelParams",
            "GetComputationResult", "GetDataList"}

\* What an operation may be asked for.  Only a deletion names several ids.
LEMMA OpsAre ==
  ASSUME NEW o \in Ops
  PROVE  /\ o.op \in OpNames
         /\ o.ids \in Seq(Keys)
         /\ o.op = "InsertShares" => \E d \in DataIDs : o.ids = <<d>>
         /\ o.op = "InsertShares" => o.piece \in PieceIDs
         /\ o.op = "InsertModelParams" => \E j \in JobUUIDs : o.ids = <<j>>
         /\ o.op = "GetDataList" => o.ids = << >>
         /\ o.op # "DeleteShares" => o.ids = << >> \/ \E k : o.ids = <<k>>
         /\ o.op # "GetDataList" => o.ids # << >>
<1>1. o \in OpTypes
  BY StoreAssumption
<1>2. CASE o \in [op : {"InsertShares"}, ids : {<<d>> : d \in DataIDs}, piece : PieceIDs, json : BOOLEAN]
  <2>1. o.op = "InsertShares" /\ o.piece \in PieceIDs /\ \E d \in DataIDs : o.ids = <<d>>
    BY <1>2
  <2> QED BY <2>1 DEF OpNames, Keys
<1>3. CASE o \in [op : {"DeleteShares"}, ids : UNION {[1..n -> DataIDs] : n \in 1..MaxIds}]
  <2>1. o.op = "DeleteShares" /\ \E n \in 1..MaxIds : o.ids \in [1..n -> DataIDs]
    BY <1>3
  <2>2. PICK n \in 1..MaxIds : o.ids \in [1..n -> DataIDs]
    BY <2>1
  <2>3. o.ids \in Seq(DataIDs) /\ Len(o.ids) = n /\ n >= 1
    BY <2>2 DEF MaxIds
  <2>4. o.ids \in Seq(Keys) /\ o.ids # << >>
    BY <2>3 DEF Keys
  <2> QED BY <2>1, <2>4 DEF OpNames
<1>4. CASE o \in [op : {"GetSchema"}, ids : {<<d>> : d \in DataIDs}]
  <2>1. o.op = "GetSchema" /\ \E d \in DataIDs : o.ids = <<d>>
    BY <1>4
  <2> QED BY <2>1 DEF OpNames, Keys
<1>5. CASE o \in [op : {"InsertModelParams"}, ids : {<<j>> : j \in JobUUIDs}, json : BOOLEAN]
  <2>1. o.op = "InsertModelParams" /\ \E j \in JobUUIDs : o.ids = <<j>>
    BY <1>5
  <2> QED BY <2>1 DEF OpNames, Keys
<1>6. CASE o \in [op : {"GetComputationResult"}, ids : {<<j>> : j \in JobUUIDs}]
  <2>1. o.op = "GetComputationResult" /\ \E j \in JobUUIDs : o.ids = <<j>>
    BY <1>6
  <2> QED BY <2>1 DEF OpNames, Keys
<1>7. CASE o \in [op : {"GetDataList"}, ids : {<< >>}]
  <2>1. o.op = "GetDataList" /\ o.ids = << >>
    BY <1>7
  <2> QED BY <2>1 DEF OpNames
<1> QED BY <1>1, <1>2, <1>3, <1>4, <1>5, <1>6, <1>7 DEF OpTypes

\* A SELECT brings back no row that is not there, and all of them unless the
\* gate may break off.
LEMMA AnswersAre ==
  ASSUME NEW rows, NEW a \in Answers(rows)
  PROVE  /\ a.rows \subseteq rows
         /\ "partial" \notin Failures /\ ~ a.err => a.rows = rows
<1>1. CASE a = [err |-> FALSE, rows |-> rows]
  BY <1>1
<1>2. CASE a = [err |-> TRUE, rows |-> {}]
  <2>1. a.rows = {} /\ a.err = TRUE
    BY <1>2
  <2> QED BY <2>1
<1>3. CASE "partial" \in Failures /\ a \in {[err |-> FALSE, rows |-> s] : s \in SUBSET rows}
  <2>1. a.rows \subseteq rows
    BY <1>3
  <2> QED BY <1>3, <2>1
<1> QED BY <1>1, <1>2, <1>3 DEF Answers

\* A write leaves the bucket as it was or as it was meant to be; if DbGate is
\* left with it, as it was, and the writer is told of an error.
LEMMA OutcomesAre ==
  ASSUME NEW old, NEW new, NEW o \in Outcomes(old, new)
  PROVE  /\ o.bucket \in {old, new} /\ o.verdict \in {"ok", "error"}
         /\ o.late = "none" \/ (o.late = "running" /\ o.bucket = old /\ o.verdict = "error")
<1>1. CASE o = [bucket |-> new, verdict |-> "ok", late |-> "none"]
  BY <1>1
<1>2. CASE o = [bucket |-> old, verdict |-> "ok", late |-> "none"]
  BY <1>2
<1>3. CASE o = [bucket |-> old, verdict |-> "error", late |-> "running"]
  BY <1>3
<1> QED BY <1>1, <1>2, <1>3 DEF Outcomes

-----------------------------------------------------------------------------
(* The lock set                                                             *)

LEMMA LockSteps ==
  ASSUME NEW p \in Reqs, NEW k \in Keys, ls!LockInv,
         ls!LockCall(p, k) \/ ls!LockReceive(p, k) \/ ls!Unlock(p, k)
  PROVE  ls!LockInv'
BY LockCallKeepsInv, LockReceiveKeepsInv, UnlockKeepsInv

LEMMA LockStutter == ls!LockInv /\ UNCHANGED lockVars => ls!LockInv'
BY DEF lockVars, ls!LockInv, ls!TypeOK, ls!MutualExclusion, ls!OneToken

\* A request that holds an id is its only holder.
LEMMA SoleHolder ==
  ASSUME StoreInv, NEW r \in Reqs, NEW d \in held[r]
  PROVE  ls!Holders(d) = {r} /\ \A q \in Reqs : d \in held[q] => q = r
<1>1. \A q \in Reqs : d \in held[q] => q = r
  BY DEF StoreInv, ls!LockInv, ls!MutualExclusion
<1> QED BY <1>1 DEF ls!Holders
-----------------------------------------------------------------------------
(* The base invariant                                                       *)

Points == {"idle", "lock", "check", "recheck", "relock", "write", "unlock", "done"}
Verdicts == {"none", "ok", "error"}
Lates == {"none", "running", "landed"}
ShareRow == [uuid : Reqs, id : DataIDs, piece : PieceIDs]
ResultRow == [uuid : Reqs \cup {CC}, id : JobUUIDs]

\* A step of request r leaves the others alone.
Only(r) ==
  \A q \in Reqs \ {r} :
    /\ pc'[q] = pc[q] /\ task'[q] = task[q] /\ todo'[q] = todo[q] /\ verdict'[q] = verdict[q]
    /\ waiting'[q] = waiting[q] /\ held'[q] = held[q] /\ late'[q] = late[q]

LEMMA OnlyKeeps ==
  ASSUME StoreInv, NEW r \in Reqs, Only(r), TypeOK', ls!LockInv', ReqOK(r)'
  PROVE  StoreInv'
<1>1. ASSUME NEW q \in Reqs, q # r PROVE ReqOK(q)'
  <2>1. /\ pc'[q] = pc[q] /\ task'[q] = task[q] /\ todo'[q] = todo[q]
        /\ waiting'[q] = waiting[q] /\ held'[q] = held[q]
        /\ late'[q] = late[q] /\ verdict'[q] = verdict[q]
    BY <1>1 DEF Only
  <2>2. Ids(q)' = Ids(q) /\ Id(q)' = Id(q)
    BY <2>1 DEF Ids, Id
  <2>3. ReqOK(q)
    BY DEF StoreInv
  <2> QED BY <2>1, <2>2, <2>3 DEF ReqOK
<1> QED BY <1>1 DEF StoreInv

\* What the state of a request is made of.
LEMMA ReqTypes ==
  ASSUME StoreInv, NEW r \in Reqs
  PROVE  /\ pc \in [Reqs -> Points] /\ todo \in [Reqs -> Seq(Keys)] /\ verdict \in [Reqs -> Verdicts]
         /\ task \in [Reqs -> Ops \cup {<< >>}] /\ late \in [Reqs -> Lates]
         /\ waiting \in [Reqs -> SUBSET Keys] /\ held \in [Reqs -> SUBSET Keys]
         /\ pc[r] \in Points /\ todo[r] \in Seq(Keys) /\ verdict[r] \in Verdicts /\ held[r] \subseteq Keys
         /\ ReqOK(r)
         /\ ls!LockInv
BY DEF StoreInv, TypeOK, ls!TypeOK, Points, Verdicts, Lates

\* An operation that locks again names one id.
LEMMA OneId ==
  ASSUME NEW r \in Reqs, task[r] \in Ops, task[r].op \in Relocking
  PROVE  Ids(r) = {Id(r)} /\ Id(r) \in Keys
<1>1. PICK d : task[r].ids = <<d>> /\ d \in Keys
  BY OpsAre DEF Relocking, Keys
<1> QED BY <1>1, OneItem DEF Ids, Id

LEMMA CallKeeps ==
  ASSUME StoreInv, NEW r \in Reqs, NEW o \in Ops, Call(r, o)
  PROVE  StoreInv' /\ Only(r)
<1>1. /\ pc \in [Reqs -> Points] /\ todo \in [Reqs -> Seq(Keys)] /\ task \in [Reqs -> Ops \cup {<< >>}]
      /\ ReqOK(r)
  BY ReqTypes
<1>2. /\ pc[r] = "idle" /\ task' = [task EXCEPT ![r] = o] /\ todo' = [todo EXCEPT ![r] = o.ids]
      /\ pc' = [pc EXCEPT ![r] = IF o.ids = << >> THEN "check" ELSE "lock"]
      /\ met' = met \cup UNION {{<<r, q>>, <<q, r>>} : q \in {q \in Reqs : AtWork(q)}}
      /\ UNCHANGED <<lockVars, dbVars, verdict>>
  BY DEF Call, Goto, LockOrder
<1>3. o.ids \in Seq(Keys)
  BY OpsAre
<1>4. Only(r)
  BY <1>1, <1>2 DEF Only, lockVars, dbVars
<1>5. /\ task'[r] = o /\ todo'[r] = o.ids /\ pc'[r] = IF o.ids = << >> THEN "check" ELSE "lock"
      /\ waiting'[r] = {} /\ held'[r] = {} /\ late'[r] = "none"
  BY <1>1, <1>2 DEF ReqOK, lockVars, dbVars
<1>6. ReqOK(r)'
  <2>1. Ids(r)' = Items(o.ids)
    BY <1>5 DEF Ids
  <2>2. CASE o.ids = << >>
    BY <1>5, <2>1, <2>2, NoItem DEF ReqOK
  <2>3. CASE o.ids # << >>
    BY <1>3, <1>5, <2>1, <2>3 DEF ReqOK
  <2> QED BY <2>2, <2>3
<1>7. TypeOK'
  <2>1. /\ pc' \in [Reqs -> Points] /\ task' \in [Reqs -> Ops \cup {<< >>}]
        /\ todo' \in [Reqs -> Seq(Keys)]
    BY <1>1, <1>2, <1>3 DEF Points
  <2>2. met' \subseteq Reqs \X Reqs
    BY <1>2 DEF StoreInv, TypeOK
  <2>3. UNCHANGED <<set, senders, waiting, held, share, result, late, verdict>>
    BY <1>2 DEF lockVars, dbVars
  <2> QED BY <2>1, <2>2, <2>3 DEF StoreInv, TypeOK, ls!TypeOK, Points
<1>8. ls!LockInv'
  BY <1>2, LockStutter DEF StoreInv
<1> QED BY <1>4, <1>6, <1>7, <1>8, OnlyKeeps

\* Locks: the next id is asked for, is received, is given back.
LEMMA LockKeeps ==
  ASSUME StoreInv, NEW r \in Reqs, Lock(r)
  PROVE  StoreInv' /\ Only(r) /\ UNCHANGED <<dbVars, reqVars>>
<1> DEFINE k == Head(todo[r])
<1>1. /\ pc \in [Reqs -> Points] /\ waiting \in [Reqs -> SUBSET Keys] /\ todo[r] \in Seq(Keys)
      /\ ReqOK(r) /\ ls!LockInv
  BY ReqTypes
<1>2. /\ pc[r] \in {"lock", "relock"} /\ ls!LockCall(r, k)
      /\ waiting' = [waiting EXCEPT ![r] = {k}] /\ UNCHANGED <<held, dbVars, reqVars>>
  BY DEF Lock, ls!LockCall
<1>3. todo[r] # << >> /\ k \in Keys
  BY <1>1, <1>2, ItemsTail DEF ReqOK
<1> HIDE DEF k
<1>4. ls!LockInv'
  BY <1>1, <1>2, <1>3, LockSteps
<1>5. Only(r)
  BY <1>1, <1>2 DEF Only, reqVars, dbVars
<1>6. UNCHANGED <<task, pc, todo, verdict, met, held, late>> /\ waiting'[r] = {k}
  BY <1>1, <1>2 DEF reqVars, dbVars
<1>7. ReqOK(r)'
  <2>1. Ids(r)' = Ids(r) /\ Id(r)' = Id(r)
    BY <1>6 DEF Ids, Id
  <2> QED BY <1>1, <1>2, <1>6, <2>1 DEF ReqOK, k
<1>8. TypeOK'
  BY <1>2, <1>4, <1>6 DEF StoreInv, TypeOK, ls!LockInv, dbVars
<1> QED BY <1>2, <1>4, <1>5, <1>7, <1>8, OnlyKeeps

LEMMA LockedKeeps ==
  ASSUME StoreInv, NEW r \in Reqs, Locked(r)
  PROVE  /\ StoreInv' /\ Only(r) /\ UNCHANGED <<dbVars, task, verdict, met>>
         /\ \/ pc[r] = "lock" /\ pc'[r] \in {"lock", "check"}
            \/ pc[r] = "relock" /\ pc'[r] = "write"
<1> DEFINE k == Head(todo[r])
<1>1. /\ pc \in [Reqs -> Points] /\ waiting \in [Reqs -> SUBSET Keys] /\ held \in [Reqs -> SUBSET Keys]
      /\ todo \in [Reqs -> Seq(Keys)] /\ todo[r] \in Seq(Keys)
      /\ ReqOK(r) /\ ls!LockInv
  BY ReqTypes
<1>2. /\ pc[r] \in {"lock", "relock"} /\ ls!LockReceive(r, k)
      /\ waiting' = [waiting EXCEPT ![r] = {}] /\ held' = [held EXCEPT ![r] = @ \cup {k}]
      /\ todo' = [todo EXCEPT ![r] = Tail(@)]
      /\ UNCHANGED <<dbVars, task, verdict, met>>
      /\ IF Len(todo[r]) > 1 THEN pc' = pc
         ELSE pc' = [pc EXCEPT ![r] = IF pc[r] = "lock" THEN "check" ELSE "write"]
  BY DEF Locked, ls!LockReceive, Goto
<1>0. todo[r] # << >> /\ Len(todo[r]) \in Nat
  BY <1>1, <1>2 DEF ReqOK
<1>3. /\ todo[r] # << >> /\ k \in Keys /\ Tail(todo[r]) \in Seq(Keys)
      /\ Len(Tail(todo[r])) = Len(todo[r]) - 1
      /\ Items(todo[r]) = {k} \cup Items(Tail(todo[r])) /\ Len(todo[r]) \in Nat
      /\ IF Len(todo[r]) > 1 THEN Tail(todo[r]) # << >> ELSE Tail(todo[r]) = << >>
  BY <1>0, <1>1, ItemsTail
<1> HIDE DEF k
<1>4. ls!LockInv'
  BY <1>1, <1>2, <1>3, LockSteps
<1>5. Only(r)
  BY <1>1, <1>2 DEF Only, dbVars
<1>6. /\ waiting'[r] = {} /\ held'[r] = held[r] \cup {k} /\ todo'[r] = Tail(todo[r])
      /\ pc'[r] = IF Len(todo[r]) > 1 THEN pc[r] ELSE IF pc[r] = "lock" THEN "check" ELSE "write"
      /\ task' = task /\ late'[r] = "none"
  BY <1>1, <1>2 DEF ReqOK, dbVars
<1>7. Ids(r)' = Ids(r) /\ Id(r)' = Id(r) /\ task[r] \in Ops
  BY <1>1, <1>2, <1>6 DEF Ids, Id, ReqOK
<1>8. ASSUME pc[r] = "lock", Len(todo[r]) > 1 PROVE ReqOK(r)'
  <2>1. pc'[r] = "lock" /\ held'[r] \cup Items(todo'[r]) = Ids(r) /\ todo'[r] # << >>
    BY <1>1, <1>3, <1>6, <1>8 DEF ReqOK
  <2>2. Len(todo[r]) <= Len(task[r].ids) /\ Len(task[r].ids) \in Nat
    <3>1. task[r].ids \in Seq(Keys)
      BY <1>7, OpsAre
    <3> QED BY <1>1, <1>8, <3>1 DEF ReqOK
  <2>3. Len(todo'[r]) <= Len(task[r].ids) /\ Len(todo'[r]) # Len(task[r].ids)
    BY <1>3, <1>6, <2>2
  <2> QED BY <1>6, <1>7, <2>1, <2>3 DEF ReqOK
<1>9. ASSUME pc[r] = "lock", ~(Len(todo[r]) > 1) PROVE ReqOK(r)'
  <2>1. held'[r] = Ids(r)
    BY <1>1, <1>3, <1>6, <1>9, NoItem DEF ReqOK
  <2> QED BY <1>6, <1>7, <1>9, <2>1 DEF ReqOK
<1>10. ASSUME pc[r] = "relock" PROVE ReqOK(r)'
  <2>1. todo[r] = <<Id(r)>> /\ held[r] = {} /\ task[r].op \in Relocking
    BY <1>1, <1>10 DEF ReqOK
  <2>2. Len(todo[r]) = 1 /\ k = Id(r)
    BY <2>1, OneItem DEF k
  <2>3. Ids(r) = {Id(r)}
    BY <1>7, <2>1, OneId
  <2>4. pc'[r] = "write" /\ held'[r] = Ids(r)
    BY <1>6, <1>10, <2>1, <2>2, <2>3
  <2> QED BY <1>6, <1>7, <2>1, <2>4 DEF ReqOK
<1>11. TypeOK'
  <2>1. pc' \in [Reqs -> Points] /\ todo' \in [Reqs -> Seq(Keys)]
    BY <1>1, <1>2, <1>3 DEF Points
  <2> QED BY <1>2, <1>4, <2>1 DEF StoreInv, TypeOK, ls!LockInv, dbVars, Points
<1>12. ReqOK(r)' /\ (\/ pc[r] = "lock" /\ pc'[r] \in {"lock", "check"}
                     \/ pc[r] = "relock" /\ pc'[r] = "write")
  <2>1. pc[r] = "relock" => pc'[r] = "write"
    <3> SUFFICES ASSUME pc[r] = "relock" PROVE pc'[r] = "write"
      OBVIOUS
    <3>1. Len(todo[r]) = 1
      BY <1>1, OneItem DEF ReqOK
    <3> QED BY <1>6, <3>1
  <2> QED BY <1>2, <1>6, <1>8, <1>9, <1>10, <2>1
<1> QED BY <1>2, <1>4, <1>5, <1>11, <1>12, OnlyKeeps
LEMMA ItemsFinite ==
  ASSUME NEW S, NEW s \in Seq(S)
  PROVE  IsFiniteSet(Items(s))
<1>1. Len(s) \in Int /\ DOMAIN s = 1..Len(s) /\ s \in [1..Len(s) -> S]
  OBVIOUS
<1>2. IsFiniteSet(1..Len(s))
  BY <1>1, FS_Interval
<1>3. s \in [1..Len(s) -> Items(s)] /\ \A t \in Items(s) : \E i \in 1..Len(s) : s[i] = t
  BY <1>1 DEF Items
<1>4. s \in Surjection(1..Len(s), Items(s))
  BY <1>3 DEF Surjection
<1> QED BY <1>2, <1>4, FS_Surjection

LEMMA UnlockKeeps ==
  ASSUME StoreInv, NEW r \in Reqs, Unlock(r)
  PROVE  /\ StoreInv' /\ Only(r) /\ UNCHANGED <<dbVars, task, verdict, met>>
         /\ pc[r] = "unlock" /\ pc'[r] \in {"unlock", "done"}
<1>1. /\ pc \in [Reqs -> Points] /\ held \in [Reqs -> SUBSET Keys] /\ held[r] \subseteq Keys
      /\ ReqOK(r) /\ ls!LockInv
  BY ReqTypes
<1>2. PICK k \in held[r] :
        /\ pc[r] = "unlock" /\ ls!Unlock(r, k)
        /\ IF Cardinality(held[r]) > 1 THEN UNCHANGED pc ELSE Goto(r, "done")
        /\ UNCHANGED <<dbVars, task, todo, verdict, met>>
  BY DEF Unlock
<1>3. held' = [held EXCEPT ![r] = @ \ {k}] /\ waiting' = waiting
  BY <1>2 DEF ls!Unlock
<1>4. ls!LockInv'
  BY <1>1, <1>2, LockSteps
<1>5. Only(r)
  BY <1>1, <1>2, <1>3 DEF Only, Goto, dbVars
<1>6. /\ held'[r] = held[r] \ {k} /\ waiting'[r] = waiting[r]
      /\ pc'[r] = IF Cardinality(held[r]) > 1 THEN "unlock" ELSE "done"
      /\ pc' \in [Reqs -> Points]
  BY <1>1, <1>2, <1>3 DEF Goto, Points
<1>7. /\ task[r] \in Ops /\ held[r] \subseteq Ids(r) /\ waiting[r] = {}
      /\ UNCHANGED <<late, verdict>> /\ (late[r] # "none" => verdict[r] = "error")
  BY <1>1, <1>2 DEF ReqOK, dbVars
<1>8. ~(Cardinality(held[r]) > 1) => held'[r] = {}
  <2>1. IsFiniteSet(held[r])
    <3>1. IsFiniteSet(Ids(r))
      BY <1>7, OpsAre, ItemsFinite DEF Ids
    <3> QED BY <1>7, <3>1, FS_Subset
  <2>2. /\ IsFiniteSet(held[r] \ {k}) /\ Cardinality(held[r] \ {k}) = Cardinality(held[r]) - 1
        /\ Cardinality(held[r]) \in Nat /\ Cardinality(held[r] \ {k}) \in Nat
    BY <1>2, <2>1, FS_RemoveElement, FS_CardinalityType
  <2>3. ~(Cardinality(held[r]) > 1) => Cardinality(held[r] \ {k}) = 0
    BY <2>2
  <2> QED BY <1>6, <2>2, <2>3, FS_EmptySet
<1>9. ReqOK(r)'
  <2>1. Ids(r)' = Ids(r) /\ task' = task
    BY <1>2 DEF Ids
  <2> QED BY <1>6, <1>7, <1>8, <2>1 DEF ReqOK
<1>10. TypeOK'
  BY <1>2, <1>4, <1>6 DEF StoreInv, TypeOK, ls!LockInv, dbVars, Points
<1> QED BY <1>2, <1>4, <1>5, <1>6, <1>9, <1>10, OnlyKeeps

LEMMA RelockKeeps ==
  ASSUME StoreInv, NEW r \in Reqs, UnlockAndLockAgain(r)
  PROVE  /\ StoreInv' /\ Only(r) /\ UNCHANGED <<dbVars, task, verdict, met>>
         /\ pc[r] = "recheck" /\ pc'[r] \in {"relock", "done"}
         /\ Is(r, "InsertShares") /\ verdict[r] = "error" => pc'[r] = "done"
<1>1. /\ pc \in [Reqs -> Points] /\ held \in [Reqs -> SUBSET Keys] /\ todo \in [Reqs -> Seq(Keys)]
      /\ ReqOK(r) /\ ls!LockInv
  BY ReqTypes
<1>2. /\ pc[r] = "recheck" /\ ls!Unlock(r, Id(r)) /\ UNCHANGED <<dbVars, task, verdict, met>>
      /\ IF verdict[r] = "error" /\ Is(r, "InsertShares")
         THEN pc' = [pc EXCEPT ![r] = "done"] /\ todo' = todo
         ELSE pc' = [pc EXCEPT ![r] = "relock"] /\ todo' = [todo EXCEPT ![r] = <<Id(r)>>]
  BY DEF UnlockAndLockAgain, Goto
<1>3. /\ task[r] \in Ops /\ task[r].op \in Relocking /\ held[r] = Ids(r) /\ waiting[r] = {}
      /\ late' = late /\ late[r] = "none"
  BY <1>1, <1>2 DEF ReqOK, dbVars
<1>4. Ids(r) = {Id(r)} /\ Id(r) \in Keys
  BY <1>3, OneId
<1>5. held' = [held EXCEPT ![r] = @ \ {Id(r)}] /\ waiting' = waiting
  BY <1>2 DEF ls!Unlock
<1>6. ls!LockInv'
  BY <1>1, <1>2, <1>4, LockSteps
<1>7. /\ held'[r] = {} /\ waiting'[r] = {}
      /\ \/ pc'[r] = "done"
         \/ pc'[r] = "relock" /\ todo'[r] = <<Id(r)>> /\ ~(verdict[r] = "error" /\ Is(r, "InsertShares"))
      /\ pc' \in [Reqs -> Points] /\ todo' \in [Reqs -> Seq(Keys)]
  <2>1. held'[r] = {} /\ waiting'[r] = {}
    BY <1>1, <1>3, <1>4, <1>5
  <2>2. <<Id(r)>> \in Seq(Keys) /\ "done" \in Points /\ "relock" \in Points
    BY <1>4 DEF Points
  <2>3. CASE verdict[r] = "error" /\ Is(r, "InsertShares")
    BY <1>1, <1>2, <2>1, <2>2, <2>3
  <2>4. CASE ~(verdict[r] = "error" /\ Is(r, "InsertShares"))
    BY <1>1, <1>2, <2>1, <2>2, <2>4
  <2> QED BY <2>3, <2>4
<1>8. Only(r)
  BY <1>1, <1>2, <1>3, <1>5 DEF Only
<1>9. ReqOK(r)'
  <2>1. Ids(r)' = Ids(r) /\ Id(r)' = Id(r) /\ task' = task
    BY <1>2 DEF Ids, Id
  <2>2. CASE pc'[r] = "done"
    BY <1>3, <1>7, <2>1, <2>2 DEF ReqOK
  <2>3. CASE pc'[r] = "relock" /\ todo'[r] = <<Id(r)>>
    <3>1. <<Id(r)>> # << >> /\ Head(<<Id(r)>>) = Id(r)
      BY OneItem
    <3> QED BY <1>3, <1>7, <2>1, <2>3, <3>1 DEF ReqOK
  <2> QED BY <1>7, <2>2, <2>3
<1>10. TypeOK'
  BY <1>2, <1>6, <1>7 DEF StoreInv, TypeOK, ls!LockInv, dbVars, Points
<1> QED BY <1>2, <1>6, <1>7, <1>8, <1>9, <1>10, OnlyKeeps
(* What a query of request r does.                                          *)

Moves(r, point, v) ==
  /\ UNCHANGED <<lockVars, task, todo, met>>
  /\ pc' = [pc EXCEPT ![r] = point] /\ verdict' = [verdict EXCEPT ![r] = v]

\* Whether the rows of an upload, or of a job, are missing from the bucket.
Unseen(r) ==
  IF task[r].op = "InsertShares"
  THEN \A x \in share : ~(x.id = Id(r) /\ x.piece = task[r].piece)
  ELSE \A x \in result : x.id # Id(r)

\* A SELECT; only a deletion writes next, having seen a row of every id.
Reads(r) ==
  /\ pc[r] = "check" /\ UNCHANGED dbVars
  /\ \/ /\ task[r].op \in Relocking
        /\ \E v \in {verdict[r], "error"} :
             Moves(r, "recheck", v) /\ (v = "error" \/ "partial" \in Failures \/ Unseen(r))
     \/ /\ task[r].op = "DeleteShares" /\ Moves(r, "write", verdict[r])
        /\ \A d \in Ids(r) : RowsOf(share, d) # {}
     \/ Moves(r, "unlock", "error") \/ Moves(r, "unlock", "ok")
     \/ /\ task[r].op = "GetDataList"
        /\ Moves(r, "done", "error") \/ Moves(r, "done", "ok")

\* The buckets after the write of r: as they were, or as it makes them.
Writes(r) ==
  /\ share' \in {share, ShareAfter(r)} /\ result' \in {result, ResultAfter(r)}
  /\ task[r].op = "InsertModelParams" /\ verdict[r] = "error" /\ pc[r] = "write" => result' = result

\* A write that comes back, or that DbGate is left with.
WritesTo(r) ==
  /\ pc[r] = "write" /\ Writes(r)
  /\ \/ (Moves(r, "unlock", "error") \/ Moves(r, "unlock", "ok")) /\ late' = [late EXCEPT ![r] = "none"]
     \/ /\ Moves(r, "unlock", "error") /\ late' = [late EXCEPT ![r] = "running"]
        /\ UNCHANGED <<share, result>>
        /\ task[r].op = "InsertModelParams" => verdict[r] # "error"

LEMMA AfterIs ==
  ASSUME NEW r \in Reqs, pc[r] # "idle"
  PROVE  /\ task[r].op = "InsertShares" =>
              ShareAfter(r) = share \cup {NewShare(r)} /\ ResultAfter(r) = result
         /\ task[r].op = "DeleteShares" =>
              ShareAfter(r) = {x \in share : x.id \notin Ids(r)} /\ ResultAfter(r) = result
         /\ task[r].op = "InsertModelParams" =>
              ShareAfter(r) = share /\ ResultAfter(r) = result \cup {NewResult(r)}
         /\ task[r].op \notin {"InsertShares", "DeleteShares", "InsertModelParams"} =>
              ShareAfter(r) = share /\ ResultAfter(r) = result
BY DEF ShareAfter, ResultAfter, Is

LEMMA StepReads ==
  ASSUME StoreInv, NEW r \in Reqs,
         \/ ExistPieceID(r) \/ SelectForDelete(r) \/ GetSchema(r) \/ Count(r)
         \/ GetComputationResult(r) \/ GetDataList(r)
  PROVE  Reads(r)
<1>1. verdict \in [Reqs -> Verdicts]
  BY ReqTypes
<1>2. verdict' = verdict => verdict' = [verdict EXCEPT ![r] = verdict[r]]
  BY <1>1
<1>3. CASE ExistPieceID(r)
  <2>1. PICK a \in Answers(RowsOf(share, Id(r))) :
          IF a.err \/ \E x \in a.rows : x.piece = task[r].piece
          THEN Decide(r, "error") ELSE UNCHANGED verdict
    BY <1>3 DEF ExistPieceID
  <2>2. /\ pc[r] = "check" /\ task[r].op = "InsertShares" /\ Goto(r, "recheck")
        /\ UNCHANGED <<lockVars, dbVars, task, todo, met>>
    BY <1>3 DEF ExistPieceID, Is
  <2>3. CASE Decide(r, "error")
    BY <2>2, <2>3 DEF Goto, Decide, Reads, Moves, Relocking
  <2>4. CASE ~(a.err \/ \E x \in a.rows : x.piece = task[r].piece)
    <3>1. "partial" \in Failures \/ Unseen(r)
      BY <2>2, <2>4, AnswersAre DEF Unseen, RowsOf
    <3> QED BY <1>2, <2>1, <2>2, <2>4, <3>1 DEF Goto, Reads, Moves, Relocking
  <2> QED BY <2>1, <2>3, <2>4
<1>4. CASE Count(r)
  <2>1. PICK a \in Answers(RowsOf(result, Id(r))) :
          IF a.err \/ a.rows # {} THEN Decide(r, "error") ELSE UNCHANGED verdict
    BY <1>4 DEF Count
  <2>2. /\ pc[r] = "check" /\ task[r].op = "InsertModelParams" /\ Goto(r, "recheck")
        /\ UNCHANGED <<lockVars, dbVars, task, todo, met>>
    BY <1>4 DEF Count, Is
  <2>3. CASE Decide(r, "error")
    BY <2>2, <2>3 DEF Goto, Decide, Reads, Moves, Relocking
  <2>4. CASE ~(a.err \/ a.rows # {})
    <3>1. "partial" \in Failures \/ Unseen(r)
      BY <2>2, <2>4, AnswersAre DEF Unseen, RowsOf
    <3> QED BY <1>2, <2>1, <2>2, <2>4, <3>1 DEF Goto, Reads, Moves, Relocking
  <2> QED BY <2>1, <2>3, <2>4
<1>5. CASE GetSchema(r)
  BY <1>5 DEF GetSchema, Is, Goto, Decide, Reads, Moves
<1>6. CASE GetComputationResult(r)
  BY <1>6 DEF GetComputationResult, Is, Goto, Decide, Reads, Moves
<1>7. CASE GetDataList(r)
  BY <1>7 DEF GetDataList, Is, Goto, Decide, Reads, Moves
<1>8. CASE SelectForDelete(r)
  <2>1. PICK a \in Answers({x \in share : x.id \in Ids(r)}) :
          IF a.err \/ \E d \in Ids(r) : RowsOf(a.rows, d) = {}
          THEN Decide(r, "error") /\ Goto(r, "unlock")
          ELSE Goto(r, "write") /\ UNCHANGED verdict
    BY <1>8 DEF SelectForDelete
  <2>2. a.rows \subseteq share
    BY AnswersAre
  <2>3. /\ pc[r] = "check" /\ task[r].op = "DeleteShares"
        /\ UNCHANGED <<lockVars, dbVars, task, todo, met>>
    BY <1>8 DEF SelectForDelete, Is
  <2>4. CASE a.err \/ \E d \in Ids(r) : RowsOf(a.rows, d) = {}
    BY <2>1, <2>3, <2>4 DEF Goto, Decide, Reads, Moves
  <2>5. CASE ~(a.err \/ \E d \in Ids(r) : RowsOf(a.rows, d) = {})
    <3>1. \A d \in Ids(r) : RowsOf(share, d) # {}
      BY <2>2, <2>5 DEF RowsOf
    <3> QED BY <1>2, <2>1, <2>3, <2>5, <3>1 DEF Goto, Reads, Moves
  <2> QED BY <2>4, <2>5
<1> QED BY <1>3, <1>4, <1>5, <1>6, <1>7, <1>8

LEMMA StepWrites ==
  ASSUME StoreInv, NEW r \in Reqs, InsertShares(r) \/ DeleteShares(r) \/ InsertModelParams(r)
  PROVE  WritesTo(r)
<1>1. late \in [Reqs -> Lates] /\ ReqOK(r)
  BY ReqTypes
<1>2. pc[r] = "write" => late[r] = "none"
  BY <1>1 DEF ReqOK
<1>3. pc[r] = "write" /\ late' = late => late' = [late EXCEPT ![r] = "none"]
  BY <1>1, <1>2
<1>4. ASSUME WriteShare(r), pc[r] = "write", Goto(r, "unlock"), UNCHANGED <<lockVars, result, task, todo, met>>,
             task[r].op # "InsertModelParams"
      PROVE  WritesTo(r)
  <2>1. PICK o \in Outcomes(share, ShareAfter(r)) :
          share' = o.bucket /\ Decide(r, o.verdict) /\ late' = [late EXCEPT ![r] = o.late]
    BY <1>4 DEF WriteShare
  <2> HIDE DEF ShareAfter
  <2>2. /\ share' \in {share, ShareAfter(r)} /\ o.verdict \in {"ok", "error"}
        /\ o.late = "none" \/ (o.late = "running" /\ share' = share /\ o.verdict = "error")
    BY <2>1, OutcomesAre
  <2>3. Writes(r)
    BY <1>4, <2>2 DEF Writes
  <2>4. Moves(r, "unlock", o.verdict)
    BY <1>4, <2>1 DEF Moves, Goto, Decide
  <2> QED BY <1>4, <2>1, <2>2, <2>3, <2>4 DEF WritesTo
<1>5. ASSUME WriteResult(r), pc[r] = "write", Goto(r, "unlock"), UNCHANGED <<lockVars, share, task, todo, met>>,
             verdict[r] # "error"
      PROVE  WritesTo(r)
  <2>1. PICK o \in Outcomes(result, ResultAfter(r)) :
          result' = o.bucket /\ Decide(r, o.verdict) /\ late' = [late EXCEPT ![r] = o.late]
    BY <1>5 DEF WriteResult
  <2> HIDE DEF ResultAfter
  <2>2. /\ result' \in {result, ResultAfter(r)} /\ o.verdict \in {"ok", "error"}
        /\ o.late = "none" \/ (o.late = "running" /\ result' = result /\ o.verdict = "error")
    BY <2>1, OutcomesAre
  <2>3. Writes(r)
    BY <1>5, <2>2 DEF Writes
  <2>4. Moves(r, "unlock", o.verdict)
    BY <1>5, <2>1 DEF Moves, Goto, Decide
  <2> QED BY <1>5, <2>1, <2>2, <2>3, <2>4 DEF WritesTo
<1>6. ASSUME pc[r] = "write", Goto(r, "unlock"), Decide(r, "error"),
             UNCHANGED <<lockVars, share, result, late, task, todo, met>>
      PROVE  WritesTo(r)
  BY <1>3, <1>6 DEF WritesTo, Writes, Moves, Goto, Decide
<1>7. CASE InsertShares(r)
  BY <1>4, <1>6, <1>7 DEF InsertShares, Is
<1>8. CASE DeleteShares(r)
  BY <1>4, <1>8 DEF DeleteShares, Is
<1>9. CASE InsertModelParams(r)
  BY <1>5, <1>6, <1>9 DEF InsertModelParams, Is
<1> QED BY <1>7, <1>8, <1>9

\* Where a query may take a request.
LEMMA MovesKeep ==
  ASSUME StoreInv, NEW r \in Reqs, NEW point \in Points, NEW v \in Verdicts, Moves(r, point, v),
         NEW l \in Lates, late' = [late EXCEPT ![r] = l], l # "none" => point = "unlock" /\ v = "error",
         share' \subseteq ShareRow, result' \subseteq ResultRow,
         \/ pc[r] = "check" /\ point = "recheck" /\ task[r].op \in Relocking
         \/ pc[r] = "check" /\ point = "write" /\ task[r].op = "DeleteShares"
         \/ pc[r] = "check" /\ point = "done" /\ task[r].op = "GetDataList"
         \/ pc[r] \in {"check", "write"} /\ point = "unlock"
  PROVE  StoreInv' /\ Only(r)
<1>1. /\ pc \in [Reqs -> Points] /\ verdict \in [Reqs -> Verdicts] /\ ReqOK(r)
      /\ late \in [Reqs -> Lates]
  BY ReqTypes
<1>2. /\ pc' = [pc EXCEPT ![r] = point] /\ verdict' = [verdict EXCEPT ![r] = v]
      /\ UNCHANGED <<set, senders, waiting, held, task, todo, met>>
  BY DEF Moves, lockVars
<1>3. Only(r) /\ pc'[r] = point /\ verdict'[r] = v /\ late'[r] = l
  BY <1>1, <1>2 DEF Only
<1>4. task[r] \in Ops /\ held[r] = Ids(r) /\ waiting[r] = {}
  BY <1>1 DEF ReqOK
<1>5. task[r].op = "GetDataList" => Ids(r) = {}
  BY <1>4, OpsAre, NoItem DEF Ids
<1>6. ReqOK(r)'
  <2>1. Ids(r)' = Ids(r) /\ UNCHANGED <<held, waiting, task>>
    BY <1>2 DEF Ids
  <2> QED BY <1>3, <1>4, <1>5, <2>1 DEF ReqOK
<1>7. ls!LockInv'
  BY <1>2, LockStutter DEF StoreInv, lockVars
<1>8. TypeOK'
  <2>1. pc' \in [Reqs -> Points] /\ verdict' \in [Reqs -> Verdicts] /\ late' \in [Reqs -> Lates]
    BY <1>1, <1>2
  <2> QED BY <1>2, <1>7, <2>1 DEF StoreInv, TypeOK, ls!LockInv, Points, Verdicts, Lates, ShareRow, ResultRow
<1> QED BY <1>3, <1>6, <1>7, <1>8, OnlyKeeps

LEMMA ReadsKeep ==
  ASSUME StoreInv, NEW r \in Reqs, Reads(r)
  PROVE  StoreInv' /\ Only(r)
<1>1. verdict[r] \in Verdicts /\ "error" \in Verdicts /\ "ok" \in Verdicts
  BY ReqTypes DEF Verdicts
<1>2. share' \subseteq ShareRow /\ result' \subseteq ResultRow
  BY DEF StoreInv, TypeOK, ShareRow, ResultRow, Reads, dbVars
<1>3. PICK point \in Points, v \in Verdicts :
        /\ Moves(r, point, v)
        /\ \/ pc[r] = "check" /\ point = "recheck" /\ task[r].op \in Relocking
           \/ pc[r] = "check" /\ point = "write" /\ task[r].op = "DeleteShares"
           \/ pc[r] = "check" /\ point = "done" /\ task[r].op = "GetDataList"
           \/ pc[r] \in {"check", "write"} /\ point = "unlock"
  BY <1>1 DEF Reads, Points
<1>4. late' = [late EXCEPT ![r] = "none"] /\ "none" \in Lates
  <2>1. late \in [Reqs -> Lates] /\ ReqOK(r) /\ late' = late /\ pc[r] = "check"
    BY ReqTypes DEF Reads, dbVars
  <2>2. late[r] = "none"
    BY <2>1 DEF ReqOK
  <2> QED BY <2>1, <2>2 DEF Lates
<1> QED BY <1>2, <1>3, <1>4, MovesKeep

\* What a write puts into the buckets is a row.
LEMMA WritesRows ==
  ASSUME StoreInv, NEW r \in Reqs, pc[r] # "idle", Writes(r)
  PROVE  share' \subseteq ShareRow /\ result' \subseteq ResultRow
<1>2. share \subseteq ShareRow /\ result \subseteq ResultRow /\ task[r] \in Ops
  BY ReqTypes DEF StoreInv, TypeOK, ShareRow, ResultRow, ReqOK
<1>3. task[r].op = "InsertShares" => NewShare(r) \in ShareRow
  <2> SUFFICES ASSUME task[r].op = "InsertShares" PROVE NewShare(r) \in ShareRow
    OBVIOUS
  <2>1. PICK d \in DataIDs : task[r].ids = <<d>> /\ task[r].piece \in PieceIDs
    BY <1>2, OpsAre
  <2>2. Id(r) = d
    BY <2>1, OneItem DEF Id
  <2> QED BY <2>1, <2>2 DEF NewShare, ShareRow
<1>4. task[r].op = "InsertModelParams" => NewResult(r) \in ResultRow
  <2> SUFFICES ASSUME task[r].op = "InsertModelParams" PROVE NewResult(r) \in ResultRow
    OBVIOUS
  <2>1. PICK j \in JobUUIDs : task[r].ids = <<j>>
    BY <1>2, OpsAre
  <2>2. Id(r) = j
    BY <2>1, OneItem DEF Id
  <2> QED BY <2>1, <2>2 DEF NewResult, ResultRow
<1> QED BY <1>2, <1>3, <1>4, AfterIs DEF Writes

LEMMA WritesKeep ==
  ASSUME StoreInv, NEW r \in Reqs, WritesTo(r)
  PROVE  StoreInv' /\ Only(r)
<1>1. pc[r] = "write"
  BY DEF WritesTo
<1>2. share' \subseteq ShareRow /\ result' \subseteq ResultRow
  BY <1>1, WritesRows DEF WritesTo
<1>3. PICK v \in Verdicts, l \in Lates :
        Moves(r, "unlock", v) /\ late' = [late EXCEPT ![r] = l] /\ (l # "none" => v = "error")
  BY DEF WritesTo, Verdicts, Lates
<1>4. "unlock" \in Points
  BY DEF Points
<1> QED BY <1>1, <1>2, <1>3, <1>4, MovesKeep

\* A query that DbGate was left with has its request behind it.
LEMMA LandIs ==
  ASSUME StoreInv, NEW r \in Reqs, Land(r)
  PROVE  /\ late[r] = "running" /\ late'[r] = "landed" /\ pc[r] \in {"unlock", "done"} /\ verdict[r] = "error"
         /\ task[r] \in Ops /\ Writes(r) /\ UNCHANGED <<lockVars, reqVars>>
         /\ share' = ShareAfter(r) /\ result' = ResultAfter(r) /\ Only(r)
         /\ late' = [late EXCEPT ![r] = "landed"]
<1>1. late \in [Reqs -> Lates] /\ ReqOK(r)
  BY ReqTypes
<1>2. late[r] = "running" /\ late' = [late EXCEPT ![r] = "landed"] /\ UNCHANGED <<lockVars, reqVars>>
      /\ share' = ShareAfter(r) /\ result' = ResultAfter(r)
  BY DEF Land
<1>3. pc[r] \in {"unlock", "done"} /\ verdict[r] = "error" /\ task[r] \in Ops
  BY <1>1, <1>2 DEF ReqOK
<1>4. Only(r)
  BY <1>1, <1>2 DEF Only, lockVars, reqVars
<1> QED BY <1>1, <1>2, <1>3, <1>4 DEF Writes

LEMMA LandKeeps ==
  ASSUME StoreInv, NEW r \in Reqs, Land(r)
  PROVE  StoreInv'
<1>1. /\ pc[r] \in {"unlock", "done"} /\ verdict[r] = "error" /\ late' = [late EXCEPT ![r] = "landed"]
      /\ late'[r] = "landed"
      /\ Writes(r) /\ UNCHANGED <<lockVars, reqVars>> /\ Only(r)
  BY LandIs
<1>2. UNCHANGED <<set, senders, waiting, held, task, pc, todo, verdict, met>>
  BY <1>1 DEF lockVars, reqVars
<1>3. share' \subseteq ShareRow /\ result' \subseteq ResultRow
  BY <1>1, WritesRows
<1>4. ls!LockInv'
  BY <1>1, LockStutter DEF StoreInv
<1>5. late' \in [Reqs -> Lates]
  BY <1>1, ReqTypes DEF Lates
<1>6. TypeOK'
  BY <1>2, <1>3, <1>4, <1>5 DEF StoreInv, TypeOK, ls!LockInv, ShareRow, ResultRow, Lates
<1>7. ReqOK(r)'
  <2>1. Ids(r)' = Ids(r) /\ Id(r)' = Id(r) /\ ReqOK(r)
    BY <1>2, ReqTypes DEF Ids, Id
  <2> QED BY <1>1, <1>2, <2>1 DEF ReqOK
<1> QED BY <1>1, <1>4, <1>6, <1>7, OnlyKeeps

LEMMA RegisterKeeps ==
  ASSUME StoreInv, NEW j \in JobUUIDs, RegisterJob(j)
  PROVE  StoreInv'
<1>1. UNCHANGED <<set, senders, waiting, held, share, late, task, pc, todo, verdict, met>>
  BY DEF RegisterJob, lockVars, reqVars
<1>2. result' \subseteq [uuid : Reqs \cup {CC}, id : JobUUIDs]
  BY DEF RegisterJob, StoreInv, TypeOK
<1>3. ls!LockInv'
  BY <1>1, LockStutter DEF StoreInv, lockVars
<1>4. TypeOK'
  BY <1>1, <1>2, <1>3 DEF StoreInv, TypeOK, ls!LockInv
<1>5. \A r \in Reqs : ReqOK(r)'
  BY <1>1 DEF StoreInv, ReqOK, Ids, Id
<1> QED BY <1>3, <1>4, <1>5 DEF StoreInv

LEMMA StoreInit == Init => StoreInv
<1> SUFFICES ASSUME Init PROVE StoreInv
  OBVIOUS
<1>1. ls!LockInv
  BY DEF Init, ls!NewLockSet, ls!LockInv, ls!TypeOK, ls!MutualExclusion, ls!OneToken
<1>2. \A r \in Reqs : pc[r] = "idle" /\ waiting[r] = {} /\ held[r] = {} /\ late[r] = "none"
  BY DEF Init, ls!NewLockSet
<1>3. \A r \in Reqs : ReqOK(r)
  BY <1>2 DEF ReqOK
<1>4. TypeOK
  BY <1>1 DEF Init, TypeOK, ls!LockInv
<1> QED BY <1>1, <1>3, <1>4 DEF StoreInv

\* Every step is a call, a step of a lock, a query, one that lands late, or the
\* registration of a job.
LEMMA StepForms ==
  ASSUME StoreInv, [Next]_vars
  PROVE  \/ \E r \in Reqs, o \in Ops : Call(r, o)
         \/ \E r \in Reqs : \/ Lock(r) \/ Locked(r) \/ Unlock(r) \/ UnlockAndLockAgain(r)
                            \/ Reads(r) \/ WritesTo(r) \/ Land(r)
         \/ \E j \in JobUUIDs : RegisterJob(j)
         \/ UNCHANGED vars
<1>1. ASSUME NEW r \in Reqs, Step(r)
      PROVE  \/ Lock(r) \/ Locked(r) \/ Unlock(r) \/ UnlockAndLockAgain(r) \/ Reads(r) \/ WritesTo(r)
  BY <1>1, StepReads, StepWrites DEF Step
<1> QED BY <1>1 DEF Next, Finished

LEMMA StoreStep == StoreInv /\ [Next]_vars => StoreInv'
<1> SUFFICES ASSUME StoreInv, [Next]_vars PROVE StoreInv'
  OBVIOUS
<1>1. CASE UNCHANGED vars
  <2>1. UNCHANGED <<set, senders, waiting, held, share, result, late, task, pc, todo, verdict, met>>
    BY <1>1 DEF vars, lockVars, dbVars, reqVars
  <2>2. ls!LockInv'
    BY <2>1, LockStutter DEF StoreInv, lockVars
  <2>3. TypeOK'
    BY <2>1, <2>2 DEF StoreInv, TypeOK, ls!LockInv
  <2>4. \A r \in Reqs : ReqOK(r)'
    BY <2>1 DEF StoreInv, ReqOK, Ids, Id
  <2> QED BY <2>2, <2>3, <2>4 DEF StoreInv
<1> QED BY <1>1, StepForms, CallKeeps, LockKeeps, LockedKeeps, UnlockKeeps, RelockKeeps,
           ReadsKeep, WritesKeep, LandKeeps, RegisterKeeps

\* A request holds every id it names while it looks and while it writes, waits
\* for one id at a time and returns without a lock.
THEOREM StoreInvariant == Spec => []StoreInv
BY StoreInit, StoreStep, PTL DEF Spec

\* What the requests, the lock set and the buckets can hold.
THEOREM TypesHold == Spec => []TypeOK
<1>1. StoreInv => TypeOK
  BY DEF StoreInv
<1> QED BY <1>1, StoreInvariant, PTL

\* A request that waits and keeps another one waiting is a deletion of several
\* ids: it waits for its next id, and so names one more than it holds.
THEOREM OnlyDeletionsDeadlock == Spec => []OnlyMultiIdDeletesDeadlock
<1>1. StoreInv => OnlyMultiIdDeletesDeadlock
  <2> SUFFICES ASSUME StoreInv, NEW q \in Reqs, NEW r \in Reqs, WaitsFor(q, r), waiting[r] # {}
               PROVE  Is(r, "DeleteShares") /\ Len(task[r].ids) > 1
    BY DEF OnlyMultiIdDeletesDeadlock
  <2>1. ReqOK(r) /\ todo[r] \in Seq(Keys) /\ held[r] # {}
    BY ReqTypes DEF WaitsFor
  <2>2. pc[r] = "lock" /\ task[r] \in Ops /\ todo[r] # << >>
    BY <2>1 DEF ReqOK
  <2>3. Len(todo[r]) <= Len(task[r].ids) /\ Len(todo[r]) # Len(task[r].ids)
    BY <2>1, <2>2 DEF ReqOK
  <2>4. task[r].ids \in Seq(Keys) /\ Len(task[r].ids) \in Nat /\ Len(todo[r]) \in Nat
    BY <2>1, <2>2, OpsAre
  <2>5. Len(todo[r]) # 0
    BY <2>1, <2>2
  <2>6. Len(task[r].ids) > 1
    BY <2>3, <2>4, <2>5
  <2>7. task[r].op = "DeleteShares"
    <3>1. ~(Len(<< >>) > 1) /\ \A k : ~(Len(<<k>>) > 1)
      OBVIOUS
    <3>2. task[r].op # "DeleteShares" => task[r].ids = << >> \/ \E k : task[r].ids = <<k>>
      BY <2>2, OpsAre
    <3>3. task[r].ids # << >> /\ \A k : task[r].ids # <<k>>
      BY <2>6, <3>1, Zenon
    <3> QED BY <3>2, <3>3
  <2> QED BY <2>2, <2>6, <2>7 DEF Is
<1> QED BY <1>1, StoreInvariant, PTL
-----------------------------------------------------------------------------
(* The store uses its lock set as the lock set is meant to be used          *)

\* Every step of the store is a step of the lock set or leaves it alone; in
\* particular only a holder unlocks.
LEMMA StoreStepsLock == StoreInv /\ [Next]_vars => [ls!Next]_(ls!lockVars)
<1> SUFFICES ASSUME StoreInv, [Next]_vars, ~UNCHANGED lockVars PROVE ls!Next
  BY DEF lockVars, ls!lockVars
<1>1. ASSUME NEW r \in Reqs, Lock(r) \/ Locked(r) PROVE ls!Next
  <2>1. todo[r] \in Seq(Keys) /\ ReqOK(r) /\ pc[r] \in {"lock", "relock"}
    BY <1>1, ReqTypes DEF Lock, Locked
  <2>2. todo[r] # << >>
    BY <2>1 DEF ReqOK
  <2>3. Head(todo[r]) \in Keys
    BY <2>1, <2>2, ItemsTail
  <2>4. ls!LockCall(r, Head(todo[r])) \/ ls!LockReceive(r, Head(todo[r]))
    BY <1>1 DEF Lock, Locked
  <2> QED BY <2>3, <2>4 DEF ls!Next
<1>2. ASSUME NEW r \in Reqs, Unlock(r) PROVE ls!Next
  <2>1. held[r] \subseteq Keys
    BY ReqTypes
  <2>2. \E k \in held[r] : ls!Unlock(r, k)
    BY <1>2 DEF Unlock
  <2> QED BY <2>1, <2>2 DEF ls!Next
<1>3. ASSUME NEW r \in Reqs, UnlockAndLockAgain(r) PROVE ls!Next
  <2>1. ReqOK(r) /\ pc[r] = "recheck" /\ ls!Unlock(r, Id(r))
    BY <1>3, ReqTypes DEF UnlockAndLockAgain
  <2>2. Id(r) \in Keys
    BY <2>1, OneId DEF ReqOK
  <2> QED BY <2>1, <2>2 DEF ls!Next
<1>4. \A r \in Reqs, o \in Ops : ~Call(r, o)
  BY DEF Call
<1>5. \A r \in Reqs : ~Reads(r) /\ ~WritesTo(r) /\ ~Land(r)
  BY DEF Reads, WritesTo, Moves, Land
<1>6. (\A j \in JobUUIDs : ~RegisterJob(j)) /\ ~UNCHANGED vars
  BY DEF RegisterJob, vars
<1> QED BY <1>1, <1>2, <1>3, <1>4, <1>5, <1>6, StepForms

\* The requests of a management container get one mutex per id from `ls`: the
\* store is a behaviour of the lock set, and the lock set implements the mutexes.
THEOREM StoreLocksAreMutexes == Spec => LocksAreMutexes
<1>1. Init => ls!Init
  BY DEF Init, ls!Init
<1>2. Spec => ls!Spec
  BY <1>1, StoreInvariant, StoreStepsLock, PTL DEF Spec, ls!Spec
<1> QED BY <1>2, LockSetImplementsMutex DEF LocksAreMutexes
-----------------------------------------------------------------------------
(* The rows of an id change under its lock                                  *)

LEMMA RowChange ==
  ASSUME StoreInv, NEW r \in Reqs, pc[r] # "idle", Writes(r), NEW d, RowsOf(share', d) # RowsOf(share, d)
  PROVE  d \in Ids(r)
<1>1. task[r] \in Ops
  BY ReqTypes DEF ReqOK
<1>2. share' = ShareAfter(r)
  BY DEF Writes
<1>3. CASE task[r].op = "InsertShares"
  <2>1. Ids(r) = {Id(r)}
    BY <1>1, <1>3, OneId DEF Relocking
  <2>2. NewShare(r).id = Id(r)
    BY DEF NewShare
  <2>3. share' = share \cup {NewShare(r)}
    BY <1>2, <1>3, AfterIs
  <2>4. d = Id(r)
    BY <2>2, <2>3 DEF RowsOf
  <2> QED BY <2>1, <2>4
<1>4. CASE task[r].op = "DeleteShares"
  <2>1. share' = {x \in share : x.id \notin Ids(r)}
    BY <1>2, <1>4, AfterIs
  <2> QED BY <2>1 DEF RowsOf
<1>5. CASE task[r].op \notin {"InsertShares", "DeleteShares"}
  <2>1. share' = share
    BY <1>2, <1>5, AfterIs
  <2> QED BY <2>1
<1> QED BY <1>3, <1>4, <1>5

\* Only a write changes the share bucket: it moves its request on, or lands
\* after the request was told of an error.
LEMMA ShareChange ==
  ASSUME StoreInv, [Next]_vars
  PROVE  \/ share' = share
         \/ \E r \in Reqs : WritesTo(r) /\ pc'[r] # pc[r] /\ late'[r] = "none"
         \/ \E r \in Reqs : Land(r)
<1>1. ASSUME NEW r \in Reqs, WritesTo(r), share' # share PROVE pc'[r] # pc[r] /\ late'[r] = "none"
  <2>1. pc[r] = "write" /\ pc' = [pc EXCEPT ![r] = "unlock"] /\ pc \in [Reqs -> Points]
        /\ late' = [late EXCEPT ![r] = "none"] /\ late \in [Reqs -> Lates]
    BY <1>1, ReqTypes DEF WritesTo, Moves
  <2> QED BY <2>1
<1>2. ASSUME NEW r \in Reqs, NEW o \in Ops, Call(r, o) PROVE share' = share
  BY <1>2 DEF Call, dbVars
<1>3. ASSUME NEW r \in Reqs,
             Lock(r) \/ Locked(r) \/ Unlock(r) \/ UnlockAndLockAgain(r) \/ Reads(r)
      PROVE  share' = share
  BY <1>3 DEF Lock, Locked, Unlock, UnlockAndLockAgain, Reads, dbVars
<1>4. ASSUME NEW j \in JobUUIDs, RegisterJob(j) PROVE share' = share
  BY <1>4 DEF RegisterJob
<1>5. UNCHANGED vars => share' = share
  BY DEF vars, dbVars
<1> QED BY <1>1, <1>2, <1>3, <1>4, <1>5, StepForms

\* Who changes the rows of a data id holds it, alone, or has named it and
\* reported an error.
THEOREM RowsChangeUnderLock == Spec => IdsChangeUnderTheirLock
<1>1. StoreInv /\ [Next]_vars =>
        [\A d \in DataIDs :
           RowsOf(share', d) # RowsOf(share, d) =>
             \E r \in Reqs :
               \/ pc'[r] # pc[r] /\ ls!Holders(d) = {r}
               \/ late'[r] # late[r] /\ d \in Ids(r) /\ verdict[r] = "error"]_vars
  <2> SUFFICES ASSUME StoreInv, [Next]_vars, NEW d \in DataIDs, RowsOf(share', d) # RowsOf(share, d)
               PROVE  \E r \in Reqs :
                        \/ pc'[r] # pc[r] /\ ls!Holders(d) = {r}
                        \/ late'[r] # late[r] /\ d \in Ids(r) /\ verdict[r] = "error"
    OBVIOUS
  <2>1. ASSUME NEW r \in Reqs, WritesTo(r), pc'[r] # pc[r] PROVE ls!Holders(d) = {r}
    <3>1. pc[r] = "write" /\ Writes(r) /\ ReqOK(r)
      BY <2>1, ReqTypes DEF WritesTo
    <3>2. d \in held[r]
      BY <3>1, RowChange DEF ReqOK
    <3> QED BY <3>2, SoleHolder
  <2>2. ASSUME NEW r \in Reqs, Land(r)
        PROVE  late'[r] # late[r] /\ d \in Ids(r) /\ verdict[r] = "error"
    <3>1. pc[r] # "idle" /\ Writes(r) /\ verdict[r] = "error" /\ late[r] = "running" /\ late'[r] = "landed"
      BY <2>2, LandIs
    <3> QED BY <3>1, RowChange
  <2> QED BY <2>1, <2>2, ShareChange
<1> QED BY <1>1, StoreInvariant, PTL DEF Spec, IdsChangeUnderTheirLock

-----------------------------------------------------------------------------
(* Where a request comes from                                               *)

\* A request comes to a write from its second lock, or a deletion from its check.
LEMMA ToWrite ==
  ASSUME StoreInv, [Next]_vars, NEW r \in Reqs, pc'[r] = "write", pc[r] # "write",
         task'[r].op = "DeleteShares"
  PROVE  Reads(r) /\ task'[r] = task[r]
<1>1. \A q \in Reqs : Only(q) /\ q # r => pc'[r] = pc[r]
  BY DEF Only
<1>2. ASSUME NEW q \in Reqs, NEW o \in Ops, Call(q, o) PROVE FALSE
  <2>1. Only(q) /\ pc' = [pc EXCEPT ![q] = IF o.ids = << >> THEN "check" ELSE "lock"]
        /\ pc \in [Reqs -> Points]
    BY <1>2, CallKeeps, ReqTypes DEF Call, Goto
  <2> QED BY <1>1, <2>1
<1>3. ASSUME NEW q \in Reqs, Lock(q) PROVE FALSE
  BY <1>3 DEF Lock, reqVars
<1>4. ASSUME NEW q \in Reqs, Locked(q) PROVE FALSE
  <2>1. q = r
    BY <1>1, <1>4, LockedKeeps
  <2>2. pc[r] = "relock" /\ task'[r] = task[r]
    BY <1>4, <2>1, LockedKeeps
  <2>3. task[r].op \in Relocking
    BY <2>2, ReqTypes DEF ReqOK
  <2> QED BY <2>2, <2>3 DEF Relocking
<1>5. ASSUME NEW q \in Reqs, Unlock(q) PROVE FALSE
  BY <1>1, <1>5, UnlockKeeps
<1>6. ASSUME NEW q \in Reqs, UnlockAndLockAgain(q) PROVE FALSE
  BY <1>1, <1>6, RelockKeeps
<1>7. ASSUME NEW q \in Reqs, Reads(q) PROVE q = r /\ task' = task
  <2>1. task' = task
    BY <1>7 DEF Reads, Moves
  <2> QED BY <1>1, <1>7, <2>1, ReadsKeep
<1>8. ASSUME NEW q \in Reqs, WritesTo(q) PROVE FALSE
  <2>1. q = r
    BY <1>1, <1>8, WritesKeep
  <2> QED BY <1>8, <2>1 DEF WritesTo
<1>9. ASSUME NEW j \in JobUUIDs, RegisterJob(j) PROVE FALSE
  BY <1>9 DEF RegisterJob, reqVars
<1>10. UNCHANGED vars => FALSE
  BY DEF vars, reqVars
<1>11. ASSUME NEW q \in Reqs, Land(q) PROVE FALSE
  BY <1>11 DEF Land, reqVars
<1> QED BY <1>11, <1>2, <1>3, <1>4, <1>5, <1>6, <1>7, <1>8, <1>9, <1>10, StepForms

\* Nobody's task changes at a write.
LEMMA WriterKeepsTask ==
  ASSUME StoreInv, [Next]_vars, NEW r \in Reqs, pc[r] # "idle"
  PROVE  task'[r] = task[r]
<1>1. ASSUME NEW q \in Reqs, NEW o \in Ops, Call(q, o) PROVE task'[r] = task[r]
  <2>1. q # r
    BY <1>1 DEF Call
  <2> QED BY <1>1, <2>1, CallKeeps DEF Only
<1>2. ASSUME NEW q \in Reqs,
             \/ Lock(q) \/ Locked(q) \/ Unlock(q) \/ UnlockAndLockAgain(q) \/ Reads(q) \/ WritesTo(q) \/ Land(q)
      PROVE  task' = task
  BY <1>2 DEF Lock, Locked, Unlock, UnlockAndLockAgain, Reads, WritesTo, Land, Moves, reqVars
<1>3. ASSUME NEW j \in JobUUIDs, RegisterJob(j) PROVE task' = task
  BY <1>3 DEF RegisterJob, reqVars
<1>4. UNCHANGED vars => task' = task
  BY DEF vars, reqVars
<1> QED BY <1>1, <1>2, <1>3, <1>4, StepForms

-----------------------------------------------------------------------------
(* Duplicates                                                               *)

\* The write of r was carried out by this step.
Wrote(r) == (WritesTo(r) /\ late'[r] = "none") \/ Land(r)

\* How an upload comes to have passed its check, and that the requests that
\* are at work were at work.
LEMMA PassedStep ==
  ASSUME StoreInv, [Next]_vars, NEW r \in Reqs
  PROVE  /\ \A op \in Relocking : Passed(r, op)' =>
              /\ task'[r] = task[r] /\ Id(r)' = Id(r) /\ ~ Wrote(r)
              /\ Passed(r, op)
                 \/ (op = "InsertShares" /\ WritesTo(r) /\ task[r].op = op)
                 \/ (/\ pc[r] = "check" /\ UNCHANGED dbVars
                     /\ task[r].op = op /\ pc'[r] = "recheck"
                     /\ "partial" \in Failures \/ Unseen(r))
         /\ pc'[r] \in {"relock", "write"} /\ task'[r].op = "InsertShares" =>
              /\ verdict'[r] = verdict[r] /\ task'[r] = task[r]
              /\ \/ pc[r] = pc'[r] \/ pc[r] = "relock"
                 \/ pc[r] = "recheck" /\ verdict[r] # "error"
         /\ AtWork(r)' => AtWork(r) \/ \E o \in Ops : Call(r, o)
<1> DEFINE
  A == \A op \in Relocking : Passed(r, op)' =>
              /\ task'[r] = task[r] /\ Id(r)' = Id(r) /\ ~ Wrote(r)
              /\ Passed(r, op)
                 \/ (op = "InsertShares" /\ WritesTo(r) /\ task[r].op = op)
                 \/ (/\ pc[r] = "check" /\ UNCHANGED dbVars
                     /\ task[r].op = op /\ pc'[r] = "recheck"
                     /\ "partial" \in Failures \/ Unseen(r))
  B == pc'[r] \in {"relock", "write"} /\ task'[r].op = "InsertShares" =>
              /\ verdict'[r] = verdict[r] /\ task'[r] = task[r]
              /\ \/ pc[r] = pc'[r] \/ pc[r] = "relock"
                 \/ pc[r] = "recheck" /\ verdict[r] # "error"
  C == AtWork(r)' => AtWork(r) \/ \E o \in Ops : Call(r, o)
<1>1. ASSUME pc'[r] = pc[r], task'[r] = task[r], verdict'[r] = verdict[r], late'[r] = late[r] PROVE A /\ B /\ C
  <2>1. A
    <3>1. Id(r)' = Id(r)
      BY <1>1 DEF Id
    <3>2. ~ Wrote(r)
      <4>1. pc \in [Reqs -> Points]
        BY ReqTypes
      <4> QED BY <1>1, <4>1, LandIs DEF Wrote, WritesTo, Moves
    <3> QED BY <1>1, <3>1, <3>2 DEF Passed, Is
  <2> QED BY <1>1, <2>1 DEF UnderWay, AtWork
<1>2. ASSUME NEW q \in Reqs, Only(q), q # r PROVE A /\ B /\ C
  BY <1>1, <1>2 DEF Only
<1>3. ASSUME NEW q \in Reqs, NEW o \in Ops, Call(q, o) PROVE A /\ B /\ C
  <2>1. Only(q) /\ pc' = [pc EXCEPT ![q] = IF o.ids = << >> THEN "check" ELSE "lock"]
        /\ pc \in [Reqs -> Points] /\ late' = late /\ pc[q] = "idle" /\ ReqOK(q)
    BY <1>3, CallKeeps, ReqTypes DEF Call, Goto, dbVars
  <2>2. CASE q = r
    BY <1>3, <2>1, <2>2 DEF Passed, ReqOK
  <2> QED BY <1>2, <2>1, <2>2
<1>4. ASSUME NEW q \in Reqs, Lock(q) PROVE A /\ B /\ C
  BY <1>1, <1>4 DEF Lock, reqVars, dbVars
<1>5. ASSUME NEW q \in Reqs, Locked(q) PROVE A /\ B /\ C
  <2>1. /\ Only(q) /\ UNCHANGED <<task, verdict, late>>
        /\ \/ pc[q] = "lock" /\ pc'[q] \in {"lock", "check"}
           \/ pc[q] = "relock" /\ pc'[q] = "write"
    BY <1>5, LockedKeeps DEF dbVars
  <2>2. CASE q = r
    BY <2>1, <2>2, LandIs DEF Passed, Is, Id, UnderWay, AtWork, WritesTo, Wrote
  <2> QED BY <1>2, <2>1, <2>2
<1>6. ASSUME NEW q \in Reqs, Unlock(q) PROVE A /\ B /\ C
  <2>1. /\ Only(q) /\ pc[q] = "unlock" /\ pc'[q] \in {"unlock", "done"}
        /\ UNCHANGED <<task, late>>
    BY <1>6, UnlockKeeps DEF dbVars
  <2>2. CASE q = r
    BY <2>1, <2>2, LandIs DEF Passed, Is, Id, UnderWay, AtWork, WritesTo, Wrote
  <2> QED BY <1>2, <2>1, <2>2
<1>7. ASSUME NEW q \in Reqs, UnlockAndLockAgain(q) PROVE A /\ B /\ C
  <2>1. /\ Only(q) /\ UNCHANGED <<task, verdict, late>>
        /\ pc[q] = "recheck" /\ pc'[q] \in {"relock", "done"}
        /\ Is(q, "InsertShares") /\ verdict[q] = "error" => pc'[q] = "done"
    BY <1>7, RelockKeeps DEF dbVars
  <2>2. CASE q = r
    BY <2>1, <2>2, LandIs DEF Passed, Is, Id, UnderWay, AtWork, WritesTo, Wrote
  <2> QED BY <1>2, <2>1, <2>2
<1>8. ASSUME NEW q \in Reqs, Reads(q) PROVE A /\ B /\ C
  <2>1. Only(q) /\ task' = task /\ pc[q] = "check" /\ UNCHANGED dbVars /\ late'[q] = "none"
    BY <1>8, ReadsKeep, ReqTypes DEF Reads, Moves, dbVars, ReqOK
  <2>2. CASE q = r
    <3>1. pc \in [Reqs -> Points] /\ verdict \in [Reqs -> Verdicts]
      BY ReqTypes
    <3>2. \A point, v : Moves(r, point, v) => pc'[r] = point /\ verdict'[r] = v
      BY <3>1 DEF Moves
    <3>3. pc'[r] = "recheck" => verdict'[r] = "error" \/ "partial" \in Failures \/ Unseen(r)
      BY <1>8, <2>2, <3>2 DEF Reads
    <3>4. pc'[r] \in {"recheck", "write", "unlock", "done"}
          /\ (pc'[r] = "write" => task[r].op = "DeleteShares")
      BY <1>8, <2>2, <3>2 DEF Reads
    <3>5. A
      <4>1. \A op : Passed(r, op)' => task[r].op = op /\ pc'[r] \in {"recheck", "write"} /\ verdict'[r] # "error"
        BY <2>1, <2>2, <3>4 DEF Passed, Is
      <4>2. ~ Wrote(r) /\ Id(r)' = Id(r)
        BY <2>1, <2>2, LandIs DEF WritesTo, Wrote, Id
      <4>3. \A op \in Relocking : op # "DeleteShares"
        BY DEF Relocking
      <4> QED BY <2>1, <2>2, <3>3, <3>4, <4>1, <4>2, <4>3
    <3> QED BY <2>1, <2>2, <3>4, <3>5 DEF UnderWay, AtWork
  <2> QED BY <1>2, <2>1, <2>2
<1>9. ASSUME NEW q \in Reqs, WritesTo(q) PROVE A /\ B /\ C
  <2>1. /\ Only(q) /\ task' = task /\ pc[q] = "write" /\ pc' = [pc EXCEPT ![q] = "unlock"]
        /\ pc \in [Reqs -> Points]
        /\ \/ late' = [late EXCEPT ![q] = "none"]
           \/ /\ late' = [late EXCEPT ![q] = "running"]
              /\ task[q].op = "InsertModelParams" => verdict[q] # "error"
        /\ late \in [Reqs -> Lates]
    BY <1>9, WritesKeep, ReqTypes DEF WritesTo, Moves
  <2>2. CASE q = r
    <3>1. pc'[r] = "unlock" /\ Id(r)' = Id(r) /\ task'[r] = task[r] /\ pc[r] = "write"
      BY <2>1, <2>2 DEF Id
    <3>2. A
      <4> SUFFICES ASSUME NEW op \in Relocking, Passed(r, op)'
                   PROVE  ~Wrote(r) /\ (Passed(r, op) \/ (op = "InsertShares" /\ WritesTo(r) /\ task[r].op = op))
        BY <3>1
      <4>1. late'[r] = "running" /\ task[r].op = op
        BY <3>1 DEF Passed, Is
      <4>2. task[r].op = "InsertModelParams" => verdict[r] # "error"
        BY <2>1, <2>2, <4>1
      <4> QED BY <1>9, <2>2, <3>1, <4>1, <4>2, LandIs DEF Passed, Is, Relocking, Wrote
    <3> QED BY <3>1, <3>2 DEF UnderWay, AtWork
  <2> QED BY <1>2, <2>1, <2>2
<1>13. ASSUME NEW q \in Reqs, Land(q) PROVE A /\ B /\ C
  <2>1. /\ Only(q) /\ late[q] = "running" /\ late'[q] = "landed" /\ pc[q] \in {"unlock", "done"}
        /\ UNCHANGED <<task, pc, verdict>>
    BY <1>13, LandIs DEF reqVars
  <2>2. CASE q = r
    BY <2>1, <2>2 DEF Passed, UnderWay, AtWork
  <2> QED BY <1>2, <2>1, <2>2
<1>10. ASSUME NEW j \in JobUUIDs, RegisterJob(j) PROVE A /\ B /\ C
  BY <1>1, <1>10 DEF RegisterJob, reqVars
<1>11. UNCHANGED vars => A /\ B /\ C
  BY <1>1 DEF vars, reqVars, dbVars
<1> HIDE DEF A, B, C
<1>12. A /\ B /\ C
  BY <1>3, <1>4, <1>5, <1>6, <1>7, <1>8, <1>9, <1>10, <1>11, <1>13, StepForms
<1> QED BY <1>12 DEF A, B, C
LEMMA MetGrows ==
  ASSUME StoreInv, [Next]_vars
  PROVE  met \subseteq met'
<1>1. ASSUME NEW r \in Reqs, NEW o \in Ops, Call(r, o) PROVE met \subseteq met'
  BY <1>1 DEF Call
<1>2. ASSUME NEW r \in Reqs,
             \/ Lock(r) \/ Locked(r) \/ Unlock(r) \/ UnlockAndLockAgain(r) \/ Reads(r) \/ WritesTo(r) \/ Land(r)
      PROVE  met' = met
  BY <1>2 DEF Lock, Locked, Unlock, UnlockAndLockAgain, Reads, WritesTo, Land, Moves, reqVars
<1>3. ASSUME NEW j \in JobUUIDs, RegisterJob(j) PROVE met' = met
  BY <1>3 DEF RegisterJob, reqVars
<1>4. UNCHANGED vars => met' = met
  BY DEF vars, reqVars
<1> QED BY <1>1, <1>2, <1>3, <1>4, StepForms

\* Who is called meets everybody who is at work.
LEMMA MetStep ==
  ASSUME StoreInv, MetInv, [Next]_vars
  PROVE  MetInv'
<1> SUFFICES ASSUME NEW q \in Reqs, NEW r \in Reqs, q # r, AtWork(q)', AtWork(r)'
             PROVE  <<q, r>> \in met'
  BY DEF MetInv
<1>1. /\ AtWork(q) \/ \E o \in Ops : Call(q, o)
      /\ AtWork(r) \/ \E o \in Ops : Call(r, o)
  BY PassedStep
<1>2. CASE AtWork(q) /\ AtWork(r)
  BY <1>2, MetGrows DEF MetInv
<1>3. ASSUME NEW s \in Reqs, NEW t \in Reqs, s # t, AtWork(t)', NEW o \in Ops, Call(s, o)
      PROVE  <<s, t>> \in met' /\ <<t, s>> \in met'
  <2>1. pc'[t] = pc[t] /\ late'[t] = late[t]
    BY <1>3, CallKeeps DEF Only
  <2>2. AtWork(t)
    BY <1>3, <2>1 DEF AtWork, UnderWay
  <2> QED BY <1>3, <2>2 DEF Call
<1> QED BY <1>1, <1>2, <1>3

\* Which rows are new.
LEMMA ShareGrows ==
  ASSUME StoreInv, [Next]_vars, NEW y \in share', y \notin share
  PROVE  \E r \in Reqs : /\ Wrote(r) /\ task[r].op = "InsertShares" /\ pc[r] # "idle" /\ y = NewShare(r)
                         /\ met' = met /\ share' = share \cup {NewShare(r)}
<1>1. PICK r \in Reqs : Wrote(r)
  BY ShareChange DEF Wrote
<1>2. met' = met /\ Writes(r) /\ pc[r] # "idle"
  BY <1>1, LandIs DEF Wrote, WritesTo, Moves, reqVars
<1>3. share' = ShareAfter(r)
  BY <1>2 DEF Writes
<1> HIDE DEF Wrote
<1> QED BY <1>1, <1>2, <1>3, AfterIs

LEMMA ResultGrows ==
  ASSUME StoreInv, [Next]_vars, NEW y \in result', y \notin result, y.uuid # CC
  PROVE  \E r \in Reqs : /\ Wrote(r) /\ task[r].op = "InsertModelParams" /\ pc[r] # "idle" /\ y = NewResult(r)
                         /\ met' = met /\ result' = result \cup {NewResult(r)}
                         /\ pc[r] = "write" => verdict[r] # "error"
<1>1. ASSUME NEW r \in Reqs, NEW o \in Ops, Call(r, o) PROVE result' = result
  BY <1>1 DEF Call, dbVars
<1>2. ASSUME NEW r \in Reqs,
             Lock(r) \/ Locked(r) \/ Unlock(r) \/ UnlockAndLockAgain(r) \/ Reads(r)
      PROVE  result' = result
  BY <1>2 DEF Lock, Locked, Unlock, UnlockAndLockAgain, Reads, dbVars
<1>3. ASSUME NEW j \in JobUUIDs, RegisterJob(j) PROVE FALSE
  <2>1. y = [uuid |-> CC, id |-> j]
    BY <1>3 DEF RegisterJob
  <2> QED BY <2>1
<1>4. UNCHANGED vars => result' = result
  BY DEF vars, dbVars
<1>5. PICK r \in Reqs : WritesTo(r) \/ Land(r)
  BY <1>1, <1>2, <1>3, <1>4, StepForms
<1>6. Wrote(r)
  <2>1. WritesTo(r) => late' = [late EXCEPT ![r] = "none"] /\ late \in [Reqs -> Lates]
    BY ReqTypes DEF WritesTo
  <2> QED BY <1>5, <2>1 DEF Wrote
<1>7. met' = met /\ Writes(r) /\ pc[r] # "idle"
  BY <1>5, LandIs DEF WritesTo, Moves, reqVars
<1>8. result' = ResultAfter(r) /\ (task[r].op = "InsertModelParams" /\ pc[r] = "write" => verdict[r] # "error")
  BY <1>7 DEF Writes
<1> HIDE DEF Wrote
<1> QED BY <1>6, <1>7, <1>8, AfterIs

LEMMA ShareRowsStep ==
  ASSUME "partial" \notin Failures, StoreInv, MetInv, ShareRows, [Next]_vars
  PROVE  ShareRows'
\* The writer had passed its check, and so has met whoever was quicker.
<1>0. ASSUME NEW r \in Reqs, WritesTo(r), task[r].op = "InsertShares"
      PROVE  Passed(r, "InsertShares") /\ AtWork(r)
  BY <1>0 DEF WritesTo, ShareRows, Passed, Is, UnderWay, AtWork
<1>1. ASSUME NEW r \in Reqs, Wrote(r), task[r].op = "InsertShares"
      PROVE  Passed(r, "InsertShares") /\ AtWork(r)
  <2>1. CASE Land(r)
    BY <1>1, <2>1, LandIs DEF Passed, Is, AtWork
  <2> QED BY <1>0, <1>1, <2>1 DEF Wrote
<1>2. \A r \in Reqs : NewShare(r).id = Id(r) /\ NewShare(r).piece = task[r].piece /\ NewShare(r).uuid = r
  BY DEF NewShare
<1>3. ASSUME NEW x \in share', NEW y \in share', x # y, x.id = y.id, x.piece = y.piece
      PROVE  <<x.uuid, y.uuid>> \in met'
  <2>1. CASE x \in share /\ y \in share
    BY <1>3, <2>1, MetGrows DEF ShareRows
  <2>2. CASE x \notin share /\ y \notin share
    <3>1. PICK r \in Reqs : x = NewShare(r) /\ share' = share \cup {NewShare(r)}
      BY <2>2, ShareGrows
    <3> QED BY <1>3, <2>2, <3>1
  <2>3. CASE x \notin share /\ y \in share
    <3>1. PICK r \in Reqs : Wrote(r) /\ task[r].op = "InsertShares" /\ x = NewShare(r) /\ met' = met
      BY <2>3, ShareGrows
    <3>2. y.id = Id(r) /\ y.piece = task[r].piece /\ x.uuid = r
      BY <1>2, <1>3, <3>1
    <3> QED BY <1>1, <2>3, <3>1, <3>2 DEF ShareRows
  <2>4. CASE x \in share /\ y \notin share
    <3>1. PICK r \in Reqs : Wrote(r) /\ task[r].op = "InsertShares" /\ y = NewShare(r) /\ met' = met
      BY <2>4, ShareGrows
    <3>2. x.id = Id(r) /\ x.piece = task[r].piece /\ y.uuid = r
      BY <1>2, <1>3, <3>1
    <3> QED BY <1>1, <2>4, <3>1, <3>2 DEF ShareRows
  <2> QED BY <2>1, <2>2, <2>3, <2>4
<1>4. ASSUME NEW r \in Reqs, Passed(r, "InsertShares")',
             NEW x \in share', x.id = Id(r)', x.piece = task'[r].piece
      PROVE  <<x.uuid, r>> \in met' /\ <<r, x.uuid>> \in met'
  <2>1. /\ task'[r] = task[r] /\ Id(r)' = Id(r) /\ ~ Wrote(r)
        /\ Passed(r, "InsertShares") \/ (WritesTo(r) /\ task[r].op = "InsertShares")
           \/ (share' = share /\ task[r].op = "InsertShares" /\ Unseen(r))
    BY <1>4, PassedStep DEF Relocking, dbVars
  <2>2. Passed(r, "InsertShares")
    BY <1>0, <1>4, <2>1 DEF Unseen
  <2>3. CASE x \in share
    BY <1>4, <2>1, <2>2, <2>3, MetGrows DEF ShareRows
  <2>4. CASE x \notin share
    <3>1. PICK q \in Reqs : Wrote(q) /\ task[q].op = "InsertShares" /\ x = NewShare(q) /\ met' = met
      BY <2>4, ShareGrows
    <3>2. q # r /\ x.uuid = q /\ AtWork(q)
      BY <1>1, <1>2, <2>1, <3>1
    <3>3. AtWork(r)
      BY <2>2 DEF Passed, UnderWay, AtWork
    <3> QED BY <3>1, <3>2, <3>3 DEF MetInv
  <2> QED BY <2>3, <2>4
<1>5. ASSUME NEW r \in Reqs, Is(r, "InsertShares")', pc'[r] \in {"relock", "write"}
      PROVE  verdict'[r] # "error"
  <2>1. task'[r].op = "InsertShares"
    BY <1>5 DEF Is
  <2>2. /\ verdict'[r] = verdict[r] /\ task'[r] = task[r]
        /\ \/ pc[r] = pc'[r] \/ pc[r] = "relock"
           \/ pc[r] = "recheck" /\ verdict[r] # "error"
    BY <1>5, <2>1, PassedStep
  <2> QED BY <1>5, <2>1, <2>2 DEF ShareRows, Is
<1> QED BY <1>3, <1>4, <1>5 DEF ShareRows

LEMMA ResultRowsStep ==
  ASSUME "partial" \notin Failures, StoreInv, MetInv, ResultRows, [Next]_vars
  PROVE  ResultRows'
<1>1. ASSUME NEW r \in Reqs, Wrote(r), task[r].op = "InsertModelParams",
             pc[r] = "write" => verdict[r] # "error"
      PROVE  Passed(r, "InsertModelParams") /\ AtWork(r)
  <2>1. CASE Land(r)
    BY <1>1, <2>1, LandIs DEF Passed, Is, AtWork
  <2>2. CASE WritesTo(r)
    BY <1>1, <2>2 DEF WritesTo, Passed, Is, UnderWay, AtWork
  <2> QED BY <1>1, <2>1, <2>2 DEF Wrote
<1>2. \A r \in Reqs : NewResult(r).id = Id(r) /\ NewResult(r).uuid = r
  BY DEF NewResult
<1>3. ASSUME NEW x \in result', NEW y \in result', x # y, x.id = y.id, x.uuid # CC, y.uuid # CC
      PROVE  <<x.uuid, y.uuid>> \in met'
  <2>1. CASE x \in result /\ y \in result
    BY <1>3, <2>1, MetGrows DEF ResultRows
  <2>2. CASE x \notin result /\ y \notin result
    <3>1. PICK r \in Reqs : x = NewResult(r) /\ result' = result \cup {NewResult(r)}
      BY <1>3, <2>2, ResultGrows
    <3> QED BY <1>3, <2>2, <3>1
  <2>3. CASE x \notin result /\ y \in result
    <3>1. PICK r \in Reqs : /\ Wrote(r) /\ task[r].op = "InsertModelParams" /\ (pc[r] = "write" => verdict[r] # "error")
                            /\ x = NewResult(r) /\ met' = met
      BY <1>3, <2>3, ResultGrows
    <3>2. y.id = Id(r) /\ x.uuid = r
      BY <1>2, <1>3, <3>1
    <3> QED BY <1>1, <1>3, <2>3, <3>1, <3>2 DEF ResultRows
  <2>4. CASE x \in result /\ y \notin result
    <3>1. PICK r \in Reqs : /\ Wrote(r) /\ task[r].op = "InsertModelParams" /\ (pc[r] = "write" => verdict[r] # "error")
                            /\ y = NewResult(r) /\ met' = met
      BY <1>3, <2>4, ResultGrows
    <3>2. x.id = Id(r) /\ y.uuid = r
      BY <1>2, <1>3, <3>1
    <3> QED BY <1>1, <1>3, <2>4, <3>1, <3>2 DEF ResultRows
  <2> QED BY <2>1, <2>2, <2>3, <2>4
<1>4. ASSUME NEW r \in Reqs, Passed(r, "InsertModelParams")',
             NEW x \in result', x.id = Id(r)', x.uuid # CC
      PROVE  <<x.uuid, r>> \in met' /\ <<r, x.uuid>> \in met'
  <2>1. /\ task'[r] = task[r] /\ Id(r)' = Id(r) /\ ~ Wrote(r)
        /\ Passed(r, "InsertModelParams")
           \/ (result' = result /\ task[r].op = "InsertModelParams" /\ Unseen(r))
    BY <1>4, PassedStep DEF Relocking, dbVars
  <2>2. Passed(r, "InsertModelParams")
    BY <1>4, <2>1 DEF Unseen
  <2>3. CASE x \in result
    BY <1>4, <2>1, <2>2, <2>3, MetGrows DEF ResultRows
  <2>4. CASE x \notin result
    <3>1. PICK q \in Reqs : /\ Wrote(q) /\ task[q].op = "InsertModelParams" /\ (pc[q] = "write" => verdict[q] # "error")
                            /\ x = NewResult(q) /\ met' = met
      BY <1>4, <2>4, ResultGrows
    <3>2. q # r /\ x.uuid = q /\ AtWork(q)
      BY <1>1, <1>2, <2>1, <3>1
    <3>3. AtWork(r)
      BY <2>2 DEF Passed, UnderWay, AtWork
    <3> QED BY <3>1, <3>2, <3>3 DEF MetInv
  <2> QED BY <2>3, <2>4
<1> QED BY <1>3, <1>4 DEF ResultRows

\* Two rows of one piece, or two uploads of one job's parameters, come only from
\* requests that were at work together, if only in DbGate, as long as the gate
\* does not answer a SELECT with part of the rows.
THEOREM DuplicatesNeedOverlap ==
  ASSUME "partial" \notin Failures
  PROVE  Spec => []DuplicatesOnlyFromOverlap
<1>1. Init => RowInv
  BY DEF Init, RowInv, MetInv, ShareRows, ResultRows, Passed, Is, UnderWay, AtWork
<1>2. StoreInv /\ RowInv /\ [Next]_vars => RowInv'
  <2> SUFFICES ASSUME StoreInv, RowInv, [Next]_vars PROVE RowInv'
    OBVIOUS
  <2>1. MetInv /\ ShareRows /\ ResultRows
    BY DEF RowInv
  <2>2. MetInv' /\ ShareRows' /\ ResultRows'
    BY <2>1, MetStep, ShareRowsStep, ResultRowsStep
  <2> QED BY <2>2 DEF RowInv
<1>3. RowInv => DuplicatesOnlyFromOverlap
  BY DEF RowInv, ShareRows, ResultRows, DuplicatesOnlyFromOverlap
<1> QED BY <1>1, <1>2, <1>3, StoreInvariant, PTL DEF Spec
-----------------------------------------------------------------------------
(* The check of a deletion is not stale                                     *)

LEMMA MetInvInit == Init => MetInv
BY DEF Init, MetInv, UnderWay, AtWork

LEMMA SweepStays ==
  ASSUME StoreInv, [Next]_vars, NEW r \in Reqs, NEW d, SweptAway(r, d)
  PROVE  SweptAway(r, d)'
<1>1. PICK q \in Reqs : /\ Is(q, "DeleteShares") /\ d \in Ids(q)
                       /\ late[q] = "landed" /\ <<q, r>> \in met
  BY DEF SweptAway
<1>2. pc[q] \in {"unlock", "done"} /\ task'[q] = task[q] /\ Ids(q)' = Ids(q)
  <2>1. ReqOK(q) /\ pc[q] # "idle"
    BY <1>1, ReqTypes DEF Is
  <2> QED BY <1>1, <2>1, WriterKeepsTask DEF ReqOK, Ids
<1>3. /\ late'[q] = "landed" /\ pc'[q] # "idle"
  <2>1. \A t \in Reqs : Only(t) /\ t # q => late'[q] = late[q] /\ pc'[q] = pc[q]
    BY DEF Only
  <2>2. ASSUME NEW t \in Reqs, NEW o \in Ops, Call(t, o) PROVE t # q /\ Only(t)
    BY <1>2, <2>2, CallKeeps DEF Call
  <2>3. ASSUME NEW t \in Reqs, Lock(t) \/ Locked(t) \/ UnlockAndLockAgain(t) \/ Reads(t) \/ WritesTo(t)
        PROVE  t # q /\ Only(t)
    BY <1>2, <2>3, LockKeeps, LockedKeeps, RelockKeeps, ReadsKeep, WritesKeep DEF Lock, Reads, WritesTo
  <2>4. ASSUME NEW t \in Reqs, Unlock(t) PROVE (t # q /\ Only(t)) \/ (late' = late /\ pc'[q] # "idle")
    BY <2>4, UnlockKeeps DEF dbVars
  <2>5. ASSUME NEW t \in Reqs, Land(t) PROVE t # q /\ Only(t)
    BY <1>1, <2>5, LandIs
  <2>6. ASSUME NEW j \in JobUUIDs, RegisterJob(j) PROVE late' = late /\ pc' = pc
    BY <2>6 DEF RegisterJob, reqVars
  <2>7. UNCHANGED vars => late' = late /\ pc' = pc
    BY DEF vars, dbVars, reqVars
  <2> QED BY <1>1, <1>2, <2>1, <2>2, <2>3, <2>4, <2>5, <2>6, <2>7, StepForms
<1>4. <<q, r>> \in met'
  BY <1>1, MetGrows
<1> QED BY <1>1, <1>2, <1>3, <1>4 DEF SweptAway, Is

LEMMA FreshStep == StoreInv /\ MetInv /\ FreshInv /\ [Next]_vars => FreshInv'
<1> SUFFICES ASSUME StoreInv, MetInv, FreshInv, [Next]_vars, NEW r \in Reqs,
                    Is(r, "DeleteShares")', pc'[r] = "write", NEW d \in Ids(r)'
             PROVE  RowsOf(share', d) # {} \/ SweptAway(r, d)'
  BY DEF FreshInv
<1>1. task'[r].op = "DeleteShares"
  BY DEF Is
<1>2. CASE pc[r] # "write"
  <2>1. Reads(r) /\ task'[r] = task[r]
    BY <1>1, <1>2, ToWrite
  <2>2. share' = share /\ pc' \in [Reqs -> Points] /\ pc \in [Reqs -> Points]
    BY <2>1, ReqTypes, ReadsKeep DEF Reads, dbVars, StoreInv, TypeOK, Points
  <2>3. \A e \in Ids(r) : RowsOf(share, e) # {}
    <3>1. \A point, v : Moves(r, point, v) => pc'[r] = point
      BY <2>2 DEF Moves
    <3> QED BY <2>1, <3>1 DEF Reads
  <2>4. Ids(r)' = Ids(r)
    BY <2>1 DEF Ids
  <2> QED BY <2>2, <2>3, <2>4
<1>3. CASE pc[r] = "write"
  <2>1. task'[r] = task[r]
    BY <1>3, WriterKeepsTask
  <2>2. Is(r, "DeleteShares") /\ d \in Ids(r)
    BY <1>1, <1>3, <2>1 DEF Is, Ids
  <2>3. (RowsOf(share, d) # {} \/ SweptAway(r, d)) /\ d \in held[r] /\ late[r] = "none"
    BY <1>3, <2>2, ReqTypes DEF FreshInv, ReqOK
  <2>4. CASE SweptAway(r, d)
    BY <2>4, SweepStays
  <2>5. CASE RowsOf(share', d) = RowsOf(share, d)
    BY <2>3, <2>4, <2>5
  <2>6. CASE RowsOf(share', d) # RowsOf(share, d) /\ \E q \in Reqs : WritesTo(q)
    <3>1. PICK q \in Reqs : WritesTo(q)
      BY <2>6
    <3>2. pc[q] = "write" /\ Writes(q) /\ ReqOK(q) /\ pc' = [pc EXCEPT ![q] = "unlock"] /\ pc \in [Reqs -> Points]
      BY <3>1, ReqTypes DEF WritesTo, Moves
    <3>3. d \in held[q]
      BY <2>6, <3>2, RowChange DEF ReqOK
    <3>4. q = r
      BY <2>3, <3>3, SoleHolder
    <3> QED BY <3>2, <3>4
  <2>7. CASE RowsOf(share', d) # RowsOf(share, d) /\ \E q \in Reqs : Land(q)
    <3>1. PICK q \in Reqs : Land(q)
      BY <2>7
    <3>2. /\ late[q] = "running" /\ late'[q] = "landed" /\ pc[q] # "idle" /\ Writes(q) /\ share' = ShareAfter(q)
          /\ UNCHANGED reqVars /\ task[q] \in Ops
      BY <3>1, LandIs
    <3>3. d \in Ids(q)
      BY <2>7, <3>2, RowChange
    <3>4. <<q, r>> \in met /\ UNCHANGED <<task, pc, met>>
      BY <1>3, <2>3, <3>2 DEF MetInv, AtWork, UnderWay, reqVars
    <3>5. CASE task[q].op = "DeleteShares"
      <4>1. Ids(q)' = Ids(q)
        BY <3>4 DEF Ids
      <4> QED BY <3>2, <3>3, <3>4, <3>5, <4>1 DEF SweptAway, Is
    <3>6. CASE task[q].op # "DeleteShares"
      <4>1. share \subseteq share'
        BY <3>2, <3>6, AfterIs DEF ShareAfter, Is
      <4> QED BY <2>3, <2>4, <4>1 DEF RowsOf
    <3> QED BY <3>5, <3>6
  <2>8. \/ RowsOf(share', d) = RowsOf(share, d) \/ \E q \in Reqs : WritesTo(q) \/ Land(q)
    BY ShareChange
  <2> QED BY <2>5, <2>6, <2>7, <2>8
<1> QED BY <1>2, <1>3

\* The DELETE finds a row of every id it names, because the ids were locked
\* before the SELECT, unless DbGate has since carried out a deletion that an
\* earlier request had reported as failed.
THEOREM DeletionsAreFresh == Spec => DeleteActsOnFreshCheck
<1>1. Init => FreshInv
  BY DEF Init, FreshInv, Is
<1>2. FreshInv => [\A r \in Reqs : DeleteShares(r) =>
                     \A d \in Ids(r) : RowsOf(share, d) # {} \/ SweptAway(r, d)]_vars
  BY DEF FreshInv, DeleteShares
<1> QED BY <1>1, <1>2, FreshStep, MetInvInit, MetStep, StoreInvariant, PTL DEF Spec, DeleteActsOnFreshCheck
=============================================================================
