------------------------- MODULE SyncBarrier_proofs -------------------------
(***************************************************************************)
(* Nobody leaves Sync early, for any finite set of parties and any calls   *)
(* under distinct keys, as long as no request is repeated.                 *)
(***************************************************************************)
EXTENDS SyncBarrier, FiniteSetTheorems, TLAPS

LEMMA KeyOfCall == \A c \in Calls : KeyOf[c] \in Keys
BY DEF Keys

\* load never changes the count of a key, and gives the counter it leaves.
LEMMA LoadKeepsCounts ==
  ASSUME TypeOK, NEW p \in Parties, NEW k \in Keys, load(p, k)
  PROVE  /\ countMap' \in [Parties -> [Keys -> Counters]]
         /\ objs' \in [Parties -> Nat]
         /\ Loaded(p, k) \in Counters
         /\ Loaded(p, k).count = countMap[p][k].count
         /\ \A q \in Parties, j \in Keys : countMap'[q][j].count = countMap[q][j].count
<1>1. Loaded(p, k) \in Counters /\ Loaded(p, k).count = countMap[p][k].count
  BY DEF Loaded, IsNew, Absent, Counters, TypeOK
<1>2. objs' \in [Parties -> Nat]
  BY DEF load, TypeOK
<1>3. countMap' \in [Parties -> [Keys -> Counters]]
  BY <1>1 DEF load, TypeOK
<1>4. \A q \in Parties, j \in Keys : countMap'[q][j].count = countMap[q][j].count
  BY <1>1 DEF load, TypeOK
<1> QED BY <1>1, <1>2, <1>3, <1>4

LEMMA BarrierInvInit == Init => BarrierInv
<1> SUFFICES ASSUME Init PROVE BarrierInv
  OBVIOUS
<1> USE DEF Init
<1>1. TypeOK
  BY DEF TypeOK, Counters, Absent, Labels
<1>2. RequestsInv /\ IncInv /\ TodoInv
  BY DEF RequestsInv, IncInv, TodoInv
<1>3. ArrivedInv
  BY FS_EmptySet, KeyOfCall DEF ArrivedInv, Absent
<1> QED BY <1>1, <1>2, <1>3 DEF BarrierInv

-----------------------------------------------------------------------------
(* One lemma per action                                                     *)

\* A step of a caller that sends nothing leaves requests and increments in order.
LEMMA CallersKeepRequests ==
  ASSUME BarrierInv, requests' \subseteq requests, inc' = inc, arrived' = arrived,
         countMap' = countMap,
         \A r \in Parties, d \in Calls : pc[r][d] # "idle" => pc'[r][d] # "idle"
  PROVE  RequestsInv' /\ IncInv'
<1>1. ASSUME NEW m \in Rpcs, Uncounted(m) PROVE Uncounted(m)'
  <2>1. m.from \in Parties /\ m.call \in Calls
    BY DEF Rpcs
  <2> QED BY <1>1, <2>1 DEF Uncounted
<1>2. RequestsInv'
  <2> SUFFICES ASSUME NEW m \in requests PROVE Uncounted(m)' /\ \A l \in inc[m.to] : l.rpc # m
    BY DEF RequestsInv
  <2>1. m \in Rpcs /\ Uncounted(m) /\ \A l \in inc[m.to] : l.rpc # m
    BY DEF BarrierInv, TypeOK, RequestsInv
  <2> QED BY <1>1, <2>1
<1>3. IncInv'
  <2> SUFFICES ASSUME NEW q \in Parties, NEW l \in inc[q]
               PROVE  /\ l.rpc.to = q /\ Uncounted(l.rpc)'
                      /\ \A n \in inc[q] : n = l
                      /\ l.ctr.count = countMap[q][KeyOf[l.rpc.call]].count
    BY DEF IncInv
  <2>1. l \in Loads
    BY DEF BarrierInv, TypeOK
  <2>2. l.rpc \in Rpcs
    BY <2>1 DEF Loads
  <2>3. /\ l.rpc.to = q /\ Uncounted(l.rpc)
        /\ \A n \in inc[q] : n = l
        /\ l.ctr.count = countMap[q][KeyOf[l.rpc.call]].count
    BY DEF BarrierInv, IncInv
  <2> QED BY <1>1, <2>2, <2>3
<1> QED BY <1>2, <1>3

LEMMA SyncCallKeepsInv ==
  ASSUME BarrierInv, NEW p \in Parties, NEW c \in Calls, SyncCall(p, c)
  PROVE  BarrierInv'
<1>0. \A r \in Parties, d \in Calls : pc[r][d] # "idle" => pc'[r][d] # "idle"
  BY DEF SyncCall, Goto, BarrierInv, TypeOK
<1>2. RequestsInv' /\ IncInv'
  BY <1>0, CallersKeepRequests DEF SyncCall, mapVars, rpcVars
<1> USE DEF SyncCall, Goto, Others, mapVars, rpcVars
<1>1. TypeOK'
  BY DEF BarrierInv, TypeOK, Labels
<1>3. \A q \in Parties : Unsent(p, q, c)
  BY DEF BarrierInv, TypeOK, RequestsInv, IncInv, Uncounted, ArrivedInv, Unsent
<1>4. TodoInv'
  BY <1>3 DEF BarrierInv, TypeOK, TodoInv, Unsent
<1>5. ArrivedInv'
  BY DEF BarrierInv, TypeOK, ArrivedInv
<1> QED BY <1>1, <1>2, <1>4, <1>5 DEF BarrierInv

LEMMA SyncSendKeepsInv ==
  ASSUME BarrierInv, NEW p \in Parties, NEW c \in Calls, NEW q \in Parties,
         SyncSend(p, c, q)
  PROVE  BarrierInv'
<1> DEFINE m == Rpc(p, q, c)
<1> USE DEF SyncSend, Goto, Target, mapVars
<1>1. m \in Rpcs /\ m.try = 0 /\ m.from = p /\ m.to = q /\ m.call = c /\ p # q
  BY DEF BarrierInv, TypeOK, TodoInv, Rpc, Rpcs
<1> HIDE DEF m
<1>2. requests' = requests \cup {m}
  BY DEF m
<1>3. Unsent(p, q, c)
  BY DEF BarrierInv, TodoInv
<1>4. TypeOK'
  BY <1>1, <1>2 DEF BarrierInv, TypeOK, Labels
<1>5. RequestsInv'
  <2> SUFFICES ASSUME NEW n \in requests'
               PROVE  Uncounted(n)' /\ \A l \in inc[n.to] : l.rpc # n
    BY DEF RequestsInv
  <2>1. CASE n \in requests
    <3>1. Uncounted(n) /\ (\A l \in inc[n.to] : l.rpc # n)
          /\ n.from \in Parties /\ n.call \in Calls
      BY <2>1 DEF BarrierInv, TypeOK, RequestsInv, Rpcs
    <3> QED BY <3>1 DEF Uncounted, BarrierInv, TypeOK
  <2>2. CASE n = m
    <3>1. p \notin arrived[q][c] /\ pc'[p][c] # "idle"
      BY <1>3 DEF Unsent, BarrierInv, TypeOK
    <3>2. \A l \in inc[q] : l.rpc # m
      BY <1>1, <1>3 DEF Unsent
    <3> QED BY <2>2, <1>1, <3>1, <3>2 DEF Uncounted
  <2> QED BY <1>2, <2>1, <2>2
<1>6. IncInv'
  BY DEF BarrierInv, TypeOK, IncInv, Uncounted, Rpcs, Loads
<1>7. TodoInv'
  BY <1>1, <1>2, SyncAssumption DEF BarrierInv, TypeOK, TodoInv, Unsent
<1>8. ArrivedInv'
  BY DEF BarrierInv, TypeOK, ArrivedInv
<1> QED BY <1>4, <1>5, <1>6, <1>7, <1>8 DEF BarrierInv

LEMMA SyncReturnKeepsInv ==
  ASSUME BarrierInv, NEW p \in Parties, NEW c \in Calls, NEW q \in Parties,
         SyncReturn(p, c, q)
  PROVE  BarrierInv'
<1>0. \A r \in Parties, d \in Calls : pc[r][d] # "idle" => pc'[r][d] # "idle"
  BY DEF SyncReturn, Goto, BarrierInv, TypeOK
<1>2. RequestsInv' /\ IncInv'
  BY <1>0, CallersKeepRequests DEF SyncReturn, mapVars
<1> USE DEF SyncReturn, Goto, Target, mapVars
<1>1. TypeOK'
  BY DEF BarrierInv, TypeOK, Labels
<1>3. \A r \in todo[p][c] \ {q} : Unsent(p, r, c)
  <2> SUFFICES ASSUME NEW r \in todo[p][c] \ {q} PROVE Unsent(p, r, c)
    OBVIOUS
  <2>1. q \in Nat /\ r \in Nat /\ q <= r
    BY SyncAssumption DEF BarrierInv, TypeOK
  <2>2. q < r
    BY <2>1
  <2> QED BY <2>2 DEF BarrierInv, TodoInv
<1>4. TodoInv'
  BY <1>3 DEF BarrierInv, TypeOK, TodoInv, Unsent
<1>5. ArrivedInv'
  BY DEF BarrierInv, TypeOK, ArrivedInv
<1> QED BY <1>1, <1>2, <1>4, <1>5 DEF BarrierInv

\* Without a reconnection a failed request ends the call.
LEMMA SyncFailKeepsInv ==
  ASSUME BarrierInv, ~CanReconnect, NEW p \in Parties, NEW c \in Calls,
         NEW q \in Parties, SyncFail(p, c, q)
  PROVE  BarrierInv'
<1>1. /\ pc' = [pc EXCEPT ![p][c] = "failed"] /\ pc[p][c] = "call"
      /\ errors' = errors + 1
      /\ requests' \subseteq requests /\ replies' \subseteq replies
      /\ UNCHANGED <<mapVars, inc, todo, try, obj, arrived>>
  <2>1. AfterFailure = {"failed"}
    BY DEF AfterFailure
  <2>2. try' = [try EXCEPT ![p][c] = @] /\ try \in [Parties -> [Calls -> Nat]]
    BY <2>1 DEF SyncFail, BarrierInv, TypeOK
  <2>3. try' = try
    BY <2>2
  <2> QED BY <2>1, <2>3 DEF SyncFail, Goto
<1>2. TypeOK'
  BY <1>1 DEF BarrierInv, TypeOK, Labels, mapVars
<1>3. RequestsInv' /\ IncInv'
  <2>1. \A r \in Parties, d \in Calls : pc[r][d] # "idle" => pc'[r][d] # "idle"
    BY <1>1 DEF BarrierInv, TypeOK
  <2> QED BY <1>1, <2>1, CallersKeepRequests DEF mapVars
<1>4. TodoInv'
  BY <1>1 DEF BarrierInv, TypeOK, TodoInv, Unsent
<1>5. ArrivedInv'
  BY <1>1 DEF BarrierInv, TypeOK, ArrivedInv, mapVars
<1> QED BY <1>2, <1>3, <1>4, <1>5 DEF BarrierInv

LEMMA IncrementLoadKeepsInv ==
  ASSUME BarrierInv, NEW m \in requests, IncrementLoad(m)
  PROVE  BarrierInv'
<1> DEFINE p == m.to
           k == KeyOf[m.call]
           l == [rpc |-> m, ctr |-> Loaded(p, k)]
<1>1. m \in Rpcs /\ p \in Parties /\ m.from \in Parties /\ m.call \in Calls /\ k \in Keys
  BY KeyOfCall DEF BarrierInv, TypeOK, Rpcs
<1>2. /\ countMap' \in [Parties -> [Keys -> Counters]]
      /\ objs' \in [Parties -> Nat]
      /\ Loaded(p, k) \in Counters
      /\ Loaded(p, k).count = countMap[p][k].count
      /\ \A q \in Parties, j \in Keys : countMap'[q][j].count = countMap[q][j].count
  BY <1>1, LoadKeepsCounts DEF IncrementLoad, BarrierInv
<1>3. /\ inc[p] = {} /\ requests' = requests \ {m}
      /\ inc' = [inc EXCEPT ![p] = {l}]
      /\ UNCHANGED <<senders, replies, callVars, errors, arrived>>
  BY DEF IncrementLoad
<1>4. l \in Loads /\ l.rpc = m /\ l.ctr.count = countMap[p][k].count
  BY <1>1, <1>2 DEF Loads
<1> HIDE DEF l, k
<1>5. TypeOK'
  BY <1>1, <1>2, <1>3, <1>4 DEF BarrierInv, TypeOK, callVars
<1>6. RequestsInv'
  BY <1>1, <1>3, <1>4 DEF BarrierInv, TypeOK, RequestsInv, Uncounted, Rpcs, callVars
<1>7. IncInv'
  <2> SUFFICES ASSUME NEW q \in Parties, NEW n \in inc'[q]
               PROVE  /\ n.rpc.to = q /\ Uncounted(n.rpc)
                      /\ \A o \in inc'[q] : o = n
                      /\ n.ctr.count = countMap'[q][KeyOf[n.rpc.call]].count
    BY <1>3 DEF IncInv, Uncounted, callVars
  <2>1. CASE q = p
    <3>1. n = l /\ \A o \in inc'[q] : o = n
      BY <2>1, <1>1, <1>3 DEF BarrierInv, TypeOK
    <3>2. Uncounted(m)
      BY DEF BarrierInv, RequestsInv
    <3>3. l.ctr.count = countMap'[p][k].count
      BY <1>1, <1>2, <1>4
    <3> QED BY <2>1, <3>1, <3>2, <3>3, <1>4 DEF k
  <2>2. CASE q # p
    <3>1. inc'[q] = inc[q]
      BY <2>2, <1>3 DEF BarrierInv, TypeOK
    <3>2. /\ n.rpc.to = q /\ Uncounted(n.rpc) /\ \A o \in inc[q] : o = n
          /\ n.ctr.count = countMap[q][KeyOf[n.rpc.call]].count
          /\ n.rpc.call \in Calls
      BY <3>1 DEF BarrierInv, TypeOK, IncInv, Loads, Rpcs
    <3> QED BY <3>1, <3>2, <1>2, KeyOfCall
  <2> QED BY <2>1, <2>2
<1>8. TodoInv'
  BY <1>1, <1>3, <1>4 DEF BarrierInv, TypeOK, TodoInv, Unsent, callVars
<1>9. ArrivedInv'
  <2>1. \A q \in Parties, d \in Calls : countMap'[q][KeyOf[d]].count = countMap[q][KeyOf[d]].count
    BY <1>2, KeyOfCall
  <2>2. pc' = pc /\ arrived' = arrived
    BY <1>3 DEF callVars
  <2> QED BY <2>1, <2>2 DEF BarrierInv, ArrivedInv
<1> QED BY <1>5, <1>6, <1>7, <1>8, <1>9 DEF BarrierInv

\* The one step that counts: a new party is added to those that arrived.
LEMMA IncrementStoreKeepsInv ==
  ASSUME BarrierInv, KeysDistinct, NEW p \in Parties, NEW l \in inc[p],
         IncrementStore(p, l)
  PROVE  BarrierInv'
<1> DEFINE c == l.rpc.call
           q == l.rpc.from
           k == KeyOf[c]
<1>1. /\ l \in Loads /\ l.rpc \in Rpcs /\ q \in Parties /\ c \in Calls /\ k \in Keys
      /\ l.rpc.to = p /\ l.ctr.count \in Nat /\ l.ctr.obj \in Nat
  BY KeyOfCall DEF BarrierInv, TypeOK, IncInv, Loads, Rpcs, Counters
<1>2. /\ q # p /\ q \notin arrived[p][c] /\ pc[q][c] # "idle" /\ l.rpc.try = 0
      /\ l.ctr.count = countMap[p][k].count
      /\ inc[p] = {l}
  BY DEF BarrierInv, IncInv, Uncounted
<1>3. pc[p][c] # "done"
  BY <1>1, <1>2 DEF BarrierInv, ArrivedInv, Others
<1>4. /\ IsFiniteSet(arrived[p][c])
      /\ Cardinality(arrived[p][c] \cup {q}) = Cardinality(arrived[p][c]) + 1
  <2>1. arrived[p][c] \in SUBSET Parties
    BY <1>1 DEF BarrierInv, TypeOK
  <2> QED BY <2>1, <1>2, SyncAssumption, FS_Subset, FS_AddElement
<1>5. /\ countMap' = [countMap EXCEPT ![p][k] = [count |-> l.ctr.count + 1, obj |-> l.ctr.obj]]
      /\ arrived' = [arrived EXCEPT ![p][c] = @ \cup {q}]
      /\ inc' = [inc EXCEPT ![p] = {}]
      /\ senders' = senders \cup {[at |-> p, obj |-> l.ctr.obj, rpc |-> l.rpc]}
      /\ replies' = replies \cup {l.rpc}
      /\ UNCHANGED <<objs, requests, callVars, errors>>
  BY DEF IncrementStore
<1>6. TypeOK'
  <2>1. [count |-> l.ctr.count + 1, obj |-> l.ctr.obj] \in Counters
    BY <1>1 DEF Counters
  <2>2. countMap' \in [Parties -> [Keys -> Counters]]
    BY <2>1, <1>1, <1>5 DEF BarrierInv, TypeOK
  <2>3. senders' \subseteq [at : Parties, obj : Nat, rpc : Rpcs]
    BY <1>1, <1>5 DEF BarrierInv, TypeOK
  <2>4. arrived' \in [Parties -> [Calls -> SUBSET Parties]]
    BY <1>1, <1>5 DEF BarrierInv, TypeOK
  <2> QED BY <1>1, <1>5, <2>2, <2>3, <2>4 DEF BarrierInv, TypeOK, callVars
<1>7. RequestsInv'
  <2> SUFFICES ASSUME NEW m \in requests
               PROVE  Uncounted(m)' /\ \A n \in inc'[m.to] : n.rpc # m
    BY <1>5 DEF RequestsInv
  <2>1. m \in Rpcs /\ m.from \in Parties /\ m.to \in Parties /\ m.call \in Calls
        /\ Uncounted(m) /\ \A n \in inc[m.to] : n.rpc # m
    BY DEF BarrierInv, TypeOK, RequestsInv, Rpcs
  <2>2. ~(m.from = q /\ m.to = p /\ m.call = c)
    BY <2>1, <1>1, <1>2 DEF Uncounted, Rpcs
  <2>3. m.from \notin arrived'[m.to][m.call]
    BY <2>1, <2>2, <1>1, <1>5 DEF Uncounted, BarrierInv, TypeOK
  <2>4. \A n \in inc'[m.to] : n.rpc # m
    BY <2>1, <1>5 DEF BarrierInv, TypeOK
  <2> QED BY <2>1, <2>3, <2>4, <1>5 DEF Uncounted, callVars
<1>8. IncInv'
  <2> SUFFICES ASSUME NEW r \in Parties, NEW n \in inc'[r]
               PROVE  /\ n.rpc.to = r /\ Uncounted(n.rpc)'
                      /\ \A o \in inc'[r] : o = n
                      /\ n.ctr.count = countMap'[r][KeyOf[n.rpc.call]].count
    BY DEF IncInv
  <2>1. r # p /\ inc'[r] = inc[r]
    BY <1>5 DEF BarrierInv, TypeOK
  <2>2. n \in Loads /\ n.rpc.call \in Calls /\ n.rpc.from \in Parties /\ n.rpc.to = r
        /\ Uncounted(n.rpc) /\ (\A o \in inc[r] : o = n)
        /\ n.ctr.count = countMap[r][KeyOf[n.rpc.call]].count
    BY <2>1 DEF BarrierInv, TypeOK, IncInv, Loads, Rpcs
  <2>3. arrived'[r] = arrived[r] /\ countMap'[r] = countMap[r]
    BY <2>1, <1>5 DEF BarrierInv, TypeOK
  <2> QED BY <2>1, <2>2, <2>3, <1>5 DEF Uncounted, callVars
<1>9. TodoInv'
  <2> SUFFICES ASSUME NEW r \in Parties, NEW d \in Calls, NEW s \in todo[r][d],
                      \/ pc[r][d] = "sync"
                      \/ pc[r][d] = "call" /\ \E t \in todo[r][d] : t < s
               PROVE  Unsent(r, s, d)'
    BY <1>5 DEF BarrierInv, TodoInv, callVars
  <2>1. Unsent(r, s, d) /\ s \in Parties
    BY DEF BarrierInv, TypeOK, TodoInv
  <2>2. ~(r = q /\ s = p /\ d = c)
    BY <2>1 DEF Unsent
  <2>3. r \notin arrived'[s][d]
    BY <2>1, <2>2, <1>1, <1>5 DEF Unsent, BarrierInv, TypeOK
  <2>4. inc'[s] \subseteq inc[s]
    BY <2>1, <1>5 DEF BarrierInv, TypeOK
  <2> QED BY <2>1, <2>3, <2>4, <1>5 DEF Unsent
<1>10. ArrivedInv'
  <2> SUFFICES ASSUME NEW r \in Parties, NEW d \in Calls
               PROVE  /\ \A t \in arrived'[r][d] : t # r /\ pc[t][d] # "idle"
                      /\ pc[r][d] # "done" =>
                           countMap'[r][KeyOf[d]].count = Cardinality(arrived'[r][d])
                      /\ pc[r][d] \in {"delete", "done"} => arrived'[r][d] = Others(r)
    <3>1. pc' = pc
      BY <1>5 DEF callVars
    <3> QED BY <3>1 DEF ArrivedInv, Others
  <2>1. CASE r = p /\ d = c
    <3>1. arrived'[r][d] = arrived[p][c] \cup {q}
      BY <2>1, <1>1, <1>5 DEF BarrierInv, TypeOK
    <3>2. countMap'[r][KeyOf[d]].count = countMap[p][k].count + 1
      BY <2>1, <1>1, <1>2, <1>5 DEF BarrierInv, TypeOK
    <3>3. pc[p][c] # "delete"
      BY <1>1, <1>2 DEF BarrierInv, ArrivedInv, Others
    <3>4. \A t \in arrived[p][c] : t # p /\ pc[t][c] # "idle"
      BY <1>1 DEF BarrierInv, ArrivedInv
    <3>5. countMap[p][k].count = Cardinality(arrived[p][c])
      BY <1>1, <1>3 DEF BarrierInv, ArrivedInv
    <3>6. \A t \in arrived'[r][d] : t # r /\ pc[t][d] # "idle"
      BY <2>1, <3>1, <3>4, <1>2
    <3>7. countMap'[r][KeyOf[d]].count = Cardinality(arrived'[r][d])
      BY <3>1, <3>2, <3>5, <1>4
    <3>8. pc[r][d] \notin {"delete", "done"}
      BY <2>1, <3>3, <1>3
    <3> QED BY <3>6, <3>7, <3>8
  <2>2. CASE ~(r = p /\ d = c)
    <3>1. arrived'[r][d] = arrived[r][d]
      BY <2>2, <1>1, <1>5 DEF BarrierInv, TypeOK
    <3>2. countMap'[r][KeyOf[d]] = countMap[r][KeyOf[d]]
      BY <2>2, <1>1, <1>5, KeyOfCall DEF BarrierInv, TypeOK, KeysDistinct
    <3> QED BY <3>1, <3>2 DEF BarrierInv, ArrivedInv
  <2> QED BY <2>1, <2>2
<1> QED BY <1>6, <1>7, <1>8, <1>9, <1>10 DEF BarrierInv

\* What the steps of Wait before the deletion have in common: counts, requests
\* and arrivals stay as they are, one call moves on inside Wait.
LEMMA WaitStepKeepsInv ==
  ASSUME BarrierInv, TypeOK', NEW p \in Parties, NEW c \in Calls,
         NEW label \in {"lock", "judge", "recv", "delete"},
         pc[p][c] \notin {"idle", "done"},
         pc' = [pc EXCEPT ![p][c] = label],
         UNCHANGED <<rpcVars, todo, try, arrived>>,
         \A q \in Parties, j \in Keys : countMap'[q][j].count = countMap[q][j].count,
         label = "delete" => arrived[p][c] = Others(p)
  PROVE  BarrierInv'
<1>1. UNCHANGED <<requests, inc, todo, try, arrived>>
  BY DEF rpcVars
<1>2. \A q \in Parties, d \in Calls : countMap'[q][KeyOf[d]].count = countMap[q][KeyOf[d]].count
  BY KeyOfCall
<1>3. \A q \in Parties, d \in Calls :
        /\ pc'[q][d] = pc[q][d] \/ (q = p /\ d = c /\ pc'[q][d] = label)
        /\ pc[q][d] # "idle" => pc'[q][d] # "idle"
        /\ pc'[q][d] # "done" => pc[q][d] # "done"
  BY DEF BarrierInv, TypeOK
<1>4. \A m \in Rpcs : Uncounted(m) => Uncounted(m)'
  BY <1>1, <1>3 DEF Uncounted, Rpcs
<1>5. RequestsInv'
  BY <1>1, <1>4 DEF BarrierInv, TypeOK, RequestsInv
<1>6. IncInv'
  <2> SUFFICES ASSUME NEW q \in Parties, NEW l \in inc[q]
               PROVE  /\ l.rpc.to = q /\ Uncounted(l.rpc)'
                      /\ \A n \in inc[q] : n = l
                      /\ l.ctr.count = countMap'[q][KeyOf[l.rpc.call]].count
    BY <1>1 DEF IncInv
  <2>1. l.rpc \in Rpcs /\ l.rpc.call \in Calls
    BY DEF BarrierInv, TypeOK, Loads, Rpcs
  <2> QED BY <2>1, <1>2, <1>4 DEF BarrierInv, IncInv
<1>7. TodoInv'
  <2>1. \A q \in Parties, r \in Parties, d \in Calls : Unsent(q, r, d) => Unsent(q, r, d)'
    BY <1>1 DEF Unsent
  <2>2. \A q \in Parties, d \in Calls : pc'[q][d] \in {"sync", "call"} => pc'[q][d] = pc[q][d]
    BY <1>3
  <2> QED BY <1>1, <2>1, <2>2 DEF BarrierInv, TypeOK, TodoInv
<1>8. ArrivedInv'
  <2> SUFFICES ASSUME NEW q \in Parties, NEW d \in Calls
               PROVE  /\ \A r \in arrived[q][d] : r # q /\ pc'[r][d] # "idle"
                      /\ pc'[q][d] # "done" =>
                           countMap'[q][KeyOf[d]].count = Cardinality(arrived[q][d])
                      /\ pc'[q][d] \in {"delete", "done"} => arrived[q][d] = Others(q)
    BY <1>1 DEF ArrivedInv, Others
  <2>1. \A r \in arrived[q][d] : r # q /\ pc'[r][d] # "idle"
    BY <1>3 DEF BarrierInv, TypeOK, ArrivedInv
  <2>2. pc'[q][d] # "done" => countMap'[q][KeyOf[d]].count = Cardinality(arrived[q][d])
    BY <1>2, <1>3 DEF BarrierInv, ArrivedInv
  <2>3. pc'[q][d] \in {"delete", "done"} => arrived[q][d] = Others(q)
    BY <1>3 DEF BarrierInv, ArrivedInv
  <2> QED BY <2>1, <2>2, <2>3
<1> QED BY <1>5, <1>6, <1>7, <1>8 DEF BarrierInv

LEMMA WaitLoadKeepsInv ==
  ASSUME BarrierInv, NEW p \in Parties, NEW c \in Calls, WaitLoad(p, c)
  PROVE  BarrierInv'
<1>1. KeyOf[c] \in Keys
  BY KeyOfCall
<1>2. /\ countMap' \in [Parties -> [Keys -> Counters]]
      /\ objs' \in [Parties -> Nat]
      /\ Loaded(p, KeyOf[c]).obj \in Nat
      /\ \A q \in Parties, j \in Keys : countMap'[q][j].count = countMap[q][j].count
  BY <1>1, LoadKeepsCounts DEF WaitLoad, BarrierInv, Counters
<1>3. /\ pc[p][c] = "sync" /\ todo[p][c] = {}
      /\ pc' = [pc EXCEPT ![p][c] = "lock"]
      /\ obj' = [obj EXCEPT ![p][c] = Loaded(p, KeyOf[c]).obj]
      /\ UNCHANGED <<senders, rpcVars, todo, try, errors, arrived>>
  BY DEF WaitLoad, Goto
<1>4. TypeOK'
  BY <1>2, <1>3 DEF BarrierInv, TypeOK, Labels, rpcVars
<1> QED BY <1>2, <1>3, <1>4, WaitStepKeepsInv

LEMMA WaitLockKeepsInv ==
  ASSUME BarrierInv, NEW p \in Parties, NEW c \in Calls, WaitLock(p, c)
  PROVE  BarrierInv'
<1> USE DEF WaitLock, Goto, mapVars, rpcVars
<1>1. TypeOK'
  BY DEF BarrierInv, TypeOK, Labels
<1>2. RequestsInv' /\ IncInv'
  BY DEF BarrierInv, TypeOK, RequestsInv, IncInv, Uncounted, Rpcs, Loads
<1>3. TodoInv'
  BY DEF BarrierInv, TypeOK, TodoInv, Unsent
<1>4. ArrivedInv'
  BY DEF BarrierInv, TypeOK, ArrivedInv
<1> QED BY <1>1, <1>2, <1>3, <1>4 DEF BarrierInv

\* A count that has reached the number of the others counts all of them.
LEMMA WaitJudgeKeepsInv ==
  ASSUME BarrierInv, NEW p \in Parties, NEW c \in Calls, WaitJudge(p, c)
  PROVE  BarrierInv'
<1> DEFINE n == Loaded(p, KeyOf[c]).count
           label == IF n < Cardinality(Others(p)) THEN "recv" ELSE "delete"
<1>1. KeyOf[c] \in Keys
  BY KeyOfCall
<1>2. /\ countMap' \in [Parties -> [Keys -> Counters]]
      /\ objs' \in [Parties -> Nat]
      /\ n = countMap[p][KeyOf[c]].count
      /\ \A q \in Parties, j \in Keys : countMap'[q][j].count = countMap[q][j].count
  BY <1>1, LoadKeepsCounts DEF WaitJudge, BarrierInv
<1>3. /\ pc[p][c] = "judge"
      /\ pc' = [pc EXCEPT ![p][c] = label]
      /\ UNCHANGED <<senders, rpcVars, todo, try, obj, errors, arrived>>
  BY DEF WaitJudge, Goto
<1>4. label = "delete" => arrived[p][c] = Others(p)
  <2>1. arrived[p][c] \in SUBSET Others(p)
    BY DEF BarrierInv, TypeOK, ArrivedInv, Others
  <2>2. n = Cardinality(arrived[p][c])
    BY <1>2, <1>3 DEF BarrierInv, ArrivedInv
  <2>3. IsFiniteSet(Others(p)) /\ Cardinality(Others(p)) \in Nat
    BY SyncAssumption, FS_RemoveElement, FS_CardinalityType DEF Others
  <2>4. /\ Cardinality(arrived[p][c]) \in Nat
        /\ Cardinality(arrived[p][c]) <= Cardinality(Others(p))
        /\ Cardinality(Others(p)) = Cardinality(arrived[p][c]) => Others(p) = arrived[p][c]
    BY <2>1, <2>3, FS_Subset, FS_CardinalityType
  <2> QED BY <2>2, <2>3, <2>4
<1>5. label \in {"recv", "delete"}
  OBVIOUS
<1> HIDE DEF label, n
<1>6. TypeOK'
  BY <1>2, <1>3, <1>5 DEF BarrierInv, TypeOK, Labels, rpcVars
<1> QED BY <1>2, <1>3, <1>4, <1>5, <1>6, WaitStepKeepsInv

LEMMA WaitRecvKeepsInv ==
  ASSUME BarrierInv, NEW p \in Parties, NEW c \in Calls, WaitRecv(p, c)
  PROVE  BarrierInv'
<1> USE DEF WaitRecv, Goto, rpcVars
<1>1. TypeOK'
  BY DEF BarrierInv, TypeOK, Labels
<1>2. RequestsInv' /\ IncInv'
  BY DEF BarrierInv, TypeOK, RequestsInv, IncInv, Uncounted, Rpcs, Loads
<1>3. TodoInv'
  BY DEF BarrierInv, TypeOK, TodoInv, Unsent
<1>4. ArrivedInv'
  BY DEF BarrierInv, TypeOK, ArrivedInv
<1> QED BY <1>1, <1>2, <1>3, <1>4 DEF BarrierInv

\* The counter is deleted when everybody was counted: no increment is under way.
LEMMA WaitDeleteKeepsInv ==
  ASSUME BarrierInv, KeysDistinct, NEW p \in Parties, NEW c \in Calls, WaitDelete(p, c)
  PROVE  BarrierInv'
<1>1. /\ pc[p][c] = "delete" /\ pc' = [pc EXCEPT ![p][c] = "done"]
      /\ countMap' = [countMap EXCEPT ![p][KeyOf[c]] = Absent]
      /\ UNCHANGED <<objs, senders, rpcVars, todo, try, obj, errors, arrived>>
  BY DEF WaitDelete, Goto
<1>2. arrived[p][c] = Others(p)
  BY <1>1 DEF BarrierInv, ArrivedInv
<1>3. TypeOK'
  BY <1>1, KeyOfCall DEF BarrierInv, TypeOK, Labels, Counters, Absent, rpcVars
<1>4. RequestsInv'
  BY <1>1 DEF BarrierInv, TypeOK, RequestsInv, Uncounted, Rpcs, rpcVars
<1>5. \A q \in Parties, d \in Calls :
        ~(q = p /\ d = c) => countMap'[q][KeyOf[d]] = countMap[q][KeyOf[d]]
  BY <1>1, KeyOfCall DEF BarrierInv, TypeOK, KeysDistinct
<1>6. IncInv'
  <2> SUFFICES ASSUME NEW q \in Parties, NEW l \in inc[q]
               PROVE  /\ l.rpc.to = q /\ Uncounted(l.rpc)'
                      /\ \A n \in inc[q] : n = l
                      /\ l.ctr.count = countMap'[q][KeyOf[l.rpc.call]].count
    BY <1>1 DEF IncInv, rpcVars
  <2>1. l.rpc.from \in Parties /\ l.rpc.call \in Calls /\ l.rpc.to = q /\ Uncounted(l.rpc)
        /\ (\A n \in inc[q] : n = l)
        /\ l.ctr.count = countMap[q][KeyOf[l.rpc.call]].count
    BY DEF BarrierInv, TypeOK, IncInv, Loads, Rpcs
  <2>2. ~(q = p /\ l.rpc.call = c)
    BY <1>2, <2>1 DEF Uncounted, Others
  <2>3. Uncounted(l.rpc)'
    BY <2>1, <1>1 DEF Uncounted, BarrierInv, TypeOK
  <2> QED BY <2>1, <2>2, <2>3, <1>5
<1>7. TodoInv'
  BY <1>1 DEF BarrierInv, TypeOK, TodoInv, Unsent, rpcVars
<1>8. ArrivedInv'
  BY <1>1, <1>2, <1>5 DEF BarrierInv, TypeOK, ArrivedInv, Others
<1> QED BY <1>3, <1>4, <1>6, <1>7, <1>8 DEF BarrierInv

LEMMA StutterKeepsInv == BarrierInv /\ UNCHANGED vars => BarrierInv'
BY DEF BarrierInv, TypeOK, RequestsInv, IncInv, TodoInv, ArrivedInv, Uncounted, Unsent,
       vars, mapVars, rpcVars, callVars

-----------------------------------------------------------------------------
\* The counters count distinct parties: the inductive invariant of Sync.
THEOREM BarrierInvariant ==
  ASSUME KeysDistinct, ~CanReconnect
  PROVE  Spec => []BarrierInv
<1>1. Init => BarrierInv
  BY BarrierInvInit
<1>2. BarrierInv /\ [Next]_vars => BarrierInv'
  <2> SUFFICES ASSUME BarrierInv, [Next]_vars PROVE BarrierInv'
    OBVIOUS
  <2>1. ASSUME NEW p \in Parties, NEW c \in Calls, Step(p, c) PROVE BarrierInv'
    BY <2>1, SyncCallKeepsInv, SyncSendKeepsInv, SyncReturnKeepsInv, WaitLoadKeepsInv,
       WaitLockKeepsInv, WaitJudgeKeepsInv, WaitRecvKeepsInv, WaitDeleteKeepsInv DEF Step
  <2>2. ASSUME NEW p \in Parties, Handle(p) PROVE BarrierInv'
    BY <2>2, IncrementLoadKeepsInv, IncrementStoreKeepsInv DEF Handle
  <2>3. ASSUME NEW p \in Parties, NEW c \in Calls, NEW q \in Parties, SyncFail(p, c, q)
        PROVE  BarrierInv'
    BY <2>3, SyncFailKeepsInv
  <2>4. CASE UNCHANGED vars
    BY <2>4, StutterKeepsInv
  <2> QED BY <2>1, <2>2, <2>3, <2>4 DEF Next, Finished
<1> QED BY <1>1, <1>2, PTL DEF Spec

\* No party leaves Sync before every party has called it, for any finite set
\* of parties, as long as no two calls share a key and no request is repeated.
THEOREM BarrierSafety ==
  ASSUME KeysDistinct, ~CanReconnect
  PROVE  Spec => []NobodyLeavesEarly
<1>1. BarrierInv => NobodyLeavesEarly
  <2> SUFFICES ASSUME BarrierInv, NEW p \in Parties, NEW c \in Calls,
                      pc[p][c] \in {"delete", "done"}, NEW q \in Parties
               PROVE  pc[q][c] # "idle"
    BY DEF NobodyLeavesEarly
  <2>1. CASE q = p
    BY <2>1
  <2>2. CASE q # p
    BY <2>2 DEF BarrierInv, ArrivedInv, Others
  <2> QED BY <2>1, <2>2
<1> QED BY <1>1, BarrierInvariant, PTL

-----------------------------------------------------------------------------
(* Sync implements the abstract barrier                                     *)

AtBar == [p \in Parties |-> [c \in Calls |-> Place(pc[p][c])]]

\* A step that moves one call to a new label moves it alone at the barrier.
LEMMA GotoMoves ==
  ASSUME TypeOK, NEW p \in Parties, NEW c \in Calls, NEW label \in Labels,
         pc' = [pc EXCEPT ![p][c] = label]
  PROVE  /\ AtBar[p][c] = Place(pc[p][c])
         /\ AtBar' = [AtBar EXCEPT ![p][c] = Place(label)]
<1>1. \A q \in Parties, d \in Calls :
        pc'[q][d] = IF q = p /\ d = c THEN label ELSE pc[q][d]
  BY DEF TypeOK
<1>2. AtBar' = [q \in Parties |-> [d \in Calls |->
                  IF q = p /\ d = c THEN Place(label) ELSE Place(pc[q][d])]]
  BY <1>1 DEF AtBar
<1> QED BY <1>2 DEF AtBar

\* The steps of Sync that the abstract barrier does not see.
LEMMA InsideMoves ==
  ASSUME TypeOK, NEW p \in Parties, NEW c \in Calls, NEW label \in Labels,
         pc' = [pc EXCEPT ![p][c] = label], Place(label) = Place(pc[p][c])
  PROVE  AtBar' = AtBar
<1>1. AtBar[p][c] = Place(pc[p][c]) /\ AtBar' = [AtBar EXCEPT ![p][c] = Place(label)]
  BY GotoMoves
<1>2. AtBar' = [AtBar EXCEPT ![p][c] = AtBar[p][c]]
  BY <1>1
<1> QED BY <1>2 DEF AtBar

\* Sync implements the barrier: a call enters at its first request, leaves
\* when Wait has judged the count complete, and aborts when a request fails.
THEOREM SyncImplementsBarrier ==
  ASSUME KeysDistinct, ~CanReconnect
  PROVE  Spec => BarrierSpec
<1>1. Init => Abstract!Init
  <2> SUFFICES ASSUME Init PROVE AtBar = [p \in Parties |-> [c \in Calls |-> "before"]]
    BY DEF Abstract!Init, AtBar
  <2>1. \A p \in Parties, c \in Calls : pc[p][c] = "idle"
    BY DEF Init
  <2>2. \A p \in Parties, c \in Calls : Place(pc[p][c]) = "before"
    BY <2>1 DEF Place
  <2> QED BY <2>2 DEF AtBar
<1>2. BarrierInv /\ BarrierInv' /\ [Next]_vars => [Abstract!Next]_AtBar
  <2> SUFFICES ASSUME BarrierInv, BarrierInv', [Next]_vars
               PROVE  Abstract!Next \/ AtBar' = AtBar
    OBVIOUS
  <2>t. TypeOK
    BY DEF BarrierInv
  <2>1. ASSUME NEW p \in Parties, NEW c \in Calls, SyncCall(p, c)
        PROVE  Abstract!Enter(p, c)
    <3>1. pc[p][c] = "idle" /\ pc' = [pc EXCEPT ![p][c] = "sync"]
      BY <2>1 DEF SyncCall, Goto
    <3>2. Place("idle") = "before" /\ Place("sync") = "inside" /\ "sync" \in Labels
      BY DEF Place, Labels
    <3>3. AtBar[p][c] = Place(pc[p][c]) /\ AtBar' = [AtBar EXCEPT ![p][c] = Place("sync")]
      BY <3>1, <3>2, <2>t, GotoMoves
    <3>4. AtBar[p][c] = "before" /\ AtBar' = [AtBar EXCEPT ![p][c] = "inside"]
      BY <3>1, <3>2, <3>3
    <3> QED BY <3>4 DEF Abstract!Enter, Abstract!Move, AtBar
  <2>2. ASSUME NEW p \in Parties, NEW c \in Calls, NEW q \in Parties,
               SyncSend(p, c, q) \/ SyncReturn(p, c, q)
        PROVE  AtBar' = AtBar
    BY <2>2, <2>t, InsideMoves DEF SyncSend, SyncReturn, Goto, Labels, Place
  <2>3. ASSUME NEW p \in Parties, NEW c \in Calls, NEW q \in Parties, SyncFail(p, c, q)
        PROVE  Abstract!Abort(p, c)
    <3>1. pc[p][c] = "call" /\ pc' = [pc EXCEPT ![p][c] = "failed"]
      BY <2>3 DEF SyncFail, AfterFailure, Goto
    <3> QED BY <3>1, <2>t, GotoMoves
       DEF Labels, Place, Abstract!Abort, Abstract!Move, AtBar
  <2>4. ASSUME NEW p \in Parties, Handle(p)
        PROVE  AtBar' = AtBar
    BY <2>4 DEF Handle, IncrementLoad, IncrementStore, callVars, AtBar
  <2>5. ASSUME NEW p \in Parties, NEW c \in Calls,
               WaitLoad(p, c) \/ WaitLock(p, c) \/ WaitRecv(p, c) \/ WaitDelete(p, c)
        PROVE  AtBar' = AtBar
    BY <2>5, <2>t, InsideMoves
       DEF WaitLoad, WaitLock, WaitRecv, WaitDelete, Goto, Labels, Place
  <2>6. ASSUME NEW p \in Parties, NEW c \in Calls, WaitJudge(p, c)
        PROVE  Abstract!Leave(p, c) \/ AtBar' = AtBar
    <3>1. pc[p][c] = "judge"
      BY <2>6 DEF WaitJudge
    <3>2. CASE pc' = [pc EXCEPT ![p][c] = "recv"]
      BY <3>1, <3>2, <2>t, InsideMoves DEF Labels, Place
    <3>3. CASE pc' = [pc EXCEPT ![p][c] = "delete"]
      <4>1. pc'[p][c] = "delete"
        BY <3>3, <2>t DEF TypeOK
      <4>2. \A q \in Parties : pc'[q][c] # "idle"
        <5>1. arrived'[p][c] = Others(p) /\ \A q \in arrived'[p][c] : pc'[q][c] # "idle"
          BY <4>1 DEF BarrierInv, ArrivedInv, Others
        <5> QED BY <4>1, <5>1 DEF Others
      <4>3. \A q \in Parties : pc[q][c] # "idle"
        BY <4>2, <3>1, <3>3, <2>t DEF TypeOK
      <4>4. \A q \in Parties : AtBar[q][c] # "before"
        BY <4>3 DEF AtBar, Place
      <4> QED BY <4>4, <3>1, <3>3, <2>t, GotoMoves
              DEF Labels, Place, Abstract!Leave, Abstract!Move, AtBar
    <3> QED BY <2>6, <3>2, <3>3 DEF WaitJudge, Goto
  <2>7. CASE UNCHANGED vars
    BY <2>7 DEF vars, callVars, AtBar
  <2> QED BY <2>1, <2>2, <2>3, <2>4, <2>5, <2>6, <2>7
          DEF Next, Step, Finished, Abstract!Next
<1> QED BY <1>1, <1>2, BarrierInvariant, PTL DEF Spec, BarrierSpec, Abstract!Spec, AtBar
=============================================================================
