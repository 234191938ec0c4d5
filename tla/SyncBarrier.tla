----------------------------- MODULE SyncBarrier -----------------------------
(***************************************************************************)
(* The barrier the management containers run inside SendShares: Sync of    *)
(* Client/ManageToManageContainer/Client.go, the Sync handler of M2m.go    *)
(* and the counters of Cond_count.go.  A party sends one request to every  *)
(* other party, one after the other, and waits until its own counter of    *)
(* the key has reached the number of the others.                           *)
(*                                                                         *)
(* A counter is a value in a sync.Map; its mutex and channel are shared by *)
(* every copy made of it, and are named here by a number, obj.  load,      *)
(* Store and Delete are separate steps, so an increment can put back a     *)
(* counter that a Wait has just deleted.                                   *)
(***************************************************************************)
EXTENDS Naturals, FiniteSets

CONSTANTS Parties,       \* party ids, in the order of PartyList
          Calls,         \* calls of Sync; every party makes each of them once
          KeyOf,         \* KeyOf[c]: the syncID of call c
          CanReconnect,  \* whether reconnect() ever finds the channel idle
          MaxErrors      \* bound: requests whose RPC fails at the caller

ASSUME SyncAssumption ==
  /\ Parties \subseteq Nat /\ IsFiniteSet(Parties)
  /\ KeyOf = [c \in Calls |-> KeyOf[c]]
  /\ CanReconnect \in BOOLEAN
  /\ MaxErrors \in Nat

Keys == {KeyOf[c] : c \in Calls}
Others(p) == Parties \ {p}

Counters == [count : Nat, obj : Nat]
Absent == [count |-> 0, obj |-> 0]  \* objects are numbered from 1

Rpcs == [from : Parties, to : Parties, call : Calls, try : Nat]
Loads == [rpc : Rpcs, ctr : Counters]

VARIABLES
  countMap,  \* countMap[p][k]: count_map of p
  objs,      \* objs[p]: the mutex and channel pairs p has made so far
  senders,   \* goroutines blocked in mp.ch <- true: [at, obj, rpc]
  requests,  \* Sync requests not yet handled
  inc,       \* inc[p]: the increment inside mu_inc of p, between load and Store
  replies,   \* answered requests whose caller has not resumed
  pc,        \* pc[p][c]: where call c of p is
  todo,      \* todo[p][c]: the parties call c of p has yet to reach
  try,       \* try[p][c]: failed requests to the current target
  obj,       \* obj[p][c]: the object of the counter that Wait loaded
  errors,    \* RPC failures so far
  arrived    \* history: arrived[p][c], the parties whose request for c p counted

mapVars == <<countMap, objs, senders>>
rpcVars == <<requests, inc, replies>>
callVars == <<pc, todo, try, obj>>
vars == <<mapVars, rpcVars, callVars, errors, arrived>>

Labels == {"idle", "sync", "call", "lock", "judge", "recv", "delete", "done", "failed"}

TypeOK ==
  /\ countMap \in [Parties -> [Keys -> Counters]]
  /\ objs \in [Parties -> Nat]
  /\ senders \subseteq [at : Parties, obj : Nat, rpc : Rpcs]
  /\ requests \subseteq Rpcs
  /\ inc \in [Parties -> SUBSET Loads]
  /\ replies \subseteq Rpcs
  /\ pc \in [Parties -> [Calls -> Labels]]
  /\ todo \in [Parties -> [Calls -> SUBSET Parties]]
  /\ try \in [Parties -> [Calls -> Nat]]
  /\ obj \in [Parties -> [Calls -> Nat]]
  /\ errors \in Nat
  /\ arrived \in [Parties -> [Calls -> SUBSET Parties]]

Init ==
  /\ countMap = [p \in Parties |-> [k \in Keys |-> Absent]]
  /\ objs = [p \in Parties |-> 0]
  /\ senders = {} /\ requests = {} /\ replies = {}
  /\ inc = [p \in Parties |-> {}]
  /\ pc = [p \in Parties |-> [c \in Calls |-> "idle"]]
  /\ todo = [p \in Parties |-> [c \in Calls |-> {}]]
  /\ try = [p \in Parties |-> [c \in Calls |-> 0]]
  /\ obj = [p \in Parties |-> [c \in Calls |-> 0]]
  /\ errors = 0
  /\ arrived = [p \in Parties |-> [c \in Calls |-> {}]]

Goto(p, c, label) == pc' = [pc EXCEPT ![p][c] = label]

\* load(key): the counter of the key, made with count 0 if there is none.
IsNew(p, k) == countMap[p][k] = Absent
Loaded(p, k) ==
  IF IsNew(p, k) THEN [count |-> 0, obj |-> objs[p] + 1] ELSE countMap[p][k]
load(p, k) ==
  /\ countMap' = [countMap EXCEPT ![p][k] = Loaded(p, k)]
  /\ objs' = [objs EXCEPT ![p] = IF IsNew(p, k) THEN @ + 1 ELSE @]

-----------------------------------------------------------------------------
(* Sync: the requests to the other parties                                  *)

\* SendShares calls Sync once its own insertion is over.
SyncCall(p, c) ==
  /\ pc[p][c] = "idle"
  /\ todo' = [todo EXCEPT ![p][c] = Others(p)]
  /\ Goto(p, c, "sync")
  /\ UNCHANGED <<mapVars, rpcVars, try, obj, errors, arrived>>

\* The party whose turn it is.
Target(p, c, q) == q \in todo[p][c] /\ \A r \in todo[p][c] : q <= r
Rpc(p, q, c) == [from |-> p, to |-> q, call |-> c, try |-> try[p][c]]

\* sync(conn): one request; the caller blocks until it is answered or fails.
SyncSend(p, c, q) ==
  /\ pc[p][c] = "sync" /\ Target(p, c, q)
  /\ requests' = requests \cup {Rpc(p, q, c)}
  /\ Goto(p, c, "call")
  /\ UNCHANGED <<mapVars, inc, replies, todo, try, obj, errors, arrived>>

SyncReturn(p, c, q) ==
  /\ pc[p][c] = "call" /\ Target(p, c, q)
  /\ Rpc(p, q, c) \in replies
  /\ replies' = replies \ {Rpc(p, q, c)}
  /\ todo' = [todo EXCEPT ![p][c] = @ \ {q}]
  /\ try' = [try EXCEPT ![p][c] = 0]
  /\ Goto(p, c, "sync")
  /\ UNCHANGED <<mapVars, requests, inc, obj, errors, arrived>>

\* The request is repeated, or Sync gives up.
AfterFailure == IF CanReconnect THEN {"sync", "failed"} ELSE {"failed"}

\* The RPC fails at the caller: the request may never reach the handler, be
\* under way or have been handled.  sync repeats it if the channel is idle
\* again within 20 seconds, else Sync returns the error without waiting.
SyncFail(p, c, q) ==
  /\ pc[p][c] = "call" /\ Target(p, c, q)
  /\ errors < MaxErrors
  /\ errors' = errors + 1
  /\ requests' \in {requests, requests \ {Rpc(p, q, c)}}
  /\ replies' = replies \ {Rpc(p, q, c)}
  /\ \E label \in AfterFailure :
       /\ Goto(p, c, label)
       /\ try' = [try EXCEPT ![p][c] = IF label = "sync" THEN @ + 1 ELSE @]
  /\ UNCHANGED <<mapVars, inc, todo, obj, arrived>>

-----------------------------------------------------------------------------
(* The Sync handler: increment, under mu_inc                                *)

IncrementLoad(m) ==
  /\ m \in requests /\ inc[m.to] = {}
  /\ requests' = requests \ {m}
  /\ load(m.to, KeyOf[m.call])
  /\ inc' = [inc EXCEPT ![m.to] = {[rpc |-> m, ctr |-> Loaded(m.to, KeyOf[m.call])]}]
  /\ UNCHANGED <<senders, replies, callVars, errors, arrived>>

IncrementStore(p, l) ==
  /\ l \in inc[p]
  /\ countMap' = [countMap EXCEPT ![p][KeyOf[l.rpc.call]] =
                    [count |-> l.ctr.count + 1, obj |-> l.ctr.obj]]
  /\ senders' = senders \cup {[at |-> p, obj |-> l.ctr.obj, rpc |-> l.rpc]}
  /\ inc' = [inc EXCEPT ![p] = {}]
  /\ replies' = replies \cup {l.rpc}
  /\ arrived' = [arrived EXCEPT ![p][l.rpc.call] = @ \cup {l.rpc.from}]
  /\ UNCHANGED <<objs, requests, callVars, errors>>

-----------------------------------------------------------------------------
(* Wait                                                                     *)

InsideWait == {"judge", "recv", "delete"}

WaitLoad(p, c) ==
  /\ pc[p][c] = "sync" /\ todo[p][c] = {}
  /\ load(p, KeyOf[c])
  /\ obj' = [obj EXCEPT ![p][c] = Loaded(p, KeyOf[c]).obj]
  /\ Goto(p, c, "lock")
  /\ UNCHANGED <<senders, rpcVars, todo, try, errors, arrived>>

WaitLock(p, c) ==
  /\ pc[p][c] = "lock"
  /\ \A d \in Calls : obj[p][d] = obj[p][c] => pc[p][d] \notin InsideWait
  /\ Goto(p, c, "judge")
  /\ UNCHANGED <<mapVars, rpcVars, todo, try, obj, errors, arrived>>

\* Mutant: one request fewer is waited for.
WaitJudgeOneLess(p, c) ==
  /\ pc[p][c] = "judge"
  /\ load(p, KeyOf[c])
  /\ Goto(p, c, IF Loaded(p, KeyOf[c]).count + 1 < Cardinality(Others(p))
                THEN "recv" ELSE "delete")
  /\ UNCHANGED <<senders, rpcVars, todo, try, obj, errors, arrived>>

\* fn(load(key).count): true as long as some other party has not been counted.
WaitJudge(p, c) ==
  /\ pc[p][c] = "judge"
  /\ load(p, KeyOf[c])
  /\ Goto(p, c, IF Loaded(p, KeyOf[c]).count < Cardinality(Others(p))
                THEN "recv" ELSE "delete")
  /\ UNCHANGED <<senders, rpcVars, todo, try, obj, errors, arrived>>

\* Mutant: a closed channel, in a loop that does not judge again.
WaitRecvClosed(p, c) ==
  /\ pc[p][c] = "recv"
  /\ \E s \in senders : s.at = p /\ s.obj = obj[p][c]
  /\ UNCHANGED vars

\* <-mp.ch, from the channel of the counter that was loaded first.
WaitRecv(p, c) ==
  /\ pc[p][c] = "recv"
  /\ \E s \in senders :
       /\ s.at = p /\ s.obj = obj[p][c]
       /\ senders' = senders \ {s}
  /\ Goto(p, c, "judge")
  /\ UNCHANGED <<countMap, objs, rpcVars, todo, try, obj, errors, arrived>>

\* count_map.Delete(key), and the deferred unlock.
WaitDelete(p, c) ==
  /\ pc[p][c] = "delete"
  /\ countMap' = [countMap EXCEPT ![p][KeyOf[c]] = Absent]
  /\ Goto(p, c, "done")
  /\ UNCHANGED <<objs, senders, rpcVars, todo, try, obj, errors, arrived>>

-----------------------------------------------------------------------------
Step(p, c) ==
  \/ SyncCall(p, c)
  \/ \E q \in Parties : SyncSend(p, c, q) \/ SyncReturn(p, c, q)
  \/ WaitLoad(p, c) \/ WaitLock(p, c) \/ WaitJudge(p, c)
  \/ WaitRecv(p, c) \/ WaitDelete(p, c)

Handle(p) ==
  \/ \E m \in requests : m.to = p /\ IncrementLoad(m)
  \/ \E l \in inc[p] : IncrementStore(p, l)

Finished ==
  /\ \A p \in Parties, c \in Calls : pc[p][c] \in {"done", "failed"}
  /\ UNCHANGED vars

Next ==
  \/ \E p \in Parties, c \in Calls : Step(p, c)
  \/ \E p \in Parties, c \in Calls, q \in Parties : SyncFail(p, c, q)
  \/ \E p \in Parties : Handle(p)
  \/ Finished

Spec == Init /\ [][Next]_vars

\* Goroutines that can run do run; RPC failures are never due.
FairSpec ==
  /\ Spec
  /\ \A p \in Parties, c \in Calls : WF_vars(Step(p, c))
  /\ \A p \in Parties : WF_vars(Handle(p))

-----------------------------------------------------------------------------
\* What Sync is for: a party leaves it only after every party has come to it,
\* so what each did before its call is over.
NobodyLeavesEarly ==
  \A p \in Parties, c \in Calls :
    pc[p][c] \in {"delete", "done"} => \A q \in Parties : pc[q][c] # "idle"

\* Where the abstract barrier sees a call.
Place(label) ==
  CASE label = "idle" -> "before"
    [] label \in {"delete", "done"} -> "after"
    [] label = "failed" -> "aborted"
    [] OTHER -> "inside"

\* Sync implements the abstract barrier.
Abstract == INSTANCE Barrier
              WITH at <- [p \in Parties |-> [c \in Calls |-> Place(pc[p][c])]]
BarrierSpec == Abstract!Spec

\* Once every party has called Sync, every call returns, unless some party
\* gives up: a Wait is judged again after the last increment, whichever of load,
\* Store and Delete fell between its own steps.
SyncReturns ==
  \A c \in Calls :
    (\A p \in Parties : pc[p][c] # "idle")
      ~> \/ \A p \in Parties : pc[p][c] = "done"
         \/ \E p \in Parties : pc[p][c] = "failed"

-----------------------------------------------------------------------------
(* Why nobody leaves early, if no two calls share a key and no request is   *)
(* repeated: the counter of a key counts distinct parties.                  *)

KeysDistinct == \A c, d \in Calls : KeyOf[c] = KeyOf[d] => c = d

\* p's request to q for c has not been made.
Unsent(p, q, c) ==
  /\ p \notin arrived[q][c]
  /\ \A m \in requests : ~(m.from = p /\ m.to = q /\ m.call = c)
  /\ \A l \in inc[q] : ~(l.rpc.from = p /\ l.rpc.call = c)

\* A request has one sender, which is past its call, and is not counted yet.
Uncounted(m) ==
  /\ m.try = 0 /\ m.from # m.to
  /\ pc[m.from][m.call] # "idle"
  /\ m.from \notin arrived[m.to][m.call]

RequestsInv ==
  \A m \in requests : Uncounted(m) /\ \A l \in inc[m.to] : l.rpc # m

\* mu_inc admits one increment, and its loaded count is still the current one.
IncInv ==
  \A q \in Parties : \A l \in inc[q] :
    /\ l.rpc.to = q /\ Uncounted(l.rpc)
    /\ \A n \in inc[q] : n = l
    /\ l.ctr.count = countMap[q][KeyOf[l.rpc.call]].count

\* A call has not yet sent to the parties after its current target.
TodoInv ==
  \A p \in Parties, c \in Calls :
    /\ try[p][c] = 0
    /\ p \notin todo[p][c]
    /\ \A q \in todo[p][c] :
         \/ pc[p][c] = "sync"
         \/ pc[p][c] = "call" /\ \E r \in todo[p][c] : r < q
         => Unsent(p, q, c)

ArrivedInv ==
  \A p \in Parties, c \in Calls :
    /\ \A q \in arrived[p][c] : q # p /\ pc[q][c] # "idle"
    /\ pc[p][c] # "done" => countMap[p][KeyOf[c]].count = Cardinality(arrived[p][c])
    /\ pc[p][c] \in {"delete", "done"} => arrived[p][c] = Others(p)

\* The inductive invariant.
BarrierInv == TypeOK /\ RequestsInv /\ IncInv /\ TodoInv /\ ArrivedInv
=============================================================================
