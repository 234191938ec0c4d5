------------------------------ MODULE LockSet ------------------------------
(***************************************************************************)
(* The keyed lock of the management container, Utils/lockset.go.  A key    *)
(* owns an unbuffered channel, created the first time any goroutine names  *)
(* it.  A lock is free when a detached goroutine is blocked sending on the *)
(* channel: Lock receives from it, Unlock starts a new sender.  Nothing    *)
(* ties a sender to the holder that started it, so what keeps the lock     *)
(* exclusive is the number of senders, counted here per key.               *)
(***************************************************************************)
EXTENDS Naturals

CONSTANTS Procs,  \* the goroutines that use the lock set
          Keys    \* data ids and job uuids

VARIABLES set,      \* set: the keys with a channel in the sync.Map
          senders,  \* senders[k]: goroutines blocked in ch <- struct{}{}
          waiting,  \* waiting[p]: {k} while p is blocked in <-ch of Lock(k)
          held      \* held[p]: keys p has locked and not unlocked yet

lockVars == <<set, senders, waiting, held>>

TypeOK ==
  /\ set \subseteq Keys
  /\ senders \in [Keys -> Nat]
  /\ waiting \in [Procs -> SUBSET Keys]
  /\ held \in [Procs -> SUBSET Keys]

NewLockSet ==
  /\ set = {}
  /\ senders = [k \in Keys |-> 0]
  /\ waiting = [p \in Procs |-> {}]
  /\ held = [p \in Procs |-> {}]

\* Mutant: the channel is registered and no sender started.
SendersWithoutFirst(k) == senders[k]

\* The senders get_chan(k) leaves behind: LoadOrStore registers the channel,
\* and the goroutine that registered it starts the first sender.
SendersAfterGetChan(k) == IF k \in set THEN senders[k] ELSE senders[k] + 1

\* Lock(k) up to the receive: the channel is fetched, the goroutine blocks.
LockCall(p, k) ==
  /\ waiting[p] = {}
  /\ set' = set \cup {k}
  /\ senders' = [senders EXCEPT ![k] = SendersAfterGetChan(k)]
  /\ waiting' = [waiting EXCEPT ![p] = {k}]
  /\ UNCHANGED held

\* Mutant: the sender sends again and again.
LockReceiveKeep(p, k) ==
  /\ waiting[p] = {k} /\ senders[k] > 0
  /\ waiting' = [waiting EXCEPT ![p] = {}]
  /\ held' = [held EXCEPT ![p] = @ \cup {k}]
  /\ UNCHANGED <<set, senders>>

\* The receive of Lock(k) meets one blocked sender.
LockReceive(p, k) ==
  /\ waiting[p] = {k}
  /\ senders[k] > 0
  /\ senders' = [senders EXCEPT ![k] = @ - 1]
  /\ waiting' = [waiting EXCEPT ![p] = {}]
  /\ held' = [held EXCEPT ![p] = @ \cup {k}]
  /\ UNCHANGED set

\* Mutant: Unlock starts a sender that get_chan has started already.
UnlockTwice(p, k) ==
  /\ waiting[p] = {} /\ k \in held[p]
  /\ set' = set \cup {k}
  /\ senders' = [senders EXCEPT ![k] = @ + 2]
  /\ held' = [held EXCEPT ![p] = @ \ {k}]
  /\ UNCHANGED waiting

\* Unlock(k) never blocks: it starts a sender and returns.  Every caller
\* defers it right after its own Lock(k), so only a holder calls it.
Unlock(p, k) ==
  /\ waiting[p] = {}
  /\ k \in held[p]
  /\ set' = set \cup {k}
  /\ senders' = [senders EXCEPT ![k] = SendersAfterGetChan(k) + 1]
  /\ held' = [held EXCEPT ![p] = @ \ {k}]
  /\ UNCHANGED waiting

Init == NewLockSet

Next == \E p \in Procs, k \in Keys :
          LockCall(p, k) \/ LockReceive(p, k) \/ Unlock(p, k)

Spec == Init /\ [][Next]_lockVars

-----------------------------------------------------------------------------
Holders(k) == {p \in Procs : k \in held[p]}

\* Mutual exclusion: two goroutines never hold the same key, whichever of
\* them registered it and however many senders Unlock has started.
MutualExclusion ==
  \A p, q \in Procs : held[p] \cap held[q] # {} => p = q

\* The inductive strengthening: a registered key has exactly one token, a
\* blocked sender or a holder; an unregistered key has neither.
OneToken ==
  \A k \in Keys :
    /\ senders[k] <= 1
    /\ (k \in set) <=> (senders[k] = 1 \/ \E p \in Procs : k \in held[p])
    /\ senders[k] = 1 => \A p \in Procs : k \notin held[p]

\* The lock set is in order: one holder per key, and one token, whatever the
\* goroutines' calls; the invariant of the proofs.
LockInv == TypeOK /\ MutualExclusion /\ OneToken

\* The lock set implements one mutex per key, the owners being the holders.
Mutex == INSTANCE KeyedMutex WITH owners <- [k \in Keys |-> Holders(k)]
MutexSpec == Mutex!Spec

\* A goroutine blocked on a key that is free is not left behind: some waiter
\* of it gets the key.  Deadlock over several keys is the callers' business.
FairSpec == Spec /\ \A p \in Procs, k \in Keys : WF_lockVars(LockReceive(p, k))

Contended(k) == \E p \in Procs : waiting[p] = {k}
FreeKeyIsTaken ==
  \A k \in Keys : (Contended(k) /\ Holders(k) = {}) ~> (Holders(k) # {})
=============================================================================
