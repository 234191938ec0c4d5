----------------------------- MODULE KeyedMutex -----------------------------
(***************************************************************************)
(* What Utils/lockset.go promises its callers: one mutex per key.  A key   *)
(* has at most one owner, taking it needs it to be free, and only its      *)
(* owner gives it back.                                                    *)
(***************************************************************************)
CONSTANTS Procs, Keys

VARIABLE owners  \* owners[k]: the goroutines that hold k

Init == owners = [k \in Keys |-> {}]

Acquire(p, k) ==
  /\ owners[k] = {}
  /\ owners' = [owners EXCEPT ![k] = {p}]

Release(p, k) ==
  /\ owners[k] = {p}
  /\ owners' = [owners EXCEPT ![k] = {}]

Next == \E p \in Procs, k \in Keys : Acquire(p, k) \/ Release(p, k)

Spec == Init /\ [][Next]_owners
=============================================================================
