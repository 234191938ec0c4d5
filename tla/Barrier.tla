------------------------------- MODULE Barrier -------------------------------
(***************************************************************************)
(* What Sync promises SendShares: a call returns normally only once every  *)
(* party has made it.  A call whose requests cannot be sent returns early, *)
(* with an error.                                                          *)
(***************************************************************************)
CONSTANTS Parties, Calls

VARIABLE at  \* at[p][c]: where party p is with respect to call c

Init == at = [p \in Parties |-> [c \in Calls |-> "before"]]

Move(p, c, from, to) ==
  /\ at[p][c] = from
  /\ at' = [at EXCEPT ![p][c] = to]

Enter(p, c) == Move(p, c, "before", "inside")

Leave(p, c) ==
  /\ \A q \in Parties : at[q][c] # "before"
  /\ Move(p, c, "inside", "after")

Abort(p, c) == Move(p, c, "inside", "aborted")

Next == \E p \in Parties, c \in Calls : Enter(p, c) \/ Leave(p, c) \/ Abort(p, c)

Spec == Init /\ [][Next]_at
=============================================================================
