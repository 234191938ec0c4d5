------------------------------ MODULE MC_JobRun ------------------------------
(***************************************************************************)
(* A job, and beside it the same job started again or a prediction.        *)
(***************************************************************************)
EXTENDS JobRun

CONSTANTS r1, r2, u1, u2
Abouts == {"ok", "unknown", "noData", "empty"}
Ask(u, k, a) == [uuid |-> u, kind |-> k, about |-> a]
MCTasks ==
  {[r \in Runs |-> IF r = r1 THEN Ask(u1, "job", a) ELSE Ask(u2, "predict", b)] : a, b \in Abouts}
  \cup {[r \in Runs |-> Ask(u1, "job", a)] : a \in {"ok", "empty"}}
=============================================================================
