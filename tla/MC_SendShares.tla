---------------------------- MODULE MC_SendShares ----------------------------
(* Uploads of one data id.                                                   *)
EXTENDS SendShares

CONSTANT u2  \* the second of two uploads

OneData == [u \in Uploads |-> "a"]

\* The second upload repeats the first, or brings another piece.
RepeatedOrNot == {[u \in Uploads |-> 1], [u \in Uploads |-> IF u = u2 THEN 2 ELSE 1]}
=============================================================================
