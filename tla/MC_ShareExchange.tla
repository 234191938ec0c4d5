-------------------------- MODULE MC_ShareExchange --------------------------
(* Job ids in the runs of ShareExchange.                                     *)
EXTENDS ShareExchange

DistinctIds == [j \in Jobs |-> j]
=============================================================================
