--------------------------- MODULE MC_SyncBarrier ---------------------------
(* Keys of the calls in the runs of SyncBarrier.                             *)
EXTENDS SyncBarrier

DistinctKeys == [c \in Calls |-> c]
=============================================================================
