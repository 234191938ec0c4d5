------------------------- MODULE MC_TransactionQueue -------------------------
(* Who calls what in the run of TransactionQueue.                            *)
EXTENDS TransactionQueue

CONSTANT c1  \* the thread that pops

\* As in JobManager: one thread pops, the others push.
OneConsumer == [t \in Threads |-> IF t = c1 THEN {"pop"} ELSE {"push"}]
=============================================================================
