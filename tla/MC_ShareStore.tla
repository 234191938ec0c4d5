---------------------------- MODULE MC_ShareStore ----------------------------
(* The operations asked of one container in the run of ShareStore.           *)
EXTENDS ShareStore, TLC

CONSTANTS a, b,  \* data ids
          j      \* a job uuid

Insert(d, json) ==
  [op |-> "InsertShares", ids |-> <<d>>, piece |-> 1, json |-> json]
Delete(ids) == [op |-> "DeleteShares", ids |-> ids]

\* Every operation: uploads of one piece under two ids, one of them with data
\* that is no JSON, deletions that name the ids in both orders or one id twice,
\* the readers, and the operations on the result of one job.
AllOps ==
  {Insert(a, TRUE), Insert(a, FALSE), Insert(b, TRUE),
   Delete(<<a>>), Delete(<<a, b>>), Delete(<<b, a>>), Delete(<<a, a>>),
   [op |-> "GetSchema", ids |-> <<a>>], [op |-> "GetDataList", ids |-> << >>],
   [op |-> "InsertModelParams", ids |-> <<j>>, json |-> TRUE],
   [op |-> "GetComputationResult", ids |-> <<j>>]}

Symmetry == Permutations(Reqs)
=============================================================================
