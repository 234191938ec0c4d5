----------------------------- MODULE SendShares -----------------------------
(***************************************************************************)
(* An upload across the parties: the SendShares handler that every         *)
(* management container runs (Server/LibcToManageContainer/L2m.go), with   *)
(* the database client, the barrier and the deletion requests it sends to  *)
(* the other containers when its own insertion failed.                     *)
(*                                                                         *)
(* The parts it is built from are taken at what they promise: an insertion *)
(* or deletion is one step (requests for one data id do not overlap here), *)
(* and Sync is the barrier of module Barrier.                              *)
(***************************************************************************)
EXTENDS Naturals, FiniteSets, Bags

CONSTANTS Parties,   \* party ids, in the order of PartyList
          Uploads,   \* requests the client sends to every party
          DataOf,    \* DataOf[u]: the data id of u
          Choices,   \* the piece ids the client may choose, functions of uploads
          Failures,  \* what may fail, a subset of FailureKinds
          MaxFaults

\* token: the token authority does not vouch for the token.
\* refused: InsertShares stores nothing and returns an error.
\* applied: InsertShares returns an error although the row was stored (that
\* DbGate may store it, or delete, only later is left to ShareStore).
\* sync: Sync gives up before the others came.
\* request: a deletion request fails for good.
\* delete: the other container cannot delete, and says so in its answer.
\* (That InsertShares may return no error and store nothing is the subject of
\* ShareStore, and left out here.)
FailureKinds == {"token", "refused", "applied", "sync", "request", "delete"}

ASSUME SendAssumption ==
  /\ Parties \subseteq Nat /\ IsFiniteSet(Parties)
  /\ Failures \subseteq FailureKinds /\ MaxFaults \in Nat

DataIDs == {DataOf[u] : u \in Uploads}
Rows == [id : DataIDs, piece : UNION {{c[u] : u \in Uploads} : c \in Choices}]

\* Mutant: party ids counted from 1 where the list counts from 0.
OthersOffByOne(p) == {q + 1 : q \in Parties} \ {p}

Others(p) == Parties \ {p}

VARIABLES
  pieceOf,  \* pieceOf[u]: the piece id of u, the client's choice
  faults,   \* the failures so far, a bag of kinds
  share,    \* share[p]: the share database of party p
  at,       \* at[p][u]: the barrier of upload u
  err,      \* err[p][u]: what InsertShares returned to p's handler
  todo,     \* todo[p][u]: the parties p has yet to ask to delete
  reply     \* reply[p][u]: what p's handler answered the client

vars == <<pieceOf, faults, share, at, err, todo, reply>>

Row(u) == [id |-> DataOf[u], piece |-> pieceOf[u]]

\* Whether failures of these kinds only have happened.
FaultsOnly(kinds) == BagToSet(faults) \subseteq kinds

\* A failure of a kind happens.
Fault(kind) ==
  /\ kind \in Failures /\ BagCardinality(faults) < MaxFaults
  /\ faults' = faults (+) SetToBag({kind})

barrier == INSTANCE Barrier WITH Calls <- Uploads

TypeOK ==
  /\ pieceOf \in Choices /\ IsABag(faults) /\ FaultsOnly(Failures)
  /\ share \in [Parties -> SUBSET Rows]
  /\ at \in [Parties -> [Uploads -> {"before", "inside", "after", "aborted"}]]
  /\ err \in [Parties -> [Uploads -> {"none", "duplicate", "other"}]]
  /\ todo \in [Parties -> [Uploads -> SUBSET Parties]]
  /\ reply \in [Parties -> [Uploads -> {"none", "ok", "error"}]]

Init ==
  /\ pieceOf \in Choices /\ faults = EmptyBag
  /\ share = [p \in Parties |-> {}]
  /\ barrier!Init
  /\ err = [p \in Parties |-> [u \in Uploads |-> "none"]]
  /\ todo = [p \in Parties |-> [u \in Uploads |-> {}]]
  /\ reply = [p \in Parties |-> [u \in Uploads |-> "none"]]

Over(u) == \A p \in Parties : reply[p][u] # "none"
Begun(u) == \E p \in Parties : at[p][u] # "before" \/ reply[p][u] # "none"
SameKey(u, v) == Row(u) = Row(v)

\* The client repeats an upload only after every party has answered it.
MayBegin(u) == \A v \in Uploads \ {u} : SameKey(u, v) /\ Begun(v) => Over(v)

\* What InsertShares does to party p's database, and the error it returns: none
\* if it stored the row, or one if the row is there or if it failed, having
\* stored the row or not.
InsertShares(p, u) ==
  \/ /\ Row(u) \in share[p]
     /\ err' = [err EXCEPT ![p][u] = "duplicate"]
     /\ UNCHANGED <<share, faults>>
  \/ /\ Row(u) \notin share[p]
     /\ share' = [share EXCEPT ![p] = @ \cup {Row(u)}]
     /\ \/ UNCHANGED <<err, faults>>
        \/ Fault("applied") /\ err' = [err EXCEPT ![p][u] = "other"]
  \/ /\ Row(u) \notin share[p] /\ Fault("refused")
     /\ err' = [err EXCEPT ![p][u] = "other"]
     /\ UNCHANGED share

\* The handler of a container whose token authority says no inserts nothing and
\* does not come to the barrier either.
Unauthorized(p, u) ==
  /\ MayBegin(u) /\ at[p][u] = "before" /\ reply[p][u] = "none"
  /\ Fault("token")
  /\ reply' = [reply EXCEPT ![p][u] = "error"]
  /\ UNCHANGED <<pieceOf, share, at, err, todo>>

\* The handler inserts, keeps the error and calls Sync.
Insert(p, u) ==
  /\ MayBegin(u) /\ reply[p][u] = "none"
  /\ barrier!Enter(p, u)
  /\ InsertShares(p, u)
  /\ UNCHANGED <<pieceOf, todo, reply>>

\* After Sync, whose own error is not looked at, the handler answers ok or
\* goes on to ask the other parties to delete the data.
Proceed(p, u) ==
  /\ IF err[p][u] = "none"
     THEN reply' = [reply EXCEPT ![p][u] = "ok"] /\ UNCHANGED todo
     ELSE todo' = [todo EXCEPT ![p][u] = Others(p)] /\ UNCHANGED reply
  /\ UNCHANGED <<pieceOf, share, err>>

\* Mutant: Sync does not wait.
SyncedEarly(p, u) == barrier!Move(p, u, "inside", "after") /\ Proceed(p, u) /\ UNCHANGED faults

Synced(p, u) == barrier!Leave(p, u) /\ Proceed(p, u) /\ UNCHANGED faults
SyncError(p, u) == barrier!Abort(p, u) /\ Proceed(p, u) /\ Fault("sync")

RollingBack(p, u) ==
  at[p][u] \in {"after", "aborted"} /\ err[p][u] # "none" /\ reply[p][u] = "none"

\* Mutant: a deletion is repeated for ever.
DeleteAtForever(p, u, q) ==
  /\ RollingBack(p, u)
  /\ q \in todo[p][u] /\ \A r \in todo[p][u] : q <= r
  /\ share' = [share EXCEPT ![q] = {x \in @ : x.id # DataOf[u]}]
  /\ UNCHANGED <<pieceOf, faults, at, err, todo, reply>>

\* DeleteShares of the m2m client: one party after the other.  The handler of
\* the other party deletes every piece of the data id; when it cannot, or finds
\* none, its answer is still no error to the caller, who goes on.
DeleteAt(p, u, q) ==
  /\ RollingBack(p, u)
  /\ q \in todo[p][u] /\ \A r \in todo[p][u] : q <= r
  /\ \/ share' = [share EXCEPT ![q] = {x \in @ : x.id # DataOf[u]}] /\ UNCHANGED faults
     \/ Fault("delete") /\ UNCHANGED share
  /\ todo' = [todo EXCEPT ![p][u] = @ \ {q}]
  /\ UNCHANGED <<pieceOf, at, err, reply>>

\* A request that fails for good ends the series; the error is not looked at.
DeleteFailed(p, u) ==
  /\ RollingBack(p, u) /\ todo[p][u] # {}
  /\ Fault("request")
  /\ todo' = [todo EXCEPT ![p][u] = {}]
  /\ UNCHANGED <<pieceOf, share, at, err, reply>>

\* Mutant: the handler answers ok once it has taken the data back.
ReplyOk(p, u) ==
  /\ RollingBack(p, u) /\ todo[p][u] = {}
  /\ reply' = [reply EXCEPT ![p][u] = "ok"]
  /\ UNCHANGED <<pieceOf, faults, share, at, err, todo>>

ReplyError(p, u) ==
  /\ RollingBack(p, u) /\ todo[p][u] = {}
  /\ reply' = [reply EXCEPT ![p][u] = "error"]
  /\ UNCHANGED <<pieceOf, faults, share, at, err, todo>>

Step(p, u) ==
  \/ Insert(p, u) \/ Synced(p, u)
  \/ (\E q \in Parties : DeleteAt(p, u, q)) \/ ReplyError(p, u)

Finished == (\A u \in Uploads : Over(u)) /\ UNCHANGED vars

Next ==
  \/ \E p \in Parties, u \in Uploads :
       Step(p, u) \/ Unauthorized(p, u) \/ SyncError(p, u) \/ DeleteFailed(p, u)
  \/ Finished

Spec == Init /\ [][Next]_vars

\* The client sends an upload to every party, and handlers that can run do.
FairSpec == Spec /\ \A p \in Parties, u \in Uploads : WF_vars(Step(p, u))

-----------------------------------------------------------------------------
RowsOf(p, d) == {x \in share[p] : x.id = d}
Quiet(d) == \A u \in Uploads : DataOf[u] = d => ~Begun(u) \/ Over(u)

OnePiece(d) ==
  \A u, v \in Uploads : DataOf[u] = d /\ DataOf[v] = d => pieceOf[u] = pieceOf[v]
NoError(d) == \A p \in Parties, u \in Uploads : DataOf[u] = d => reply[p][u] # "error"

\* When no upload of a data id is under way, every party holds the same pieces
\* of it if no party has reported an error, whatever failed and however many
\* pieces there are.  If one has, they still do when insertions were refused
\* and nothing else failed, and the id has one piece: a party whose insertion
\* failed takes the others back, and the barrier keeps its deletion behind
\* their insertions.  With several pieces they need not, even if the uploads
\* come one after the other: the deletion takes every piece at the others, and
\* the party whose insertion of one was refused keeps those it had.
AllOrNothing ==
  \A d \in DataIDs :
    Quiet(d) /\ (NoError(d) \/ (FaultsOnly({"refused"}) /\ OnePiece(d)))
    => \A p, q \in Parties : RowsOf(p, d) = RowsOf(q, d)

\* A row that was acknowledged and is gone is reported: whatever fails, a
\* party's row disappears only when another party answers an upload of the same
\* data id with an error.
LostRowIsReported ==
  \A p \in Parties, u \in Uploads :
    (/\ Quiet(DataOf[u])
     /\ reply[p][u] = "ok" /\ Row(u) \notin share[p])
    => \E q \in Others(p), v \in Uploads :
         DataOf[v] = DataOf[u] /\ reply[q][v] = "error"

\* Every handler answers, once the client has sent the upload to every party,
\* unless a container refused the token or gave the barrier up: the others wait
\* for it then.
UploadsReturn ==
  \A u \in Uploads :
    Begun(u) ~> Over(u) \/ ~ FaultsOnly(FailureKinds \ {"token", "sync"})
=============================================================================
