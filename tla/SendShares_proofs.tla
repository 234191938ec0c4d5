-------------------------- MODULE SendShares_proofs --------------------------
(***************************************************************************)
(* Proofs about uploads across the parties, for any parties and uploads,   *)
(* any choice of piece ids and any number of failures.                     *)
(***************************************************************************)
EXTENDS SendShares, TLAPS

-----------------------------------------------------------------------------
(* A handler, whatever fails                                                *)

Left(p, u) == at[p][u] \in {"after", "aborted"}

\* A handler answers ok after Sync exactly when its insertion had no error; it
\* answers error when it has nobody left to ask, or had no valid token.
HandlerOK(p, u) ==
  /\ at[p][u] = "before" => err[p][u] = "none" /\ reply[p][u] # "ok"
  /\ at[p][u] = "inside" => reply[p][u] = "none"
  /\ Left(p, u) => (err[p][u] = "none" <=> reply[p][u] = "ok")
  /\ todo[p][u] \subseteq Others(p)
  /\ todo[p][u] # {} => RollingBack(p, u)

\* Every row was uploaded to its party.
RowsFrom ==
  \A p \in Parties : \A x \in share[p] :
    \E u \in Uploads : x = Row(u) /\ at[p][u] # "before"

\* Another party takes the rows of a data id back.
TakenBack(p, d) ==
  \E q \in Others(p), v \in Uploads : DataOf[v] = d /\ Left(q, v) /\ err[q][v] # "none"

\* A row that was stored is there, or was taken back.
RowsKept ==
  \A p \in Parties, u \in Uploads :
    at[p][u] # "before" /\ err[p][u] = "none" /\ Row(u) \notin share[p] => TakenBack(p, DataOf[u])

SendInv ==
  /\ TypeOK
  /\ \A p \in Parties, u \in Uploads : HandlerOK(p, u)
  /\ RowsFrom /\ RowsKept

-----------------------------------------------------------------------------
(* Facts the steps share                                                    *)

LEMMA EmptyIsBag == IsABag(EmptyBag) /\ BagToSet(EmptyBag) = {}
BY DEF IsABag, BagToSet, EmptyBag, SetToBag

\* One more failure is a bag again, and adds its kind.
LEMMA FaultBag ==
  ASSUME IsABag(faults), NEW kind, Fault(kind)
  PROVE  IsABag(faults') /\ BagToSet(faults') = BagToSet(faults) \cup {kind} /\ kind \in Failures
<1>1. \A b, k : IsABag(b) => /\ IsABag(b (+) SetToBag({k}))
                             /\ BagToSet(b (+) SetToBag({k})) = BagToSet(b) \cup {k}
  BY DEF IsABag, BagToSet, SetToBag, (+)
<1> QED BY <1>1 DEF Fault

LEMMA RowFacts ==
  ASSUME TypeOK, NEW u \in Uploads
  PROVE  Row(u) \in Rows /\ Row(u).id = DataOf[u] /\ Row(u).piece = pieceOf[u]
BY DEF TypeOK, Row, Rows, DataIDs

\* What another party has taken back stays taken back.
Lasting ==
  \A q \in Parties, v \in Uploads :
    Left(q, v) /\ err[q][v] # "none" => Left(q, v)' /\ err'[q][v] # "none"

LEMMA TakenBackLasts ==
  ASSUME Lasting, NEW p \in Parties, NEW d, TakenBack(p, d)
  PROVE  TakenBack(p, d)'
BY DEF Lasting, TakenBack, Others

LEMMA SendInvInit == Init => SendInv
<1> SUFFICES ASSUME Init PROVE SendInv
  OBVIOUS
<1> USE EmptyIsBag DEF Init, barrier!Init
<1>1. TypeOK
  BY DEF TypeOK, FaultsOnly
<1>2. \A p \in Parties, u \in Uploads : HandlerOK(p, u)
  BY DEF HandlerOK, Left
<1>3. RowsFrom /\ RowsKept
  BY DEF RowsFrom, RowsKept
<1> QED BY <1>1, <1>2, <1>3 DEF SendInv

-----------------------------------------------------------------------------
(* One lemma per action                                                     *)

LEMMA UnauthorizedKeepsInv ==
  ASSUME SendInv, NEW p \in Parties, NEW u \in Uploads, Unauthorized(p, u)
  PROVE  SendInv'
<1> USE DEF Unauthorized
<1>1. IsABag(faults') /\ BagToSet(faults') = BagToSet(faults) \cup {"token"} /\ "token" \in Failures
  BY FaultBag DEF SendInv, TypeOK
<1>2. TypeOK'
  BY <1>1 DEF SendInv, TypeOK, FaultsOnly
<1>3. \A q \in Parties, v \in Uploads : HandlerOK(q, v)'
  BY DEF SendInv, TypeOK, HandlerOK, Left, RollingBack
<1>4. RowsFrom'
  BY DEF SendInv, RowsFrom, Row
<1>5. RowsKept'
  BY DEF SendInv, RowsKept, Row, TakenBack, Left
<1> QED BY <1>2, <1>3, <1>4, <1>5 DEF SendInv

LEMMA InsertKeepsInv ==
  ASSUME SendInv, NEW p \in Parties, NEW u \in Uploads, Insert(p, u)
  PROVE  SendInv'
<1> USE DEF Insert, barrier!Enter, barrier!Move
<1>1. Row(u) \in Rows
  BY RowFacts DEF SendInv
<1>2. IsABag(faults') /\ BagToSet(faults') \subseteq Failures
  <2>1. ASSUME NEW kind, Fault(kind) PROVE IsABag(faults') /\ BagToSet(faults') \subseteq Failures
    BY <2>1, FaultBag DEF SendInv, TypeOK, FaultsOnly
  <2>2. faults' = faults \/ \E kind : Fault(kind)
    BY DEF InsertShares
  <2> QED BY <2>1, <2>2 DEF SendInv, TypeOK, FaultsOnly
<1>3. share' \in [Parties -> SUBSET Rows]
  <2>1. share' = share \/ share' = [share EXCEPT ![p] = @ \cup {Row(u)}]
    BY DEF InsertShares
  <2> QED BY <1>1, <2>1 DEF SendInv, TypeOK
<1>4. \E e \in {"none", "duplicate", "other"} : err' = [err EXCEPT ![p][u] = e]
  <2>1. err[p][u] = "none"
    BY DEF SendInv, HandlerOK
  <2>2. err = [err EXCEPT ![p][u] = "none"]
    BY <2>1 DEF SendInv, TypeOK
  <2> QED BY <2>2 DEF InsertShares
<1>5. TypeOK'
  BY <1>2, <1>3, <1>4 DEF SendInv, TypeOK, FaultsOnly
<1>6. \A q \in Parties, v \in Uploads : HandlerOK(q, v)'
  BY <1>4 DEF SendInv, TypeOK, HandlerOK, Left, RollingBack
<1>7. \A q \in Parties : share[q] \subseteq share'[q] /\ share'[q] \subseteq share[q] \cup {Row(u)}
  BY DEF InsertShares, SendInv, TypeOK
<1>8. \A v \in Uploads : Row(v)' = Row(v)
  BY DEF Row
<1>9. RowsFrom'
  <2> SUFFICES ASSUME NEW q \in Parties, NEW x \in share'[q]
               PROVE  \E v \in Uploads : x = Row(v) /\ at'[q][v] # "before"
    BY <1>8 DEF RowsFrom
  <2>1. /\ \A v \in Uploads : at[q][v] # "before" => at'[q][v] # "before"
        /\ at'[p][u] # "before"
    BY DEF SendInv, TypeOK
  <2>2. CASE x \in share[q]
    BY <2>1, <2>2 DEF SendInv, RowsFrom
  <2>3. CASE x \notin share[q]
    <3>1. q = p
      BY <2>3 DEF InsertShares, SendInv, TypeOK
    <3> QED BY <1>7, <2>1, <2>3, <3>1
  <2> QED BY <2>2, <2>3
<1>10. Lasting
  BY <1>4 DEF Lasting, SendInv, TypeOK, Left
<1>11. err'[p][u] = "none" => Row(u) \in share'[p]
  BY DEF InsertShares, SendInv, TypeOK
<1>12. RowsKept'
  <2> SUFFICES ASSUME NEW q \in Parties, NEW v \in Uploads,
                      at'[q][v] # "before", err'[q][v] = "none", Row(v)' \notin share'[q]
               PROVE  TakenBack(q, DataOf[v])'
    BY DEF RowsKept
  <2>1. ~(q = p /\ v = u)
    BY <1>8, <1>11
  <2>2. at[q][v] # "before" /\ err[q][v] = "none" /\ Row(v) \notin share[q]
    BY <2>1, <1>4, <1>7, <1>8 DEF SendInv, TypeOK
  <2>3. TakenBack(q, DataOf[v])
    BY <2>2 DEF SendInv, RowsKept
  <2> QED BY <2>3, <1>10, TakenBackLasts
<1> QED BY <1>5, <1>6, <1>9, <1>12 DEF SendInv

\* A handler leaves the barrier, in order or not.
LEMMA ProceedKeepsInv ==
  ASSUME SendInv, NEW p \in Parties, NEW u \in Uploads, NEW to \in {"after", "aborted"},
         barrier!Move(p, u, "inside", to), Proceed(p, u),
         IsABag(faults'), FaultsOnly(Failures)'
  PROVE  SendInv'
<1> USE DEF barrier!Move, Proceed
<1>1. TypeOK'
  <2>1. at' \in [Parties -> [Uploads -> {"before", "inside", "after", "aborted"}]]
    BY DEF SendInv, TypeOK
  <2>2. todo' \in [Parties -> [Uploads -> SUBSET Parties]]
    <3>1. todo \in [Parties -> [Uploads -> SUBSET Parties]] /\ Others(p) \subseteq Parties
      BY DEF SendInv, TypeOK, Others
    <3>2. todo' = todo \/ todo' = [todo EXCEPT ![p][u] = Others(p)]
      OBVIOUS
    <3> HIDE DEF Proceed, barrier!Move
    <3> QED BY <3>1, <3>2
  <2>3. reply' \in [Parties -> [Uploads -> {"none", "ok", "error"}]]
    <3>1. reply \in [Parties -> [Uploads -> {"none", "ok", "error"}]]
      BY DEF SendInv, TypeOK
    <3>2. reply' = reply \/ reply' = [reply EXCEPT ![p][u] = "ok"]
      OBVIOUS
    <3> HIDE DEF Proceed, barrier!Move
    <3> QED BY <3>1, <3>2
  <2> QED BY <2>1, <2>2, <2>3 DEF SendInv, TypeOK
<1>2. \A q \in Parties, v \in Uploads : HandlerOK(q, v)'
  BY DEF SendInv, TypeOK, HandlerOK, Left, RollingBack, Others
<1>3. RowsFrom'
  <2>1. \A q \in Parties, v \in Uploads : at[q][v] # "before" => at'[q][v] # "before"
    BY DEF SendInv, TypeOK
  <2> QED BY <2>1 DEF SendInv, RowsFrom, Row
<1>4. Lasting
  BY DEF Lasting, SendInv, TypeOK, Left
<1>5. RowsKept'
  <2> SUFFICES ASSUME NEW q \in Parties, NEW v \in Uploads,
                      at'[q][v] # "before", err'[q][v] = "none", Row(v)' \notin share'[q]
               PROVE  TakenBack(q, DataOf[v])'
    BY DEF RowsKept
  <2>1. at[q][v] # "before" /\ err[q][v] = "none" /\ Row(v) \notin share[q]
    BY DEF SendInv, TypeOK, Row
  <2>2. TakenBack(q, DataOf[v])
    BY <2>1 DEF SendInv, RowsKept
  <2> QED BY <2>2, <1>4, TakenBackLasts
<1> QED BY <1>1, <1>2, <1>3, <1>5 DEF SendInv

LEMMA SyncedKeepsInv ==
  ASSUME SendInv, NEW p \in Parties, NEW u \in Uploads, Synced(p, u)
  PROVE  SendInv'
<1>1. IsABag(faults') /\ FaultsOnly(Failures)'
  BY DEF Synced, SendInv, TypeOK, FaultsOnly
<1> QED BY <1>1, ProceedKeepsInv DEF Synced, barrier!Leave

LEMMA SyncErrorKeepsInv ==
  ASSUME SendInv, NEW p \in Parties, NEW u \in Uploads, SyncError(p, u)
  PROVE  SendInv'
<1>1. IsABag(faults') /\ FaultsOnly(Failures)'
  BY FaultBag DEF SyncError, SendInv, TypeOK, FaultsOnly
<1> QED BY <1>1, ProceedKeepsInv DEF SyncError, barrier!Abort

LEMMA DeleteAtKeepsInv ==
  ASSUME SendInv, NEW p \in Parties, NEW u \in Uploads, NEW q \in Parties, DeleteAt(p, u, q)
  PROVE  SendInv'
<1> USE DEF DeleteAt
<1>1. IsABag(faults') /\ FaultsOnly(Failures)'
  BY FaultBag DEF SendInv, TypeOK, FaultsOnly
<1>2. share' \in [Parties -> SUBSET Rows]
  BY DEF SendInv, TypeOK
<1>3. TypeOK'
  BY <1>1, <1>2 DEF SendInv, TypeOK
<1>4. \A r \in Parties, v \in Uploads : HandlerOK(r, v)'
  BY DEF SendInv, TypeOK, HandlerOK, Left, RollingBack
<1>5. \A r \in Parties : /\ share'[r] \subseteq share[r]
                         /\ \A x \in share[r] \ share'[r] : r = q /\ x.id = DataOf[u]
  BY DEF SendInv, TypeOK
<1>6. RowsFrom'
  BY <1>5 DEF SendInv, RowsFrom, Row
<1>7. Lasting
  BY DEF Lasting, Left
<1>8. TakenBack(q, DataOf[u])
  BY DEF SendInv, HandlerOK, RollingBack, Left, TakenBack, Others
<1>9. RowsKept'
  <2> SUFFICES ASSUME NEW r \in Parties, NEW v \in Uploads,
                      at'[r][v] # "before", err'[r][v] = "none", Row(v)' \notin share'[r]
               PROVE  TakenBack(r, DataOf[v])'
    BY DEF RowsKept
  <2>1. Row(v)' = Row(v) /\ Row(v).id = DataOf[v]
    BY DEF Row
  <2>2. TakenBack(r, DataOf[v])
    <3>1. CASE Row(v) \in share[r]
      BY <3>1, <2>1, <1>5, <1>8
    <3>2. CASE Row(v) \notin share[r]
      BY <3>2 DEF SendInv, RowsKept
    <3> QED BY <3>1, <3>2
  <2> QED BY <2>2, <1>7, TakenBackLasts
<1> QED BY <1>3, <1>4, <1>6, <1>9 DEF SendInv

LEMMA DeleteFailedKeepsInv ==
  ASSUME SendInv, NEW p \in Parties, NEW u \in Uploads, DeleteFailed(p, u)
  PROVE  SendInv'
<1> USE DEF DeleteFailed
<1>1. IsABag(faults') /\ FaultsOnly(Failures)'
  BY FaultBag DEF SendInv, TypeOK, FaultsOnly
<1>2. TypeOK'
  BY <1>1 DEF SendInv, TypeOK
<1>3. \A q \in Parties, v \in Uploads : HandlerOK(q, v)'
  BY DEF SendInv, TypeOK, HandlerOK, Left, RollingBack
<1>4. RowsFrom' /\ RowsKept'
  BY DEF SendInv, RowsFrom, RowsKept, Row, TakenBack, Left
<1> QED BY <1>2, <1>3, <1>4 DEF SendInv

LEMMA ReplyErrorKeepsInv ==
  ASSUME SendInv, NEW p \in Parties, NEW u \in Uploads, ReplyError(p, u)
  PROVE  SendInv'
<1> USE DEF ReplyError
<1>1. TypeOK'
  BY DEF SendInv, TypeOK, FaultsOnly
<1>2. \A q \in Parties, v \in Uploads : HandlerOK(q, v)'
  BY DEF SendInv, TypeOK, HandlerOK, Left, RollingBack
<1>3. RowsFrom' /\ RowsKept'
  BY DEF SendInv, RowsFrom, RowsKept, Row, TakenBack, Left
<1> QED BY <1>1, <1>2, <1>3 DEF SendInv

LEMMA SendInvStep == SendInv /\ [Next]_vars => SendInv'
<1> SUFFICES ASSUME SendInv, [Next]_vars PROVE SendInv'
  OBVIOUS
<1>1. CASE UNCHANGED vars
  BY <1>1 DEF vars, SendInv, TypeOK, FaultsOnly, HandlerOK, Left, RollingBack,
              RowsFrom, RowsKept, Row, TakenBack
<1>2. ASSUME NEW p \in Parties, NEW u \in Uploads,
             Step(p, u) \/ Unauthorized(p, u) \/ SyncError(p, u) \/ DeleteFailed(p, u)
      PROVE  SendInv'
  BY <1>2, UnauthorizedKeepsInv, InsertKeepsInv, SyncedKeepsInv, SyncErrorKeepsInv,
     DeleteAtKeepsInv, DeleteFailedKeepsInv, ReplyErrorKeepsInv DEF Step
<1> QED BY <1>1, <1>2 DEF Next, Finished

\* Type correctness of uploads across the parties, for every failure.
THEOREM TypesHold == Spec => []TypeOK
<1>1. SendInv => TypeOK
  BY DEF SendInv
<1> QED BY <1>1, SendInvInit, SendInvStep, PTL DEF Spec

LEMMA SendInvariant == Spec => []SendInv
BY SendInvInit, SendInvStep, PTL DEF Spec

LEMMA LostRowFacts == SendInv => LostRowIsReported
<1> SUFFICES ASSUME SendInv, NEW p \in Parties, NEW u \in Uploads,
                    Quiet(DataOf[u]), reply[p][u] = "ok", Row(u) \notin share[p]
             PROVE  \E q \in Others(p), v \in Uploads :
                      DataOf[v] = DataOf[u] /\ reply[q][v] = "error"
  BY DEF LostRowIsReported
<1>1. HandlerOK(p, u) /\ at[p][u] \in {"before", "inside", "after", "aborted"}
  BY DEF SendInv, TypeOK
<1>2. at[p][u] # "before" /\ err[p][u] = "none"
  BY <1>1 DEF HandlerOK, Left
<1>3. TakenBack(p, DataOf[u])
  BY <1>2 DEF SendInv, RowsKept
<1>4. PICK q \in Others(p), v \in Uploads :
        DataOf[v] = DataOf[u] /\ Left(q, v) /\ err[q][v] # "none"
  BY <1>3 DEF TakenBack
<1>5. q \in Parties /\ HandlerOK(q, v) /\ reply[q][v] \in {"none", "ok", "error"}
  BY <1>4 DEF SendInv, TypeOK, Others
<1>6. reply[q][v] # "none"
  BY <1>4, <1>5 DEF Quiet, Begun, Over, Left
<1>7. reply[q][v] # "ok"
  BY <1>4, <1>5 DEF HandlerOK
<1> QED BY <1>4, <1>5, <1>6, <1>7

\* Whatever fails, a row that was acknowledged and is gone was taken back by
\* another party, and that party answers the client with an error.
THEOREM LostRowsAreReported == Spec => []LostRowIsReported
BY SendInvariant, LostRowFacts, PTL

-----------------------------------------------------------------------------
(* Uploads of one data id, when insertions are refused and nothing else     *)
(* fails, and all bring the same piece                                      *)

Of(d) == {u \in Uploads : DataOf[u] = d}
Clean(d) ==
  /\ FaultsOnly({"refused"}) /\ OnePiece(d)

Has(p, u) == Row(u) \in share[p]
Even(u) == \A p, q \in Parties : Has(p, u) <=> Has(q, u)
Active(u) == Begun(u) /\ ~ Over(u)

\* The parties that have not inserted yet are where all of them were; those that
\* have agree on whether the row was there already.
Entering(u) ==
  \A p, q \in Parties :
    /\ at[p][u] = "before" /\ at[q][u] = "before" => (Has(p, u) <=> Has(q, u))
    /\ at[p][u] = "after" => at[q][u] # "before"
    /\ at[p][u] # "before" /\ at[q][u] = "before" => (err[p][u] = "duplicate" <=> Has(q, u))
    /\ at[p][u] # "before" /\ at[q][u] # "before" =>
         (err[p][u] = "duplicate" <=> err[q][u] = "duplicate")

\* A refused row is not there, a party that was asked to delete has none, and a
\* row that is missing has somebody who takes it back.
Leaving(u) ==
  \A p \in Parties :
    /\ err[p][u] = "other" => ~ Has(p, u)
    /\ err[p][u] # "none" /\ at[p][u] = "after" =>
         \A q \in Others(p) \ todo[p][u] : ~ Has(q, u)
    /\ at[p][u] # "before" /\ err[p][u] # "other" /\ ~ Has(p, u) =>
         \E q \in Others(p) : err[q][u] # "none"

\* Every handler of the upload goes through the barrier.
InOrder(u) ==
  \A p \in Parties : at[p][u] # "aborted" /\ (reply[p][u] # "none" => at[p][u] = "after")

CleanInv(d) ==
  /\ \A u \in Of(d) : InOrder(u)
  /\ \A u, v \in Of(d) : Active(u) /\ Begun(v) /\ u # v => Over(v)
  /\ \A u \in Of(d) : Active(u) => Entering(u) /\ Leaving(u)
  /\ Quiet(d) => \A u \in Of(d) : Even(u)

UploadInv == \A d \in DataIDs : Clean(d) => CleanInv(d)

-----------------------------------------------------------------------------
(* What a step of one upload leaves alone                                   *)

StepOf(p, u) == Step(p, u) \/ Unauthorized(p, u) \/ SyncError(p, u) \/ DeleteFailed(p, u)

Same(q, v) ==
  /\ at'[q][v] = at[q][v] /\ err'[q][v] = err[q][v]
  /\ todo'[q][v] = todo[q][v] /\ reply'[q][v] = reply[q][v]

\* A step changes its own upload, and rows of its own data id.
LEMMA StepFrame ==
  ASSUME SendInv, NEW p \in Parties, NEW u \in Uploads, StepOf(p, u)
  PROVE  /\ pieceOf' = pieceOf /\ BagToSet(faults) \subseteq BagToSet(faults')
         /\ \A q \in Parties, v \in Uploads : ~(q = p /\ v = u) => Same(q, v)
         /\ \A q \in Parties, v \in Uploads : DataOf[v] # DataOf[u] => (Has(q, v)' <=> Has(q, v))
<1> USE DEF StepOf, Step, Unauthorized, Insert, InsertShares, Synced, SyncError, Proceed, DeleteAt,
            DeleteFailed, ReplyError, barrier!Enter, barrier!Leave, barrier!Abort, barrier!Move
<1>1. pieceOf' = pieceOf
  OBVIOUS
<1>2. BagToSet(faults) \subseteq BagToSet(faults')
  <2>1. faults' = faults \/ \E kind : Fault(kind)
    OBVIOUS
  <2> QED BY <2>1, FaultBag DEF SendInv, TypeOK
<1>3. ASSUME NEW q \in Parties, NEW v \in Uploads, ~(q = p /\ v = u) PROVE Same(q, v)
  <2>1. at'[q][v] = at[q][v]
    BY <1>3 DEF SendInv, TypeOK
  <2>2. err'[q][v] = err[q][v]
    BY <1>3 DEF SendInv, TypeOK
  <2>3. todo'[q][v] = todo[q][v]
    BY <1>3 DEF SendInv, TypeOK
  <2>4. reply'[q][v] = reply[q][v]
    BY <1>3 DEF SendInv, TypeOK
  <2> QED BY <2>1, <2>2, <2>3, <2>4 DEF Same
<1>4. ASSUME NEW q \in Parties, NEW v \in Uploads, DataOf[v] # DataOf[u]
      PROVE  Has(q, v)' <=> Has(q, v)
  <2>1. Row(v)' = Row(v) /\ Row(v).id = DataOf[v] /\ Row(u).id = DataOf[u]
    BY <1>1 DEF Row
  <2>2. \/ share' = share
        \/ share' = [share EXCEPT ![p] = @ \cup {Row(u)}]
        \/ \E r \in Parties : share' = [share EXCEPT ![r] = {x \in @ : x.id # DataOf[u]}]
    OBVIOUS
  <2> HIDE DEF StepOf
  <2>3. share \in [Parties -> SUBSET Rows] /\ Row(v) # Row(u)
    BY <2>1, <1>4 DEF SendInv, TypeOK
  <2>4. Row(v) \in share'[q] <=> Row(v) \in share[q]
    <3>1. CASE share' = share
      BY <3>1
    <3>2. CASE share' = [share EXCEPT ![p] = @ \cup {Row(u)}]
      BY <3>2, <2>3
    <3>3. ASSUME NEW r \in Parties, share' = [share EXCEPT ![r] = {x \in @ : x.id # DataOf[u]}]
          PROVE  Row(v) \in share'[q] <=> Row(v) \in share[q]
      BY <3>3, <2>1, <2>3, <1>4
    <3> QED BY <2>2, <3>1, <3>2, <3>3
  <2> QED BY <2>1, <2>4 DEF Has
<1> QED BY <1>1, <1>2, <1>3, <1>4

LEMMA CleanBefore ==
  ASSUME NEW d, pieceOf' = pieceOf, BagToSet(faults) \subseteq BagToSet(faults'), Clean(d)'
  PROVE  Clean(d)
BY DEF Clean, OnePiece, FaultsOnly

\* The uploads of a data id are as they were.
LEMMA FrameKeeps ==
  ASSUME NEW d, CleanInv(d),
         \A q \in Parties, v \in Of(d) : Same(q, v) /\ (Has(q, v)' <=> Has(q, v))
  PROVE  CleanInv(d)'
<1> USE DEF Same
<1>0. \A v \in Of(d) : v \in Uploads /\ DataOf[v] = d
  BY DEF Of
<1>1. \A v \in Of(d) : /\ Begun(v)' <=> Begun(v)
                       /\ Over(v)' <=> Over(v)
                       /\ Even(v)' <=> Even(v)
  BY DEF Begun, Over, Even
<1>2. \A v \in Of(d) : Entering(v) => Entering(v)'
  BY DEF Entering
<1>3. \A v \in Of(d) : Leaving(v) => Leaving(v)'
  BY DEF Leaving, Others
<1>4. Quiet(d)' => Quiet(d)
  BY <1>1 DEF Quiet, Of
<1>5. \A v \in Of(d) : InOrder(v)'
  BY DEF CleanInv, InOrder
<1>6. Of(d)' = Of(d)
  BY DEF Of
<1> QED BY <1>1, <1>2, <1>3, <1>4, <1>5, <1>6 DEF CleanInv, Active

-----------------------------------------------------------------------------
(* A step of an upload of the data id                                       *)

\* The state a step of upload w finds: the other uploads of its data id are over
\* or have not begun, so w is where its handlers have brought it.
Alone(w) == \A v \in Of(DataOf[w]) \ {w} : Begun(v) => Over(v)

LEMMA StepIsAlone ==
  ASSUME NEW p \in Parties, NEW w \in Uploads, StepOf(p, w), Clean(DataOf[w]), CleanInv(DataOf[w])
  PROVE  Alone(w) /\ ~ Over(w)
<1> USE DEF StepOf, Step, Unauthorized, Insert, Synced, SyncError, DeleteAt, DeleteFailed, ReplyError,
            RollingBack, barrier!Enter, barrier!Leave, barrier!Abort, barrier!Move
<1>1. reply[p][w] = "none"
  BY DEF CleanInv, InOrder, Of
<1>2. MayBegin(w) \/ at[p][w] # "before"
  OBVIOUS
<1> HIDE DEF StepOf
<1>3. ~ Over(w)
  BY <1>1 DEF Over
<1>4. CASE MayBegin(w)
  <2>1. \A v \in Of(DataOf[w]) : SameKey(w, v)
    BY DEF Clean, OnePiece, Of, SameKey, Row
  <2> QED BY <1>3, <1>4, <2>1 DEF MayBegin, Alone, Of
<1>5. CASE at[p][w] # "before"
  <2>1. Active(w)
    BY <1>3, <1>5 DEF Active, Begun
  <2> QED BY <1>3, <2>1 DEF CleanInv, Alone, Of
<1> QED BY <1>2, <1>4, <1>5

LEMMA AloneFacts ==
  ASSUME SendInv, NEW w \in Uploads, CleanInv(DataOf[w]), Alone(w), ~ Over(w)
  PROVE  Entering(w) /\ Leaving(w)
<1>1. CASE Begun(w)
  BY <1>1 DEF CleanInv, Active, Of
<1>2. CASE ~ Begun(w)
  <2>1. Quiet(DataOf[w])
    BY <1>2 DEF Quiet, Alone, Of
  <2>2. Even(w)
    BY <2>1 DEF CleanInv, Of
  <2>3. \A p \in Parties : at[p][w] = "before" /\ err[p][w] = "none"
    BY <1>2 DEF Begun, SendInv, HandlerOK
  <2> QED BY <2>2, <2>3 DEF Even, Entering, Leaving
<1> QED BY <1>1, <1>2

\* Once every party has answered, all of them have the row or none has.  (Stated
\* of the state after a step, where it is used.)
LEMMA OverIsEven ==
  ASSUME SendInv', NEW w \in Uploads, InOrder(w)', Over(w)', Entering(w)', Leaving(w)'
  PROVE  Even(w)'
<1>1. \A p \in Parties : at'[p][w] = "after" /\ todo'[p][w] = {}
  BY DEF InOrder, Over, SendInv, HandlerOK, RollingBack
<1>2. SUFFICES ASSUME NEW a \in Parties, NEW b \in Parties, Has(a, w)', ~ Has(b, w)'
               PROVE  FALSE
  BY DEF Even
<1>3. err'[b][w] = "none"
  BY <1>1, <1>2 DEF Leaving, Others
<1>4. PICK q \in Others(b) : err'[q][w] # "none"
  BY <1>1, <1>2, <1>3 DEF Leaving
<1>5. q = a
  BY <1>1, <1>2, <1>4 DEF Leaving, Others
<1>6. err'[a][w] = "duplicate"
  BY <1>2, <1>4, <1>5 DEF Leaving, SendInv, TypeOK
<1> QED BY <1>1, <1>3, <1>6 DEF Entering

\* It is enough to look at the upload that moves.
LEMMA OneUpload ==
  ASSUME SendInv', NEW w \in Uploads, CleanInv(DataOf[w]), Clean(DataOf[w])', Alone(w),
         \A q \in Parties, v \in Uploads \ {w} : Same(q, v),
         Begun(w)', InOrder(w)', Entering(w)', Leaving(w)'
  PROVE  CleanInv(DataOf[w])'
<1> DEFINE d == DataOf[w]
<1>1. \A v \in Of(d) \ {w} : (Begun(v)' <=> Begun(v)) /\ (Over(v)' <=> Over(v)) /\ InOrder(v)'
  BY DEF Same, Of, Begun, Over, CleanInv, InOrder
<1>2. \A v \in Of(d) \ {w} : Begun(v)' => Over(v)'
  BY <1>1 DEF Alone
<1>3. \A v \in Of(d) : Row(v)' = Row(w)'
  BY DEF Of, Clean, OnePiece, Row
<1>4. Quiet(d)' => \A v \in Of(d) : Even(v)'
  <2>1. Quiet(d)' => Even(w)'
    BY OverIsEven DEF Quiet
  <2>2. \A v \in Of(d) : Even(w)' => Even(v)'
    BY <1>3 DEF Even, Has
  <2> QED BY <2>1, <2>2
<1>5. Of(d)' = Of(d)
  BY DEF Of
<1>6. \A v \in Of(d) : InOrder(v)'
  BY <1>1
<1>7. \A v \in Of(d) : Active(v)' => v = w
  BY <1>2 DEF Active
<1> HIDE DEF d
<1>8. CleanInv(d)'
  BY <1>2, <1>4, <1>5, <1>6, <1>7 DEF CleanInv
<1> QED BY <1>8 DEF d

\* The handler of p inserts: what it finds tells where everybody is.
LEMMA InsertKeepsUpload ==
  ASSUME SendInv, NEW p \in Parties, NEW w \in Uploads, Insert(p, w), FaultsOnly({"refused"})',
         Entering(w), Leaving(w),
         \A q \in Parties \ {p} : Same(q, w)
  PROVE  Entering(w)' /\ Leaving(w)'
<1>1. at[p][w] = "before" /\ at'[p][w] = "inside" /\ err[p][w] = "none"
  BY DEF Insert, barrier!Enter, barrier!Move, SendInv, TypeOK, HandlerOK
<1>2. \A q \in Parties \ {p} : Has(q, w)' <=> Has(q, w)
  BY DEF Insert, InsertShares, Has, Row, SendInv, TypeOK
<1>3. ~ Fault("applied")
  <2>1. SUFFICES ASSUME Fault("applied") PROVE FALSE
    OBVIOUS
  <2>2. BagToSet(faults') = BagToSet(faults) \cup {"applied"}
    BY <2>1, FaultBag DEF SendInv, TypeOK
  <2> QED BY <2>2 DEF FaultsOnly
<1>4. \/ Has(p, w) /\ Has(p, w)' /\ err'[p][w] = "duplicate"
      \/ ~ Has(p, w) /\ Has(p, w)' /\ err'[p][w] = "none"
      \/ ~ Has(p, w) /\ ~ Has(p, w)' /\ err'[p][w] = "other"
  BY <1>1, <1>3 DEF Insert, InsertShares, Has, Row, SendInv, TypeOK
<1>5. \A q \in Parties \ {p} : at'[q][w] = at[q][w] /\ err'[q][w] = err[q][w] /\ at[q][w] # "after"
  BY <1>1 DEF Same, Entering
<1>6. Entering(w)'
  BY <1>1, <1>2, <1>4, <1>5 DEF Entering
<1>7. Leaving(w)'
  BY <1>1, <1>2, <1>4, <1>5 DEF Leaving, Others
<1> QED BY <1>6, <1>7

\* The handler of p leaves the barrier: everybody has inserted.
LEMMA SyncedKeepsUpload ==
  ASSUME SendInv, NEW p \in Parties, NEW w \in Uploads, Synced(p, w),
         Entering(w), Leaving(w),
         \A q \in Parties \ {p} : Same(q, w)
  PROVE  Entering(w)' /\ Leaving(w)'
<1>1. /\ \A q \in Parties : at[q][w] # "before" /\ at'[q][w] # "before"
      /\ err' = err /\ at[p][w] = "inside" /\ at'[p][w] = "after"
      /\ err[p][w] # "none" => todo'[p][w] = Others(p)
  BY DEF Synced, Proceed, barrier!Leave, barrier!Move, SendInv, TypeOK
<1>2. \A q \in Parties : Has(q, w)' <=> Has(q, w)
  BY DEF Synced, Proceed, Has, Row
<1>3. \A q \in Parties \ {p} : at'[q][w] = at[q][w] /\ todo'[q][w] = todo[q][w]
  BY DEF Same
<1>4. Entering(w)'
  BY <1>1, <1>2 DEF Entering
<1>5. Leaving(w)'
  BY <1>1, <1>2, <1>3 DEF Leaving, Others
<1> QED BY <1>4, <1>5

\* The handler of p has the row of q deleted.
LEMMA DeleteKeepsUpload ==
  ASSUME SendInv, NEW p \in Parties, NEW w \in Uploads, NEW q \in Parties, DeleteAt(p, w, q),
         FaultsOnly({"refused"})', InOrder(w), Entering(w), Leaving(w)
  PROVE  Entering(w)' /\ Leaving(w)'
<1>1. at[p][w] = "after" /\ err[p][w] # "none" /\ q \in Others(p) /\ at' = at /\ err' = err
  BY DEF DeleteAt, RollingBack, InOrder, SendInv, HandlerOK
<1>2. share' = [share EXCEPT ![q] = {x \in @ : x.id # DataOf[w]}]
  <2>1. SUFFICES ASSUME Fault("delete") PROVE FALSE
    BY DEF DeleteAt
  <2>2. BagToSet(faults') = BagToSet(faults) \cup {"delete"}
    BY <2>1, FaultBag DEF SendInv, TypeOK
  <2> QED BY <2>2 DEF FaultsOnly
<1>3. ~ Has(q, w)' /\ \A r \in Parties \ {q} : Has(r, w)' <=> Has(r, w)
  BY <1>2 DEF DeleteAt, Has, Row, SendInv, TypeOK
<1>4. /\ todo'[p][w] = todo[p][w] \ {q}
      /\ \A r \in Parties \ {p} : todo'[r][w] = todo[r][w]
  BY DEF DeleteAt, SendInv, TypeOK
<1>5. \A r \in Parties : at[r][w] # "before"
  BY <1>1 DEF Entering
<1>6. Entering(w)'
  BY <1>1, <1>5 DEF Entering
<1>7. Leaving(w)'
  BY <1>1, <1>3, <1>4 DEF Leaving, Others
<1> QED BY <1>6, <1>7

\* With nothing failing but insertions, an upload of the data id moves in order.
LEMMA OwnStep ==
  ASSUME SendInv, SendInv', NEW p \in Parties, NEW w \in Uploads, StepOf(p, w),
         Clean(DataOf[w])', Clean(DataOf[w]), CleanInv(DataOf[w])
  PROVE  CleanInv(DataOf[w])'
<1>1. Alone(w) /\ ~ Over(w) /\ InOrder(w)
  BY StepIsAlone DEF CleanInv, Of
<1>2. Entering(w) /\ Leaving(w)
  BY <1>1, AloneFacts
<1>3. \A q \in Parties, v \in Uploads : ~(q = p /\ v = w) => Same(q, v)
  BY StepFrame
<1>4. FaultsOnly({"refused"})'
  BY DEF Clean
<1>5. \A kind \in {"token", "sync", "request"} : ~ Fault(kind)
  <2>1. SUFFICES ASSUME NEW kind \in {"token", "sync", "request"}, Fault(kind) PROVE FALSE
    OBVIOUS
  <2>2. BagToSet(faults') = BagToSet(faults) \cup {kind}
    BY <2>1, FaultBag DEF SendInv, TypeOK
  <2> QED BY <1>4, <2>1, <2>2 DEF FaultsOnly
<1>6. Step(p, w)
  BY <1>5 DEF StepOf, Unauthorized, SyncError, DeleteFailed
<1>7. InOrder(w)' /\ Begun(w)'
  <2>1. \/ at'[p][w] = "inside" /\ reply'[p][w] = "none"
        \/ at'[p][w] = "after"
    BY <1>1, <1>6 DEF Step, Insert, Synced, Proceed, DeleteAt, ReplyError, RollingBack, InOrder,
                      barrier!Enter, barrier!Leave, barrier!Move, SendInv, TypeOK
  <2> QED BY <1>1, <1>3, <2>1 DEF InOrder, Same, Begun
<1>8. Entering(w)' /\ Leaving(w)'
  <2>1. CASE Insert(p, w)
    BY <1>2, <1>3, <1>4, <2>1, InsertKeepsUpload
  <2>2. CASE Synced(p, w)
    BY <1>2, <1>3, <2>2, SyncedKeepsUpload
  <2>3. CASE \E q \in Parties : DeleteAt(p, w, q)
    BY <1>1, <1>2, <1>4, <2>3, DeleteKeepsUpload
  <2>4. CASE ReplyError(p, w)
    BY <1>2, <2>4 DEF ReplyError, Entering, Leaving, Has, Row
  <2> QED BY <1>6, <2>1, <2>2, <2>3, <2>4 DEF Step
<1> QED BY <1>1, <1>3, <1>7, <1>8, OneUpload

LEMMA UploadInvInit == Init => UploadInv
<1> SUFFICES ASSUME Init, NEW d \in DataIDs PROVE CleanInv(d)
  BY DEF UploadInv
<1>1. \A p \in Parties, u \in Uploads :
        at[p][u] = "before" /\ reply[p][u] = "none" /\ ~ Has(p, u)
  BY DEF Init, barrier!Init, Has
<1>2. \A u \in Of(d) : ~ Begun(u) /\ InOrder(u) /\ Even(u)
  BY <1>1 DEF Begun, InOrder, Even, Of
<1> QED BY <1>2 DEF CleanInv, Active

LEMMA UploadInvStep == SendInv /\ SendInv' /\ UploadInv /\ [Next]_vars => UploadInv'
<1> SUFFICES ASSUME SendInv, SendInv', UploadInv, [Next]_vars, NEW d \in DataIDs, Clean(d)'
             PROVE  CleanInv(d)'
  BY DEF UploadInv, DataIDs
<1>1. ASSUME UNCHANGED vars PROVE CleanInv(d)'
  <2>1. Clean(d)
    BY <1>1 DEF vars, Clean, OnePiece, FaultsOnly
  <2>2. \A q \in Parties, v \in Of(d) : Same(q, v) /\ (Has(q, v)' <=> Has(q, v))
    BY <1>1 DEF vars, Same, Has, Row
  <2> QED BY <2>1, <2>2, FrameKeeps DEF UploadInv
<1>2. ASSUME NEW p \in Parties, NEW u \in Uploads, StepOf(p, u) PROVE CleanInv(d)'
  <2>1. Clean(d)
    BY <1>2, StepFrame, CleanBefore
  <2>2. CleanInv(d)
    BY <2>1 DEF UploadInv
  <2>3. CASE DataOf[u] = d
    BY <1>2, <2>1, <2>2, <2>3, OwnStep
  <2>4. CASE DataOf[u] # d
    <3>1. \A q \in Parties, v \in Of(d) : Same(q, v) /\ (Has(q, v)' <=> Has(q, v))
      BY <1>2, <2>4, StepFrame DEF Of
    <3> QED BY <2>2, <3>1, FrameKeeps
  <2> QED BY <2>3, <2>4
<1> QED BY <1>1, <1>2 DEF Next, Finished, StepOf

LEMMA AllOrNothingFacts == SendInv /\ UploadInv => AllOrNothing
<1> SUFFICES ASSUME SendInv, UploadInv, NEW d \in DataIDs, Quiet(d), NoError(d) \/ Clean(d),
                    NEW p \in Parties, NEW q \in Parties,
                    NEW x \in share[p], x.id = d
             PROVE  x \in share[q]
  BY DEF AllOrNothing, Clean, RowsOf
<1>1. PICK u \in Uploads : x = Row(u) /\ at[p][u] # "before"
  BY DEF SendInv, RowsFrom
<1>2. u \in Of(d)
  BY <1>1, RowFacts DEF SendInv, Of
<1>3. CASE Clean(d)
  <2>1. Even(u)
    BY <1>2, <1>3 DEF UploadInv, CleanInv
  <2> QED BY <1>1, <2>1 DEF Even, Has
<1>4. CASE NoError(d)
  <2>1. reply[q][u] = "ok"
    <3>1. Over(u) /\ reply[q][u] \in {"none", "ok", "error"}
      BY <1>1, <1>2 DEF Quiet, Begun, Of, SendInv, TypeOK
    <3> QED BY <1>2, <1>4, <3>1 DEF NoError, Over, Of
  <2>2. \A r \in Others(q), v \in Uploads : ~(DataOf[v] = DataOf[u] /\ reply[r][v] = "error")
    BY <1>2, <1>4 DEF NoError, Of, Others
  <2>3. Quiet(DataOf[u])
    BY <1>2 DEF Of
  <2> QED BY <1>1, <2>1, <2>2, <2>3, LostRowFacts DEF LostRowIsReported
<1> QED BY <1>3, <1>4

\* All parties hold the same pieces of a data id whenever no upload of it is
\* under way, if no error was reported, and after refused insertions of its one
\* piece; for any number of parties, uploads and failures.
THEOREM UploadsAreAllOrNothing == Spec => []AllOrNothing
<1>1. Init => SendInv /\ UploadInv
  BY SendInvInit, UploadInvInit
<1>2. SendInv /\ UploadInv /\ [Next]_vars => SendInv' /\ UploadInv'
  BY SendInvStep, UploadInvStep
<1> QED BY <1>1, <1>2, AllOrNothingFacts, PTL DEF Spec
=============================================================================
