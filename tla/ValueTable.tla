----------------------------- MODULE ValueTable -----------------------------
(***************************************************************************)
(* The tables a job reads, Client/ComputationToDbGate/ValueTable.cpp, and  *)
(* how they are put together from the pieces in the database, Client.cpp.  *)
(* A table is its column names and its rows.  Every party holds shares of  *)
(* the same cells and all take the same decisions, from what is opened, so *)
(* a cell is written as the number it opens to.  Positions count from 1.   *)
(***************************************************************************)
EXTENDS Integers, Sequences, FiniteSets, SequencesExt

CONSTANTS Eps,      \* LessFloat::eps, in units of the ids
          ShareRes  \* the least difference at which < and == of shares are sure
ASSUME IdsAssumption == Eps \in Nat /\ ShareRes \in 1..Eps

\* Equivalence under LessFloat: names are equal as strings, ids up to Eps.
SameId(a, b) == a - b \in -Eps..Eps
Same(type, a, b) == IF type = "id" THEN SameId(a, b) ELSE a = b

Table(schemas, rows) == [schemas |-> schemas, rows |-> rows]
getColumn(t, idx) == [r \in DOMAIN t.rows |-> t.rows[r][idx]]
Positions(s) == [n \in DOMAIN s |-> n]

\* The positions whose values a map or set filled in order keeps: an insertion
\* does nothing if an equivalent value is there.
Emplaced(v, type) ==
  FoldLeft(LAMBDA kept, k : IF \E m \in kept : Same(type, v[m], v[k]) THEN kept ELSE kept \cup {k},
           {}, Positions(v))

\* The positions in v1 whose value v2 has too, each with the one the map finds:
\* of several values that are equivalent to it, the smallest.
intersectionValueIndex(v1, v2, type) ==
  LET Hits(x) == {k \in Emplaced(v2, type) : Same(type, v2[k], x)}
      find(x) == CHOOSE k \in Hits(x) : \A m \in Hits(x) \ {k} : v2[k] < v2[m]
      in == SelectSeq(Positions(v1), LAMBDA n : Hits(v1[n]) # {})
  IN [n \in DOMAIN in |-> <<in[n], find(v1[in[n]])>>]

\* What the operators < and == of shares may answer.  Module Compare shows them
\* right about equal numbers and about numbers ShareRes or more apart; of numbers
\* nearer than that the smaller one is called less or not, anew in every call.
\* A comparison that ends the process leaves no table.
ShareLess(a, b) ==
  IF a >= b THEN {FALSE} ELSE IF b - a >= ShareRes THEN {TRUE} ELSE BOOLEAN
ShareEqual(a, b) == {~ l /\ ~ g : l \in ShareLess(a, b), g \in ShareLess(b, a)}

\* The same for sorted shares, in one pass: all results the answers may lead to.
intersectionSortedValueIndex(v1, v2) ==
  LET From[m \in 1..(Len(v1) + 1), n \in 1..(Len(v2) + 1)] ==
        IF m > Len(v1) \/ n > Len(v2) THEN {<< >>}
        ELSE LET Step(eq) ==
                   IF eq THEN {<<<<m, n>>>> \o rest : rest \in From[m + 1, n + 1]}
                   ELSE UNION {IF less THEN From[m + 1, n] ELSE From[m, n + 1] :
                                 less \in ShareLess(v1[m], v2[n])}
             IN UNION {Step(eq) : eq \in ShareEqual(v1[m], v2[n])}
  IN From[1, 1]

\* The positions in v2 that a union with v1 adds to it.
unionValueIndex(v1, v2, type) ==
  SelectSeq(Positions(v2), LAMBDA n : \A k \in Emplaced(v1, type) : ~ Same(type, v1[k], v2[n]))

\* One row for each row of t and for each row of u whose id t does not have,
\* with the columns that both have.
vjoin(t, u, idx, idx_tgt) ==
  LET cols == intersectionValueIndex(t.schemas, u.schemas, "name")
      new == unionValueIndex(getColumn(t, idx), getColumn(u, idx_tgt), "id")
  IN Table([c \in DOMAIN cols |-> t.schemas[cols[c][1]]],
           [r \in DOMAIN t.rows |-> [c \in DOMAIN cols |-> t.rows[r][cols[c][1]]]]
             \o [r \in DOMAIN new |-> [c \in DOMAIN cols |-> u.rows[new[r]][cols[c][2]]]])

\* The rows of t and u at every pair of positions, side by side.
Beside(t, u, pairs) ==
  LET new == unionValueIndex(t.schemas, u.schemas, "name")
  IN Table(t.schemas \o [c \in DOMAIN new |-> u.schemas[new[c]]],
           [r \in DOMAIN pairs |->
              t.rows[pairs[r][1]] \o [c \in DOMAIN new |-> u.rows[pairs[r][2]][new[c]]]])

hjoin(t, u, idx, idx_tgt) ==
  Beside(t, u, intersectionValueIndex(getColumn(t, idx), getColumn(u, idx_tgt), "id"))
hjoinShare(t, u, idx, idx_tgt) ==
  {Beside(t, u, pairs) :
     pairs \in intersectionSortedValueIndex(getColumn(t, idx), getColumn(u, idx_tgt))}

\* The tables that a join of this kind may give.
Joined(how, t, u, idx, idx_tgt) ==
  IF how = 0 THEN {hjoin(t, u, idx, idx_tgt)}
  ELSE IF how = 1 THEN {vjoin(t, u, idx, idx_tgt)} ELSE hjoinShare(t, u, idx, idx_tgt)

\* Mutant: the id column of the table before, not of the first.
parseReadOwnIndex(values, join, index) ==
  FoldLeft(LAMBDA ts, n : UNION {Joined(join[n], t, values[n + 1], index[n], index[n + 1]) : t \in ts},
           {values[1]}, Positions(join))

\* All tables, from the left; the id column of what is joined so far is taken
\* to be where the first table has it.
parseRead(values, join, index) ==
  FoldLeft(LAMBDA ts, n : UNION {Joined(join[n], t, values[n + 1], index[1], index[n + 1]) : t \in ts},
           {values[1]}, Positions(join))

\* readShare: the documents of a data id, ordered by piece id, the first of two
\* with the same piece id.  There is at least one; without any the parsing of
\* the answer fails.
readShare(response) ==
  LET first == SelectSeq(Positions(response),
                 LAMBDA n : \A k \in 1..(n - 1) : response[k].piece # response[n].piece)
      sorted == SortSeq(first, LAMBDA m, n : response[m].piece < response[n].piece)
  IN Table(response[1].schema, FoldLeft(LAMBDA acc, n : acc \o response[n].value, << >>, sorted))

-----------------------------------------------------------------------------
\* A row as a function from column names, and all rows of a table.
Named(t, r) ==
  [name \in ToSet(t.schemas) |-> t.rows[r][CHOOSE c \in DOMAIN t.schemas : t.schemas[c] = name]]
Relation(t) == {Named(t, r) : r \in DOMAIN t.rows}

\* Of the rows of t, those whose ids stand for all nearly equal ones, and whether
\* nearly equal is an equivalence among the ids of t.
FirstOf(t, idx) ==
  {r \in DOMAIN t.rows : \A k \in 1..(r - 1) : ~ SameId(t.rows[k][idx], t.rows[r][idx])}
Grouped(t, idx) ==
  LET ids == ToSet(getColumn(t, idx))
  IN \A a, b, c \in ids : SameId(a, b) /\ SameId(b, c) => SameId(a, c)

\* hjoin is the join on the ids: every row of t that has a partner in u, and
\* only those, with the columns of both, t's where both have one, and the rows
\* in t's order.  Of nearly equal ids in u only the first is met, and of several
\* that are nearly equal to t's, the smallest.
HjoinIsRight(t, u, idx, idx_tgt) ==
  LET j == hjoin(t, u, idx, idx_tgt)
      Id(k) == u.rows[k][idx_tgt]
      Partners(r) == {k \in FirstOf(u, idx_tgt) : SameId(t.rows[r][idx], Id(k))}
      rows == SelectSeq(Positions(t.rows), LAMBDA r : Partners(r) # {})
  IN Grouped(u, idx_tgt) =>
       /\ ToSet(j.schemas) = ToSet(t.schemas) \cup ToSet(u.schemas)
       /\ Len(j.rows) = Len(rows)
       /\ \A n \in DOMAIN rows :
            \E k \in Partners(rows[n]) :
              /\ \A m \in Partners(rows[n]) : Id(k) <= Id(m)
              /\ Named(j, n) = Named(t, rows[n]) @@ Named(u, k)

\* vjoin puts the tables on top of each other: no row of t is lost, none of u
\* but those whose id t has, and every cell stays under its column's name.
VjoinIsRight(t, u, idx, idx_tgt) ==
  LET j == vjoin(t, u, idx, idx_tgt)
      both == ToSet(t.schemas) \cap ToSet(u.schemas)
      Cut(f) == [name \in both |-> f[name]]
      new == {k \in DOMAIN u.rows : \A r \in FirstOf(t, idx) :
                                      ~ SameId(t.rows[r][idx], u.rows[k][idx_tgt])}
  IN Grouped(t, idx) =>
       /\ ToSet(j.schemas) = both
       /\ Len(j.rows) = Len(t.rows) + Cardinality(new)
       /\ Relation(j) = {Cut(f) : f \in Relation(t)} \cup {Cut(Named(u, k)) : k \in new}

Increasing(s) == \A m, n \in DOMAIN s : m < n => s[m] < s[n]

\* The join that never opens the ids never puts two ids in one row that the
\* comparison of shares tells apart, however it answers about nearer ones; and it
\* gives just what hjoin gives when both tables are sorted by their ids and no
\* two ids are nearly equal.
ShareJoinIsRight(t, u, idx, idx_tgt) ==
  LET near == {q \in (DOMAIN t.rows) \X (DOMAIN u.rows) :
                 t.rows[q[1]][idx] - u.rows[q[2]][idx_tgt] \in (1 - ShareRes)..(ShareRes - 1)}
  IN /\ \A j \in hjoinShare(t, u, idx, idx_tgt) :
          Relation(j) \subseteq {Named(t, q[1]) @@ Named(u, q[2]) : q \in near}
     /\ (/\ Increasing(getColumn(t, idx)) /\ Increasing(getColumn(u, idx_tgt))
         /\ \A a \in ToSet(getColumn(t, idx)), b \in ToSet(getColumn(u, idx_tgt)) :
              SameId(a, b) => a = b)
        => hjoinShare(t, u, idx, idx_tgt) = {hjoin(t, u, idx, idx_tgt)}

\* A chain of joins matches the same column all along: wherever the tables have
\* their id columns, and unless a vjoin drops a column in front of the first
\* table's, joining one by one on the column of that name gives the same tables.
ChainJoinsOnTheSameColumn(values, join, index) ==
  LET name == values[1].schemas[index[1]]
      At(t) == CHOOSE c \in DOMAIN t.schemas : t.schemas[c] = name
      Kept(n) == join[n] # 1 \/ \A c \in 1..index[1] :
                                  values[1].schemas[c] \in ToSet(values[n + 1].schemas)
  IN (\A n \in DOMAIN join : Kept(n)) =>
       parseRead(values, join, index)
         = FoldLeft(LAMBDA ts, n : UNION {Joined(join[n], t, values[n + 1], At(t), index[n + 1]) : t \in ts},
                    {values[1]}, Positions(join))

\* Every party reads the rows in the same order, in whatever order its own
\* database returns the pieces, unless a piece is stored twice.
PartiesReadTheSame(response, other) ==
  ToSet(response) = ToSet(other) /\ Len(response) = Len(other)
      /\ (\A m, n \in DOMAIN response : response[m].piece = response[n].piece => m = n)
    => readShare(response) = readShare(other)
=============================================================================
