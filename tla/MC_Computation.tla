--------------------------- MODULE MC_Computation ----------------------------
(***************************************************************************)
(* Two parties, numbers with three digits after the point, the field of 13 *)
(* elements with vectors of 4 bits.                                        *)
(***************************************************************************)
EXTENDS Computation

MCParties == {1, 2}
MCOr == <<9, 1, 3, 6, 7>>
MCAnd == <<1, 12, 2, 5, 6>>
MCDraws == {<<-2, -1>>, <<1, 1>>}
MCMasks == {<<1, 2>>, <<2, 2>>}

\* Only a number with no other prime factors than 2 and 5 has an inverse with
\* finitely many digits.
Terminating == {2^a * 5^b : a \in 0..14, b \in 0..6}
MCCutOff(n) == Abs(n) \notin Terminating

\* v shared with m at party 2.
Split(v, m) == [p \in Parties |-> IF p = SP THEN v - m ELSE m]
PfSplit(v, m) == [p \in Parties |-> IF p = SP THEN PfMinus(v, m) ELSE m]

\* A difference of 20 is beyond the range that K bits cover.
MCInputs ==
  {[op |-> o, left |-> Split(a, m), right |-> Split(b, 77)] :
     o \in {"less", "equal"}, a \in {-20000, -3000, -250, 0, 250, 251, 1500, 20000},
     b \in {-1250, 0, 249, 1750}, m \in {137, -2059}}
  \cup {[op |-> "lessConst", left |-> Split(a, 137), right |-> b] :
          a \in {-3000, -250, 0, 250, 251, 1500}, b \in {-1250, 0, 249, 1750}}
  \cup {[op |-> "floor", left |-> Split(a, m), right |-> All(0)] :
          a \in {-3000, -1001, -250, 0, 251, 999, 1500, 1800}, m \in {137, -2059}}

\* == with a constant, for the run that refutes it.
ConstantInputs ==
  {[op |-> "equalConst", left |-> Split(a, m), right |-> b] :
     a \in {-1000, 0, 1000, 2000}, b \in {-1000, 0, 1000}, m \in {137, -2059}}

Rnd == {[k \in 1..L |-> [b |-> 5 + k, bd |-> 2 + k]], [k \in 1..L |-> [b |-> k, bd |-> 7]]}
OneRnd == CHOOSE r \in Rnd : TRUE

PfTriples == {[a |-> PfSplit(a, 3), b |-> PfSplit(b, 11), c |-> PfSplit(PfTimes(a, b), m)] :
                a \in {1, 6}, b \in {2, 12}, m \in {4}}
FpTriples == {[a |-> Split(a * Shift, 3 * Shift), b |-> Split(b * Shift, Shift),
               c |-> Split(a * b * Shift, -2 * Shift)] : a \in {1, -3}, b \in {2, 4}}

ArithmeticCases ==
  {[kind |-> "field", x |-> n, rnd |-> OneRnd] : n \in Field}
  \cup {[kind |-> "fixed", x |-> m, y |-> n] :
          m, n \in {-2500, -1001, -7, -1, 0, 1, 999, 1000, 2345, 3000, 6000}}
  \cup {[kind |-> "pf", s |-> PfSplit(a, m), t |-> PfSplit(b, 9), c |-> c, r |-> PfSplit(r, 6),
         triple |-> t] :
          a, b \in {0, 1, 5, 12}, m \in {0, 8}, c \in {0, 7}, r \in {1, 4}, t \in PfTriples}
  \cup {[kind |-> "fp", s |-> Split(a, m), t |-> Split(b, 333), c |-> c,
         r |-> All(r * Shift), triple |-> t] :
          a, b \in {-2500, -1, 0, 1001, 3300}, m \in {137, -2059}, c \in {-1500, 0, 700},
          r \in {1, 2}, t \in FpTriples}
  \cup {[kind |-> "root", s |-> Split(a, 137), r |-> All(Shift), triple |-> t, tolerance |-> 60] :
          a \in {500, 1000, 2000, 4000, 9000}, t \in FpTriples}
  \cup {[kind |-> "mod", s |-> Split(a, 137), c |-> c, k |-> Split(k * Shift, 2 * Shift)] :
          a \in {-2500, -1, 0, 600, 2900, 7100}, c \in {1000, 3000}, k \in {-2, 0, 5}}

BitCases ==
  {[kind |-> "bits", a |-> a, rnd |-> r, others |-> IF r = OneRnd THEN BitVectors ELSE {}] :
     a \in BitVectors, r \in Rnd}
  \cup {[kind |-> "pair", x |-> m, y |-> n, r |-> r, rnd |-> OneRnd] :
          m, n \in -6..6, r \in {<<PFtoBS(u), PFtoBS(v), PFtoBS(u)>> : u \in {0, 11}, v \in {5}}}
  \cup {[kind |-> "interval", c1 |-> b[1], a |-> a, c2 |-> b[2], rnd |-> OneRnd] :
          a \in Field, b \in {<<0, 1>>, <<0, 9>>, <<5, 9>>}}

\* A table with these columns and ids; the other cells are all different.
Filled(tag, schemas, ids) ==
  Table(schemas, [r \in DOMAIN ids |->
          [c \in DOMAIN schemas |-> IF schemas[c] = "id" THEN ids[r] ELSE 1000 * tag + 10 * r + c]])
IdAt(schemas) == CHOOSE c \in DOMAIN schemas : schemas[c] = "id"

\* Ids in thousandths: 20250 is not told from 20000 when shared, 20280 is, and
\* both are nearly equal to it when opened; 20500 is not.
MyIds == {<<10000>>, <<10000, 20000>>, <<30000, 10000, 20000>>, <<10000, 20000, 30000>>,
          <<20000, 20000>>, <<20250>>, <<20000, 20250>>}
YourIds == {<<40000>>, <<20250>>, <<20000, 30000>>, <<30000, 20000, 10000>>, <<20000, 20000>>,
            <<10000, 30000>>, <<20500, 20000>>, <<20280, 20000>>, <<20000, 20250, 20500>>}
MySchemas == {<<"id", "a", "b">>, <<"a", "id", "b">>}
YourSchemas == {<<"b", "id", "a">>, <<"id", "b", "c">>}

Documents == <<[piece |-> 1, schema |-> <<"id">>, value |-> <<<<10>>, <<20>>>>],
               [piece |-> 2, schema |-> <<"id">>, value |-> <<<<30>>>>],
               [piece |-> 3, schema |-> <<"id">>, value |-> <<<<40>>, <<50>>>>]>>
Orders == {[n \in 1..3 |-> Documents[o[n]]] : o \in Permutations(1..3)}

TableCases ==
  {[kind |-> "join", t |-> Filled(1, s, m), u |-> Filled(2, s2, n), idx |-> IdAt(s), tgt |-> IdAt(s2)] :
     s \in MySchemas, m \in MyIds, s2 \in YourSchemas, n \in YourIds}
  \cup {[kind |-> "chain",
         values |-> <<Filled(1, s, <<10000, 20000, 30000>>), Filled(2, s2, n),
                     Filled(3, s3, <<20000, 30000>>)>>,
         join |-> <<j, k>>, index |-> <<IdAt(s), IdAt(s2), IdAt(s3)>>] :
          s \in MySchemas, s2, s3 \in YourSchemas, n \in {<<30000, 20000>>, <<20000, 40000>>},
          j, k \in 0..2}
  \cup {[kind |-> "read", mine |-> m, other |-> n] : m, n \in Orders}

MCCases == ArithmeticCases \cup BitCases \cup TableCases
=============================================================================
