------------------------------- MODULE MCQuery -------------------------------
(* A small instance of Query for TLC: three tables, the middle one in two  *)
(* blocks or none, and two views.                                          *)
EXTENDS Query

MCSchema == [t |-> <<"a", "b">>, u |-> <<"c">>, v |-> <<"d", "s">>]

T0 == <<<<>>>>
T1 == <<<<[a |-> 0, b |-> 0], [a |-> 1, b |-> 1]>>>>
T2 == <<<<[a |-> 1, b |-> 0]>>, <<[a |-> 1, b |-> 0]>>>>
T3 == <<<<[a |-> 1, b |-> 0]>>, <<[a |-> 0, b |-> 1], [a |-> 1, b |-> 1]>>, <<[a |-> 0, b |-> 0]>>>>
\* Sorted by b and a: five runs, with equal rows in different ones.
T4 == <<<<[a |-> 1, b |-> 1]>>, <<[a |-> 0, b |-> 1], [a |-> 1, b |-> 1], [a |-> 1, b |-> 0]>>,
        <<[a |-> 0, b |-> 0], [a |-> 1, b |-> 0]>>, <<[a |-> 0, b |-> 0]>>>>
U0 == <<<<>>>>
U1 == <<<<[c |-> 1]>>>>
U2 == <<<<[c |-> 0]>>, <<>>, <<[c |-> 0], [c |-> 1]>>>>
V1 == <<<<[d |-> 0, s |-> "x"]>>>>
V2 == <<<<[d |-> 0, s |-> "x"]>>, <<[d |-> 1, s |-> "y"]>>>>
MCContents ==
  [t : {T0, T1, T2}, u : {U0, U1, U2}, v : {V1, V2}] \cup [t : {T3}, u : {U1}, v : {V2}]
  \cup [t : {T4}, u : {U0}, v : {V1}]
MCIndexSets == {{}, {"b"}, {"a", "c"}, {"d"}}

F(f) == [kind |-> "field", of |-> f]
I(i) == [kind |-> "int", of |-> i]
S(s) == [kind |-> "string", of |-> s]
Eq(l, r) == [lhs |-> l, rhs |-> r]
Select(fields, tables, pred) == [fields |-> fields, tables |-> tables, pred |-> pred]

MCViews ==
  [w |-> Select(<<"c", "b">>, <<"u", "t">>, <<Eq(F("a"), I(1)), Eq(F("c"), F("b"))>>),
   x |-> Select(<<"d">>, <<"v">>, <<Eq(S("x"), F("s"))>>)]
MCNameOrder == <<"t", "u", "v", "w", "x">>

MCQueries ==
  {Select(<<"b">>, <<"t">>, <<Eq(F("a"), I(1))>>),
   Select(<<"c", "a">>, <<"u", "t">>, <<Eq(F("b"), F("c"))>>),
   Select(<<"c">>, <<"t", "u">>, <<Eq(F("a"), I(1)), Eq(I(0), F("b"))>>),
   Select(<<"a", "d">>, <<"t", "u", "v">>, <<Eq(F("b"), F("c")), Eq(F("d"), F("c")), Eq(F("s"), S("x"))>>),
   Select(<<"a", "e">>, <<"t", "v">>, <<>>),
   Select(<<"b", "c", "d">>, <<"t", "v", "u">>, <<Eq(F("c"), F("a")), Eq(F("c"), F("b"))>>),
   Select(<<"b", "d">>, <<"v", "w">>, <<Eq(F("c"), I(1))>>),
   Select(<<"d">>, <<"x">>, <<>>)}

MCSorts ==
  {[op |-> "sort", tbl |-> "t", by |-> <<"b", "a">>],
   [op |-> "group", tbl |-> "t", by |-> <<"b">>, of |-> "a"]}
=============================================================================
