-------------------------------- MODULE Query --------------------------------
(***************************************************************************)
(* The two query planners and the execution of the plans they make: an     *)
(* EmbeddedStatement that plans a query, opens the plan and reads its rows *)
(* one by one.                                                             *)
(*                                                                         *)
(* A plan is a tree of records.  Where a planner compares estimated sizes, *)
(* any order of the tables is possible: the estimates come from statistics *)
(* that may be old.  A connection plans one query after the other with the *)
(* same planner.  A query is asked as text; the text of a view is what the *)
(* catalog keeps of it.  A program may also open a sort_plan or a          *)
(* group_by_plan over a table, which no planner makes.                     *)
(***************************************************************************)
EXTENDS Scans, Parser

CONSTANTS
  None,
  Schema,      \* the fields of each table, in order, no field in two tables
  Contents,    \* what the tables may contain: blocks of rows for each table
  IndexSets,   \* which fields may have an index
  Queries,     \* the queries a client asks: fields, tables, predicate
  Views,       \* the views, as the queries that define them
  NameOrder,   \* the names of tables and views, in alphabetical order
  Sorts,       \* the sort_plans and group_by_plans a program opens
  Basic,       \* whether the engine is built with basic_query_planner
  MaxQueries   \* bound: queries of a connection

ASSUME QueryAssumption ==
  /\ \A t, u \in DOMAIN Schema :
       t # u => ToSet(Schema[t]) \cap ToSet(Schema[u]) = {}
  /\ \A c \in Contents : DOMAIN c = DOMAIN Schema
  /\ DOMAIN Schema \cap DOMAIN Views = {}
  /\ ToSet(NameOrder) = DOMAIN Schema \cup DOMAIN Views
  /\ Basic \subseteq BOOLEAN /\ MaxQueries \in Nat

VARIABLES
  db,              \* the contents of the tables
  mIndexes,        \* the fields that have an index
  basic,           \* whether the planner is basic_query_planner
  mTablePlanners,  \* the table planners the heuristic planner holds
  query,           \* the query being answered
  data,            \* what the parser made of its text
  plan,            \* the plan made so far, or None
  scan,            \* the open scan, or None
  out,             \* the rows returned
  status,          \* where the statement is
  asked,           \* number of queries so far
  dangling         \* the set has table planners of a query that failed

vars ==
  <<db, mIndexes, basic, mTablePlanners, query, data, plan, scan, out, status, asked, dangling>>

Init ==
  /\ db \in Contents /\ mIndexes \in IndexSets /\ basic \in Basic
  /\ mTablePlanners = {}
  /\ query = None /\ data = None /\ plan = None /\ scan = None /\ out = <<>>
  /\ status = "idle" /\ asked = 0 /\ dangling = FALSE

-----------------------------------------------------------------------------
(* The text of a query, as a client writes it; and of a view, as           *)
(* create_view has stored it and get_view_def returns it.                  *)

Names(ns) == Separated([i \in 1 .. Len(ns) |-> <<Word(ns[i])>>], Delim(","))
Written(e) ==
  <<Token(CASE e.kind = "field" -> "word" [] e.kind = "int" -> "number" [] OTHER -> "string", e.of)>>
Text(q) ==
  LET terms == [i \in 1 .. Len(q.pred) |->
                  Written(q.pred[i].lhs) \o <<Delim("=")>> \o Written(q.pred[i].rhs)]
  IN <<Word("select")>> \o Names(q.fields) \o <<Word("from")>> \o Names(q.tables)
     \o (IF q.pred = <<>> THEN <<>> ELSE <<Word("where")>> \o Separated(terms, Word("and")))

InOrder(S) == SelectSeq(NameOrder, LAMBDA t : t \in S)
IsView(t) == t \in DOMAIN Views

get_view_def(t) == With(parser_query(Text(Views[t])).val, LAMBDA q : view_def(q, InOrder(q.tables)))

-----------------------------------------------------------------------------
(* Predicates and schemas.                                                 *)

applies_to(t, sch) ==
  \A e \in {t.lhs, t.rhs} : e.kind = "field" => e.of \in ToSet(sch)

select_sub_pred(pred, sch) == SelectSeq(pred, LAMBDA t : applies_to(t, sch))

join_sub_pred(pred, sch1, sch2) ==
  SelectSeq(pred, LAMBDA t : /\ ~applies_to(t, sch1) /\ ~applies_to(t, sch2)
                             /\ applies_to(t, sch1 \o sch2))

(* What the first term that equates field f with a constant, or with a     *)
(* field, equates it with.                                                 *)
Equates(t, f, isField) ==
  {p[2].of : p \in {q \in {<<t.lhs, t.rhs>>, <<t.rhs, t.lhs>>} :
                      /\ q[1].kind = "field" /\ q[1].of = f
                      /\ (q[2].kind = "field") = isField}}
FirstEquated(pred, f, isField) ==
  LET Terms == {i \in 1 .. Len(pred) : Equates(pred[i], f, isField) # {}}
  IN IF Terms = {} THEN None ELSE CHOOSE x \in Equates(pred[Min(Terms)], f, isField) : TRUE
equates_with_constant(pred, f) == FirstEquated(pred, f, FALSE)
equates_with_field(pred, f) == FirstEquated(pred, f, TRUE)

RECURSIVE get_schema(_)
get_schema(p) ==
  CASE p.op \in {"table", "indexSelect"} -> Schema[p.tbl]
    [] p.op = "select" -> get_schema(p.p)
    [] p.op = "project" -> p.fields
    [] p.op \in {"product", "multibuffer"} -> get_schema(p.left) \o get_schema(p.right)
    [] p.op = "indexJoin" -> get_schema(p.left) \o Schema[p.tbl]

table_plan(t) == [op |-> "table", tbl |-> t]

-----------------------------------------------------------------------------
(* table_planner: the plans it may make for its table.  by is the query it *)
(* was made for.                                                           *)
table_planner(t, pred, n) == [tbl |-> t, pred |-> pred, by |-> n]
IndexedFields(tP) == ToSet(Schema[tP.tbl]) \cap mIndexes

Selected(p, pred) ==
  IF pred = <<>> THEN p ELSE [op |-> "select", p |-> p, pred |-> pred]
add_select_pred(tP, p) == Selected(p, select_sub_pred(tP.pred, Schema[tP.tbl]))

add_join_pred(tP, p, currSch) ==
  Selected(p, join_sub_pred(tP.pred, currSch, Schema[tP.tbl]))

make_index_select(tP) ==
  {[op |-> "indexSelect", tbl |-> tP.tbl, fld |-> f,
    val |-> equates_with_constant(tP.pred, f)] :
     f \in {g \in IndexedFields(tP) : equates_with_constant(tP.pred, g) # None}}

make_select_plan(tP) ==
  {add_select_pred(tP, p) :
     p \in IF make_index_select(tP) = {} THEN {table_plan(tP.tbl)}
           ELSE make_index_select(tP)}

make_product_plan(tP, current) ==
  [op |-> "multibuffer", left |-> current,
   right |-> add_select_pred(tP, table_plan(tP.tbl))]

\* Mutant: the other field need not be one of the plan so far.
make_index_join_unchecked(tP, current) ==
  {add_join_pred(tP,
     [op |-> "indexJoin", left |-> current, tbl |-> tP.tbl, fld |-> f,
      outer |-> equates_with_field(tP.pred, f)],
     get_schema(current)) :
     f \in {g \in IndexedFields(tP) : equates_with_field(tP.pred, g) # None}}

make_index_join(tP, current) ==
  {add_join_pred(tP,
     add_select_pred(tP,
       [op |-> "indexJoin", left |-> current, tbl |-> tP.tbl, fld |-> f,
        outer |-> equates_with_field(tP.pred, f)]),
     get_schema(current)) :
     f \in {g \in IndexedFields(tP) :
              equates_with_field(tP.pred, g) \in ToSet(get_schema(current))}}

make_product_join(tP, current) ==
  add_join_pred(tP, make_product_plan(tP, current), get_schema(current))

make_join_plan(tP, current) ==
  IF join_sub_pred(tP.pred, Schema[tP.tbl], get_schema(current)) = <<>> THEN {}
  ELSE IF make_index_join(tP, current) = {} THEN {make_product_join(tP, current)}
  ELSE make_index_join(tP, current)

-----------------------------------------------------------------------------
(* heuristic_query_planner::create_plan, a step for each table planner it  *)
(* takes from its set.                                                     *)

Planners(T) == {table_planner(t, data'.pred, asked') : t \in T}
MayAsk(q) ==
  /\ status \in {"idle", "end", "error"} /\ asked < MaxQueries
  /\ asked' = asked + 1 /\ query' = q
  /\ scan' = None /\ out' = <<>>
  /\ UNCHANGED <<db, mIndexes, basic>>

create_query_plan(q) ==
  /\ MayAsk(q)
  /\ data' = parser_query(Text(q)).val
  /\ dangling' = (mTablePlanners # {})

create_plan(q) ==
  /\ ~basic /\ create_query_plan(q)
  /\ ~\E t \in data'.tables : IsView(t)
  /\ mTablePlanners' = mTablePlanners \cup Planners(data'.tables)
  /\ plan' = None /\ status' = "select"

(* Reading the catalog for a table throws: a lock or a buffer cannot be    *)
(* had, or the table is a view, of which this planner does not know.  The  *)
(* table planners made so far stay.                                        *)
create_plan_throws(q) ==
  /\ ~basic /\ create_query_plan(q)
  /\ LET tables == InOrder(data'.tables)
     IN \E n \in 1 .. Len(tables) :
          /\ ~\E i \in 1 .. n - 1 : IsView(tables[i])
          /\ mTablePlanners' = mTablePlanners \cup Planners({tables[i] : i \in 1 .. n - 1})
  /\ plan' = None /\ status' = "error"

Took(tP, p, next) ==
  /\ plan' = p
  /\ mTablePlanners' = mTablePlanners \ {tP}
  /\ status' = IF mTablePlanners' = {} THEN "project" ELSE next
  /\ UNCHANGED <<db, mIndexes, basic, query, data, scan, out, asked, dangling>>

get_lowest_select_plan ==
  /\ status = "select"
  /\ \E tP \in mTablePlanners : \E p \in make_select_plan(tP) : Took(tP, p, "join")

get_lowest_join_plan ==
  /\ status = "join"
  /\ \E tP \in mTablePlanners : \E p \in make_join_plan(tP, plan) : Took(tP, p, "join")

\* Mutant: the product plan is made and dropped, and the loop goes on.
product_plan_is_dropped ==
  /\ status = "join"
  /\ \A tP \in mTablePlanners : make_join_plan(tP, plan) = {}
  /\ UNCHANGED vars

get_lowest_product_plan ==
  /\ status = "join"
  /\ \A tP \in mTablePlanners : make_join_plan(tP, plan) = {}
  /\ \E tP \in mTablePlanners : Took(tP, make_product_plan(tP, plan), "join")

(* project_plan throws if a field is asked for that none of the tables has. *)
thrown_plan == [op |-> "thrown"]
project(p, fields) ==
  IF ToSet(fields) \subseteq ToSet(get_schema(p))
  THEN [op |-> "project", p |-> p, fields |-> fields] ELSE thrown_plan

Planned(p) ==
  IF p.op = "thrown" THEN plan' = None /\ status' = "error" ELSE plan' = p /\ status' = "open"

project_plan ==
  /\ status = "project"
  /\ Planned(project(plan, data.fields))
  /\ UNCHANGED <<db, mIndexes, basic, mTablePlanners, query, data, scan, out, asked, dangling>>

(* basic_query_planner::create_plan: the product of all tables in order,   *)
(* where a view is planned as the query its text says.                     *)
product_plan(plans) ==
  FoldLeft(LAMBDA p, q : [op |-> "product", left |-> p, right |-> q], Head(plans), Tail(plans))

RECURSIVE basic_plan(_)
basic_plan(d) ==
  LET Of(t) ==
        IF ~IsView(t) THEN table_plan(t)
        ELSE With(parser_query(get_view_def(t)), LAMBDA parsed :
               IF parsed.ok THEN basic_plan(parsed.val) ELSE thrown_plan)
      tables == InOrder(d.tables)
      plans == [i \in 1 .. Len(tables) |-> Of(tables[i])]
  IN IF thrown_plan \in ToSet(plans) THEN thrown_plan
     ELSE project([op |-> "select", p |-> product_plan(plans), pred |-> d.pred], d.fields)

basic_create_plan(q) ==
  /\ basic /\ create_query_plan(q)
  /\ Planned(basic_plan(data'))
  /\ UNCHANGED mTablePlanners

(* A program makes a sort_plan or a group_by_plan of its own; the planner  *)
(* is not asked.                                                           *)
program_plans(p) ==
  /\ MayAsk([fields |-> Schema[p.tbl], tables |-> <<p.tbl>>, pred |-> <<>>])
  /\ plan' = p /\ status' = "open"
  /\ UNCHANGED <<mTablePlanners, data>> /\ dangling' = FALSE

-----------------------------------------------------------------------------
(* Opening a plan: plan::open of each class.                               *)
RECURSIVE OpenPlan(_)

open_table(t) == table_scan(Schema[t], db[t])
open_index_select(p) == index_select_scan(open_table(p.tbl), p.fld, p.val)
open_index_join(p) ==
  index_join_scan(OpenPlan(p.left), open_table(p.tbl), p.fld, p.outer)
open_product(p) == product_scan(OpenPlan(p.left), OpenPlan(p.right))

(* Both sides are read at once: the left one into a temporary table that   *)
(* is scanned, the right one into one that is read in chunks.              *)
open_multibuffer(p) ==
  multibuffer_product_scan(materialized(OpenPlan(p.left), get_schema(p.left)),
                           Rows(OpenPlan(p.right), get_schema(p.right)),
                           get_schema(p.right))

open_sort(p) ==
  With(Rows(open_table(p.tbl), Schema[p.tbl]), LAMBDA rows :
    With(merged(p.by, split_into_runs(p.by, <<>>, rows)), LAMBDA runs :
      sort_scan(Schema[p.tbl], p.by, runs)))
open_group_by(p) == group_by_scan(open_sort(p), p.by, p.of)

OpenPlan(p) ==
  CASE p.op = "table" -> open_table(p.tbl)
    [] p.op = "indexSelect" -> open_index_select(p)
    [] p.op = "select" -> select_scan(OpenPlan(p.p), p.pred)
    [] p.op = "project" -> project_scan(OpenPlan(p.p), ToSet(p.fields))
    [] p.op = "product" -> open_product(p)
    [] p.op = "multibuffer" -> open_multibuffer(p)
    [] p.op = "indexJoin" -> open_index_join(p)
    [] p.op = "sort" -> open_sort(p)
    [] p.op = "group" -> open_group_by(p)

\* Mutant: the result set is returned before its plan is opened.
returned_before_open ==
  /\ status = "open" /\ status' = "rows"
  /\ UNCHANGED <<db, mIndexes, basic, mTablePlanners, query, data, plan, scan, out, asked, dangling>>

(* A plan with table planners of a failed query has references to a        *)
(* transaction that is gone: nothing is said of what happens then.         *)
open ==
  /\ status = "open"
  /\ IF dangling THEN status' = "undefined" /\ UNCHANGED scan
     ELSE status' = "rows" /\ scan' = OpenPlan(plan)
  /\ UNCHANGED <<db, mIndexes, basic, mTablePlanners, query, data, plan, out, asked, dangling>>

Columns == IF plan.op = "group" THEN ToSet(plan.by) \cup {maxof} ELSE ToSet(query.fields)

(* next, and a getInt or getString of each field of the row.               *)
next ==
  /\ status = "rows"
  /\ \E n \in {Next(scan)} :
       \/ /\ n.got = "row"
          /\ \E row \in {[f \in Columns |-> Val(n.scan, f)]} :
               IF Error \in Range(row)
               THEN status' = "error" /\ scan' = None /\ UNCHANGED out
               ELSE out' = Append(out, row) /\ scan' = n.scan /\ UNCHANGED status
       \/ /\ n.got # "row"
          /\ status' = CASE n.got = "end" -> "end" [] n.got = "error" -> "error" [] OTHER -> "undefined"
          /\ scan' = None /\ UNCHANGED out
  /\ UNCHANGED <<db, mIndexes, basic, mTablePlanners, query, data, plan, asked, dangling>>

-----------------------------------------------------------------------------
Ask ==
  \/ \E q \in Queries : create_plan(q) \/ create_plan_throws(q) \/ basic_create_plan(q)
  \/ \E p \in Sorts : program_plans(p)

Work ==
  \/ get_lowest_select_plan \/ get_lowest_join_plan \/ get_lowest_product_plan
  \/ project_plan \/ open \/ next

Finished == {"end", "error", "undefined"}

(* The end of a behaviour: the client asks no more.                        *)
AtBounds ==
  /\ status = "undefined" \/ (status \in Finished /\ asked = MaxQueries)
  /\ UNCHANGED vars

NextStep == Ask \/ Work \/ AtBounds

Spec == Init /\ [][NextStep]_vars /\ WF_vars(Work)

-----------------------------------------------------------------------------
(* Properties.                                                             *)

TypeOK ==
  /\ db \in Contents /\ mIndexes \in IndexSets /\ basic \in Basic
  /\ \A tP \in mTablePlanners : tP.tbl \in DOMAIN Schema /\ tP.by \in 1 .. MaxQueries
  /\ query # None => ToSet(query.tables) \subseteq ToSet(NameOrder)
  /\ status \in {"idle", "select", "join", "project", "open", "rows"} \cup Finished
  /\ (status = "rows") = (scan # None)
  /\ \A i \in 1 .. Len(out) : DOMAIN out[i] = Columns
  /\ asked \in 0 .. MaxQueries /\ dangling \in BOOLEAN

(* What a query means: a row of each table such that the predicate holds.  *)
(* A row of a table is its number, a row of a view what its query means.   *)
RowsOf(t) == FlattenSeq(db[t])
FieldsOf(t) == IF IsView(t) THEN ToSet(Views[t].fields) ELSE ToSet(Schema[t])

RECURSIVE FieldOf(_, _, _), Combinations(_, _), Answer(_)
FieldOf(q, c, f) ==
  LET i == CHOOSE j \in DOMAIN q.tables : f \in FieldsOf(q.tables[j])
      t == q.tables[i]
  IN IF IsView(t) THEN FieldOf(Views[t], c[i], f) ELSE RowsOf(t)[c[i]][f]
Combinations(q, n) ==
  IF n = 0 THEN {<<>>}
  ELSE LET t == q.tables[n]
       IN {Append(p[1], p[2]) : p \in Combinations(q, n - 1)
                                      \X (IF IsView(t) THEN Answer(Views[t]) ELSE 1 .. Len(RowsOf(t)))}
Answer(q) ==
  LET Meaning(e, c) == IF e.kind = "field" THEN FieldOf(q, c, e.of) ELSE e.of
  IN {c \in Combinations(q, Len(q.tables)) :
        \A i \in 1 .. Len(q.pred) : Meaning(q.pred[i].lhs, c) = Meaning(q.pred[i].rhs, c)}
Times(q, row) ==
  Cardinality({c \in Answer(q) : \A f \in ToSet(q.fields) : row[f] = FieldOf(q, c, f)})

(* The rows a subplan stands for, and whether some product or join of the  *)
(* plan has no row on its left side.                                       *)
RECURSIVE Relation(_), LeftEmpty(_), Nested(_), LosesQuotes(_)
Sat(pred, r) == \A i \in 1 .. Len(pred) :
  LET V(e) == IF e.kind = "field" THEN r[e.of] ELSE e.of IN V(pred[i].lhs) = V(pred[i].rhs)
Relation(p) ==
  CASE p.op = "table" -> ToSet(RowsOf(p.tbl))
    [] p.op = "indexSelect" -> {r \in ToSet(RowsOf(p.tbl)) : r[p.fld] = p.val}
    [] p.op = "select" -> {r \in Relation(p.p) : Sat(p.pred, r)}
    [] p.op = "project" -> Relation(p.p)
    [] p.op = "indexJoin" ->
         {r @@ s : <<r, s>> \in {x \in Relation(p.left) \X ToSet(RowsOf(p.tbl)) :
                                  p.outer \in DOMAIN x[1] => x[1][p.outer] = x[2][p.fld]}}
    [] OTHER -> {r @@ s : r \in Relation(p.left), s \in Relation(p.right)}
LeftEmpty(p) ==
  CASE p.op \in {"select", "project"} -> LeftEmpty(p.p)
    [] p.op = "indexJoin" -> LeftEmpty(p.left) \/ Relation(p.left) = {}
    [] p.op \in {"product", "multibuffer"} ->
         LeftEmpty(p.left) \/ LeftEmpty(p.right) \/ Relation(p.left) = {}
    [] OTHER -> FALSE
Nested(p) ==
  CASE p.op \in {"select", "project"} -> Nested(p.p)
    [] p.op = "product" -> p.left.op = "product" \/ Nested(p.left) \/ Nested(p.right)
    [] OTHER -> FALSE

(* Whether the query is about a view that compares with a string.          *)
LosesQuotes(q) == \E t \in ToSet(q.tables) : IsView(t) /\
  \/ LosesQuotes(Views[t])
  \/ \E i \in 1 .. Len(Views[t].pred) :
       "string" \in {Views[t].pred[i].lhs.kind, Views[t].pred[i].rhs.kind}

SortedBy(by, rows) == \A i \in 2 .. Len(rows) : compare(by, rows[i - 1], rows[i]) <= 0

(* The groups of a group_by_plan, each with the greatest value in it.      *)
GroupRows(p) ==
  {g @@ (maxof :> Max({r[p.of] : r \in {x \in ToSet(RowsOf(p.tbl)) : \A f \in ToSet(p.by) : x[f] = g[f]}})) :
     g \in {[f \in ToSet(p.by) |-> r[f]] : r \in ToSet(RowsOf(p.tbl))}}

(* Whatever order the planner puts the tables in, whatever indexes it uses *)
(* and however the right sides are cut into chunks, a query returns the    *)
(* rows its SQL means, each as often as it should: none too many at any    *)
(* time, all of them at the end.  So it does on views, whose text the      *)
(* catalog keeps.  A sort_plan returns them in order, a group_by_plan each *)
(* group once with its maximum.  This holds if no product or join has an   *)
(* empty left side (productscan.cpp:4-10 does not look), and if no view    *)
(* compares with a string, which its text has no quotes around             *)
(* (constant.cpp:79).                                                      *)
RowsExact ==
  status \in {"rows", "end"} /\ ~LosesQuotes(query) /\ ~LeftEmpty(plan) =>
    LET Count(r) == Cardinality({i \in 1 .. Len(out) : out[i] = r})
    IN IF plan.op = "group"
       THEN /\ ToSet(out) \subseteq GroupRows(plan) /\ Len(out) = Cardinality(ToSet(out))
            /\ status = "end" => ToSet(out) = GroupRows(plan)
       ELSE /\ \A i \in 1 .. Len(out) : Count(out[i]) <= Times(query, out[i])
            /\ status = "end" => Len(out) = Cardinality(Answer(query))
            /\ plan.op = "sort" => SortedBy(plan.by, out)

(* Once planned, a query throws (for want of locks or buffers apart, which *)
(* Scans leaves out) only if some left side is empty, if a view compares   *)
(* with a string, or if the basic planner has nested a product in another  *)
(* (productscan.cpp:52): no plan of the heuristic planner asks a scan for  *)
(* a field it does not have.  The process dies only of a query planned     *)
(* with what a failed one left behind, and of rows to be sorted that are   *)
(* in order already, or none (sortscan.cpp:27, sortscan.cpp:7).            *)
ErrorsExplained ==
  /\ status = "error" /\ plan # None => LosesQuotes(query) \/ LeftEmpty(plan) \/ Nested(plan)
  /\ status = "undefined" =>
       dangling \/ (plan.op \in {"sort", "group"} /\ SortedBy(plan.by, RowsOf(plan.tbl)))

(* Every query that is asked ends, if the client goes on calling next: the *)
(* planner runs out of table planners (heuristicqueryplanner.cpp:23-30)    *)
(* and the scans out of rows.                                              *)
QueryReturns == (status \notin Finished \cup {"idle"}) ~> (status \in Finished)
=============================================================================
