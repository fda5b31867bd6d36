-------------------------------- MODULE Scans --------------------------------
(***************************************************************************)
(* The scans a query is made of, as cursors: a scan is a value, and the    *)
(* operators of its class say what before_first, next and get_val do with  *)
(* it.  The scans of a query form a tree; a class calls those below it     *)
(* through Next, BeforeFirst, Val and Has, as the code does through its    *)
(* virtual functions.                                                      *)
(*                                                                         *)
(* A row is a function from fields to values, a file a sequence of blocks  *)
(* of rows, a schema a sequence of fields.  Locks, pins and slots not in   *)
(* use are TableScan's; an index lists the records of its table with a key. *)
(***************************************************************************)
EXTENDS Integers, SequencesExt

CONSTANTS
  Error,         \* instead of a value: an exception
  RecsPerBlock,  \* records of a temporary table that fit in a block
  Available      \* buffers that are free when a product is opened

ASSUME ScansAssumption ==
  RecsPerBlock \in Nat \ {0} /\ Available \in Nat

(* What next does: it returns true with the scan at a row, false with the  *)
(* scan at the end, or throws; or the process dies, of a null pointer.  A  *)
(* scan whose constructor did not return is one whose first next does not. *)
AtRow(s) == [scan |-> s, got |-> "row"]
AtEnd(s) == [scan |-> s, got |-> "end"]
Threw(s) == [scan |-> s, got |-> "error"]
Died(s) == [scan |-> s, got |-> "dies"]
thrown == [op |-> "thrown"]
died == [op |-> "died"]

RECURSIVE Next(_), BeforeFirst(_), Val(_, _), Has(_, _)

(* F of the value of x, which TLC then computes once.                      *)
With(x, F(_)) == CHOOSE y \in {F(v) : v \in {x}} : TRUE

-----------------------------------------------------------------------------
(* table_scan, and chunk_scan over the blocks first to last of a file.     *)

table_scan(fields, blocks) ==
  [op |-> "table", fields |-> fields, rows |-> FlattenSeq(blocks),
   last |-> Len(FlattenSeq(SubSeq(blocks, 1, Len(blocks) - 1))),
   at |-> 0, on |-> FALSE]

chunk_scan(fields, blocks, first, last) ==
  table_scan(fields, SubSeq(blocks, first, last))

(* After the end mCurrentSlot is -1 and the page that of the last block.   *)
table_next(s) ==
  IF s.at < Len(s.rows)
  THEN AtRow([s EXCEPT !.at = @ + 1, !.on = TRUE])
  ELSE AtEnd([s EXCEPT !.at = s.last, !.on = FALSE])

(* A scan at no row is at slot -1, in front of its page: it throws.        *)
table_val(s, f) == IF s.on /\ f \in ToSet(s.fields) THEN s.rows[s.at][f] ELSE Error

move_to_rid(s, i) == [s EXCEPT !.at = i, !.on = TRUE]

-----------------------------------------------------------------------------
(* Terms equate two expressions, each a field or a constant; a predicate   *)
(* is a sequence of terms.                                                 *)
evaluate(e, s) == IF e.kind = "field" THEN Val(s, e.of) ELSE e.of

term_is_satisfied(t, s) ==
  LET l == evaluate(t.lhs, s)
      r == evaluate(t.rhs, s)
  IN IF Error \in {l, r} THEN Error ELSE l = r

(* The first term that does not hold decides; those after it are not       *)
(* evaluated.                                                              *)
is_satisfied(pred, s) ==
  LET No == {i \in 1 .. Len(pred) : term_is_satisfied(pred[i], s) # TRUE}
  IN IF No = {} THEN TRUE ELSE term_is_satisfied(pred[Min(No)], s)

select_scan(s, pred) == [op |-> "select", s |-> s, pred |-> pred]

select_next(s) == With(Next(s.s), LAMBDA n :
  LET at == [s EXCEPT !.s = n.scan]
  IN IF n.got # "row" THEN [n EXCEPT !.scan = at]
     ELSE With(is_satisfied(s.pred, n.scan), LAMBDA ok :
            CASE ok = Error -> Threw(at)
              [] ok = TRUE -> AtRow(at)
              [] OTHER -> Next(at)))

project_scan(s, fields) == [op |-> "project", s |-> s, fields |-> fields]

project_next(s) == With(Next(s.s), LAMBDA n :
  [n EXCEPT !.scan = [s EXCEPT !.s = n.scan]])

-----------------------------------------------------------------------------
(* The constructor of product_scan, and its before_first.  The result of   *)
(* the left next is not looked at.                                         *)
product_scan(s1, s2) == With(Next(BeforeFirst(s1)), LAMBDA n :
  IF n.got = "error" THEN thrown
  ELSE [op |-> "product", s1 |-> n.scan, s2 |-> BeforeFirst(s2)])

product_next(s) == With(Next(s.s2), LAMBDA n :
  IF n.got # "end" THEN [n EXCEPT !.scan = [s EXCEPT !.s2 = n.scan]]
  ELSE With(Next(BeforeFirst(n.scan)), LAMBDA again :
    IF again.got # "row" THEN [again EXCEPT !.scan = [s EXCEPT !.s2 = again.scan]]
    ELSE With(Next(s.s1), LAMBDA left :
      [left EXCEPT !.scan = [s EXCEPT !.s1 = left.scan, !.s2 = again.scan]])))

-----------------------------------------------------------------------------
(* index_select_scan and index_join_scan.  found lists the records the     *)
(* index has yet to return.                                                *)
IndexOn(ts, f, v) == SelectSeq([i \in 1 .. Len(ts.rows) |-> i],
                               LAMBDA i : ts.rows[i][f] = v)

index_select_scan(ts, f, v) ==
  [op |-> "indexSelect", s |-> ts, found |-> IndexOn(ts, f, v), fld |-> f, key |-> v]

index_select_next(s) ==
  IF s.found = <<>> THEN AtEnd(s)
  ELSE AtRow([s EXCEPT !.s = move_to_rid(s.s, Head(s.found)), !.found = Tail(@)])

(* reset_index throws if the left scan is at no row.                       *)
reset_index(s) == With(Val(s.lhs, s.outer), LAMBDA v :
  IF v = Error THEN thrown ELSE [s EXCEPT !.found = IndexOn(s.rhs, s.fld, v)])

index_join_scan(lhs, ts, f, outer) == With(Next(BeforeFirst(lhs)), LAMBDA n :
  IF n.got = "error" THEN thrown
  ELSE reset_index([op |-> "indexJoin", lhs |-> n.scan, rhs |-> ts, fld |-> f,
                    outer |-> outer, found |-> <<>>]))

index_join_next(s) ==
  IF s.found # <<>>
  THEN AtRow([s EXCEPT !.rhs = move_to_rid(s.rhs, Head(s.found)), !.found = Tail(@)])
  ELSE With(Next(s.lhs), LAMBDA n :
         LET at == [s EXCEPT !.lhs = n.scan]
         IN IF n.got = "row" THEN Next(reset_index(at)) ELSE [n EXCEPT !.scan = at])

-----------------------------------------------------------------------------
(* Temporary tables.  Rows(s, fields) are those next still returns, or     *)
(* Error: what materialize_plan::open and copy_records_from insert.        *)
RECURSIVE Rows(_, _)
Rows(s, fields) == With(Next(s), LAMBDA n :
  IF n.got = "end" THEN <<>>
  ELSE With([f \in ToSet(fields) |-> Val(n.scan, f)], LAMBDA row :
    IF n.got = "error" \/ Error \in Range(row) THEN Error
    ELSE With(Rows(n.scan, fields), LAMBDA rest :
           IF rest = Error THEN Error ELSE <<row>> \o rest)))

Least(a, b) == IF a < b THEN a ELSE b
CeilDiv(a, b) == (a + b - 1) \div b

NumBlocks(rows) == IF rows = <<>> THEN 1 ELSE CeilDiv(Len(rows), RecsPerBlock)
temp_table(rows) ==
  [i \in 1 .. NumBlocks(rows) |->
     SubSeq(rows, (i - 1) * RecsPerBlock + 1, Least(i * RecsPerBlock, Len(rows)))]

materialized(s, fields) == With(Rows(s, fields), LAMBDA rows :
  IF rows = Error THEN thrown ELSE table_scan(fields, temp_table(rows)))

(* buffer_needs::best_factor: the least share of size that fits.           *)
best_factor(available, size) ==
  LET avail == available - 2
  IN IF avail <= 1 THEN 1
     ELSE CeilDiv(size, Min({i \in 1 .. size : CeilDiv(size, i) <= avail}))

(* multibuffer_product_scan: the product, chunk by chunk of the right side.*)
\* Mutant: a chunk begins with the last block of the one before.
use_next_chunk_overlapping(s) ==
  LET first == IF s.nextBlkNum = 0 THEN 1 ELSE s.nextBlkNum
      end == Least(s.nextBlkNum + s.chunkSize, Len(s.blocks))
  IN [s EXCEPT !.prod = product_scan(s.lhs, chunk_scan(s.fields, s.blocks, first, end)),
               !.nextBlkNum = end]

use_next_chunk(s) ==
  LET end == Least(s.nextBlkNum + s.chunkSize, Len(s.blocks))
  IN [s EXCEPT !.prod = product_scan(s.lhs,
                          chunk_scan(s.fields, s.blocks, s.nextBlkNum + 1, end)),
               !.nextBlkNum = end]

multibuffer_product_scan(lhs, right, fields) == With(right, LAMBDA rows :
  IF rows = Error THEN thrown
  ELSE With([op |-> "multibuffer", lhs |-> lhs, blocks |-> temp_table(rows),
             fields |-> fields, chunkSize |-> best_factor(Available, NumBlocks(rows)),
             nextBlkNum |-> 0, prod |-> thrown],
            use_next_chunk))

multibuffer_next(s) == With(Next(s.prod), LAMBDA n :
  LET at == [s EXCEPT !.prod = n.scan]
  IN IF n.got # "end" \/ s.nextBlkNum >= Len(s.blocks) THEN [n EXCEPT !.scan = at]
     ELSE Next(use_next_chunk(at)))

-----------------------------------------------------------------------------
(* sort_plan and sort_scan, over the rows of the plan to be sorted.        *)
RECURSIVE compare(_, _, _)
compare(fields, r1, r2) ==
  CASE fields = <<>> -> 0
    [] fields # <<>> /\ r1[Head(fields)] < r2[Head(fields)] -> -1
    [] fields # <<>> /\ r2[Head(fields)] < r1[Head(fields)] -> 1
    [] OTHER -> compare(Tail(fields), r1, r2)

(* A run goes on while no row is less than the one before.                 *)
RECURSIVE split_into_runs(_, _, _)
split_into_runs(by, runs, rows) ==
  IF rows = <<>> THEN runs
  ELSE With(IF runs # <<>> /\ compare(by, Head(rows), Last(Last(runs))) >= 0
            THEN Front(runs) \o <<Append(Last(runs), Head(rows))>>
            ELSE Append(runs, <<Head(rows)>>),
            LAMBDA more : split_into_runs(by, more, Tail(rows)))

RECURSIVE merge_two_runs(_, _, _), do_a_merge_iteration(_, _), merged(_, _)
merge_two_runs(by, r1, r2) ==
  IF r1 = <<>> \/ r2 = <<>> THEN r1 \o r2
  ELSE IF compare(by, Head(r1), Head(r2)) < 0
       THEN <<Head(r1)>> \o merge_two_runs(by, Tail(r1), r2)
       ELSE <<Head(r2)>> \o merge_two_runs(by, r1, Tail(r2))
do_a_merge_iteration(by, runs) ==
  IF Len(runs) < 2 THEN runs
  ELSE <<merge_two_runs(by, runs[1], runs[2])>>
       \o do_a_merge_iteration(by, SubSeq(runs, 3, Len(runs)))
merged(by, runs) ==
  IF Len(runs) <= 2 THEN runs
  ELSE With(do_a_merge_iteration(by, runs), LAMBDA fewer : merged(by, fewer))

(* The constructor takes the first run without looking whether there is one. *)
null == [op |-> "null"]
Begun(s) == Next(BeforeFirst(s))
Begin(s, s1, s2) == With(Begun(s1), LAMBDA n1 : With(IF s2 = null THEN AtEnd(null) ELSE Begun(s2), LAMBDA n2 :
  [s EXCEPT !.s1 = n1.scan, !.hasMore1 = (n1.got = "row"),
            !.s2 = n2.scan, !.hasMore2 = (n2.got = "row")]))

sort_scan(fields, by, runs) ==
  IF runs = <<>> THEN died
  ELSE Begin([op |-> "sort", by |-> by, current |-> 0,
              s1 |-> null, hasMore1 |-> FALSE, s2 |-> null, hasMore2 |-> FALSE],
             table_scan(fields, <<runs[1]>>),
             IF Len(runs) > 1 THEN table_scan(fields, <<runs[2]>>) ELSE null)

(* before_first begins the runs, and leaves mCurrentScan.                  *)
sort_before_first(s) == Begin(s, s.s1, s.s2)
Current(s) == IF s.current = 1 THEN s.s1 ELSE s.s2

(* With one run mS2 is null, and so is mCurrentScan before the first next:  *)
(* they compare equal, and next of a null scan is called.                  *)
sort_next(s) ==
  IF s.current = 0 /\ s.s2 = null THEN Died(s)
  ELSE With(IF s.current = 0 THEN s
            ELSE With(Next(Current(s)), LAMBDA n :
                   IF s.current = 1 THEN [s EXCEPT !.s1 = n.scan, !.hasMore1 = (n.got = "row")]
                   ELSE [s EXCEPT !.s2 = n.scan, !.hasMore2 = (n.got = "row")]),
            LAMBDA m :
    CASE ~m.hasMore1 /\ ~m.hasMore2 -> AtEnd(m)
      [] m.hasMore1 /\ m.hasMore2 ->
           AtRow([m EXCEPT !.current =
                    IF compare(m.by, m.s1.rows[m.s1.at], m.s2.rows[m.s2.at]) < 0 THEN 1 ELSE 2])
      [] OTHER -> AtRow([m EXCEPT !.current = IF m.hasMore1 THEN 1 ELSE 2]))

-----------------------------------------------------------------------------
(* group_by_scan: the rows of its sorted scan, a group at a time, with the *)
(* greatest value of one field (max_fn).                                   *)
maxof == "maxof"

group_by_scan(s, by, of) == With(Next(BeforeFirst(s)), LAMBDA n :
  IF n.got = "dies" THEN died
  ELSE [op |-> "group", s |-> n.scan, more |-> n.got = "row", by |-> by, of |-> of,
        groupVal |-> <<>>, mVal |-> 0])

group_value(s, by) == [f \in ToSet(by) |-> Val(s, f)]

(* The rest of the group: those that come next and have its values.        *)
RECURSIVE RestOfGroup(_)
RestOfGroup(g) == With(Next(g.s), LAMBDA n :
  IF n.got # "row" THEN [g EXCEPT !.s = n.scan, !.more = FALSE]
  ELSE IF group_value(n.scan, g.by) # g.groupVal THEN [g EXCEPT !.s = n.scan]
  ELSE With([g EXCEPT !.s = n.scan,
                      !.mVal = IF Val(n.scan, g.of) > @ THEN Val(n.scan, g.of) ELSE @],
            RestOfGroup))

group_next(g) ==
  IF ~g.more THEN AtEnd(g)
  ELSE AtRow(RestOfGroup([g EXCEPT !.groupVal = group_value(g.s, g.by), !.mVal = Val(g.s, g.of)]))

-----------------------------------------------------------------------------
(* The virtual functions.                                                  *)

Next(scan) == With(scan, LAMBDA s :
  CASE s.op = "thrown" -> Threw(s)
    [] s.op = "died" -> Died(s)
    [] s.op = "sort" -> sort_next(s)
    [] s.op = "group" -> group_next(s)
    [] s.op = "table" -> table_next(s)
    [] s.op = "select" -> select_next(s)
    [] s.op = "project" -> project_next(s)
    [] s.op = "product" -> product_next(s)
    [] s.op = "indexSelect" -> index_select_next(s)
    [] s.op = "indexJoin" -> index_join_next(s)
    [] s.op = "multibuffer" -> multibuffer_next(s))

BeforeFirst(scan) == With(scan, LAMBDA s :
  CASE s.op \in {"thrown", "died"} -> s
    [] s.op = "sort" -> sort_before_first(s)
    [] s.op = "group" -> group_by_scan(s.s, s.by, s.of)
    [] s.op = "table" -> [s EXCEPT !.at = 0, !.on = FALSE]
    [] s.op \in {"select", "project"} -> [s EXCEPT !.s = BeforeFirst(@)]
    [] s.op = "product" -> product_scan(s.s1, s.s2)
    [] s.op = "indexSelect" -> index_select_scan(s.s, s.fld, s.key)
    [] s.op = "indexJoin" -> index_join_scan(s.lhs, s.rhs, s.fld, s.outer)
    [] s.op = "multibuffer" -> use_next_chunk([s EXCEPT !.nextBlkNum = 0]))

(* product_scan::has_field asks both sides to have the field.              *)
Has(scan, f) == With(scan, LAMBDA s :
  CASE s.op \in {"thrown", "died"} -> FALSE
    [] s.op = "sort" -> Has(Current(s), f)
    [] s.op = "group" -> f \in ToSet(s.by) \cup {maxof}
    [] s.op = "table" -> f \in ToSet(s.fields)
    [] s.op = "project" -> f \in s.fields
    [] s.op \in {"select", "indexSelect"} -> Has(s.s, f)
    [] s.op = "product" -> Has(s.s1, f) /\ Has(s.s2, f)
    [] s.op = "indexJoin" -> Has(s.rhs, f) \/ Has(s.lhs, f)
    [] s.op = "multibuffer" -> Has(s.prod, f))

Val(scan, f) == With(scan, LAMBDA s :
  CASE s.op \in {"thrown", "died"} -> Error
    [] s.op = "sort" -> Val(Current(s), f)
    [] s.op = "group" ->
         IF f \in ToSet(s.by) THEN s.groupVal[f] ELSE IF f = maxof THEN s.mVal ELSE Error
    [] s.op = "table" -> table_val(s, f)
    [] s.op \in {"select", "indexSelect"} -> Val(s.s, f)
    [] s.op = "project" -> IF f \in s.fields THEN Val(s.s, f) ELSE Error
    [] s.op = "product" -> IF Has(s.s1, f) THEN Val(s.s1, f) ELSE Val(s.s2, f)
    [] s.op = "indexJoin" -> IF Has(s.rhs, f) THEN Val(s.rhs, f) ELSE Val(s.lhs, f)
    [] s.op = "multibuffer" -> Val(s.prod, f))
=============================================================================
