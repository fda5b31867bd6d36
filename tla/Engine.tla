-------------------------------- MODULE Engine --------------------------------
(***************************************************************************)
(* The engine above its transactions: how it starts, the catalog, and the  *)
(* statements that change the database, with the indexes they maintain.    *)
(* One connection runs one statement after the other, each given as text.  *)
(* A statement may throw between any two of its steps, and the process may *)
(* end at any time.                                                        *)
(*                                                                         *)
(* disk is what the transactions so far have committed, work what the      *)
(* current one sees (TxSystem shows that it commits and is undone as a     *)
(* whole).  What is not logged is not undone: files keep their new blocks, *)
(* and the blocks their format.  A file of records is a sequence of slots, *)
(* an index a pair of files of BTree.                                      *)
(***************************************************************************)
EXTENDS BTree, Parser

CONSTANTS
  None,
  Schema,         \* the fields of each table a client may create, in order
  KeySize,        \* the size of each field as a key
  Indexes,        \* the table and field of each index a client may create
  Statements,     \* the statements of the client: their text, and what it means
  Databases,      \* databases to begin with: <<>>, or statements done so far
  Basic,          \* whether the engine is built with basic_update_planner
  RecsPerBlock,   \* slots of a block of records
  MaxStatements,  \* bound: statements of a behaviour
  MaxThrows,      \* bound: exceptions for want of a lock or a buffer
  MaxCrashes      \* bound: crashes

CatalogSchema ==
  [tblcat |-> <<"tblname">>, fldcat |-> <<"tblname", "fldname">>,
   viewcat |-> <<"viewname", "viewdef">>,
   idxcat |-> <<"indexname", "tablename", "fieldname">>]
Catalog == DOMAIN CatalogSchema
Tables == DOMAIN Schema

ASSUME EngineAssumption ==
  /\ Tables \cap Catalog = {} /\ RecsPerBlock \in Nat \ {0}
  /\ \A t \in Tables : Len(Schema[t]) \in Nat
  /\ \A i \in DOMAIN Indexes : Indexes[i].tbl \in Tables
  /\ Basic \subseteq BOOLEAN
  /\ MaxStatements \in Nat /\ MaxThrows \in Nat /\ MaxCrashes \in Nat

starting == [op |-> "start"]

(* What the parser makes of a statement.                                   *)
Read(s) == IF s.means.op = "select" THEN parser_query(s.text) ELSE update_cmd(s.text)

Creates == {"create_table", "create_index", "create_view"}

(* The predicate of a parsed statement requires of each field of pred that *)
(* it has the value pred gives it, and nothing else.                       *)
Requires(terms, pred) ==
  /\ \A i \in DOMAIN terms : terms[i].lhs.kind = "field" /\ terms[i].rhs.kind # "field"
  /\ {<<terms[i].lhs.of, terms[i].rhs.of>> : i \in DOMAIN terms} =
       {<<f, pred[f]>> : f \in DOMAIN pred}

(* A parsed statement says what the client means by it.                    *)
Says(p, m) ==
  /\ p.op = IF m.op = "select" THEN "query" ELSE m.op
  /\ m.op \in {"insert", "delete", "modify"} => p.tbl = m.tbl /\ m.tbl \in Tables
  /\ m.op = "insert" =>
       /\ DOMAIN p.fields = 1 .. Len(p.fields) /\ Len(p.fields) \in Nat \ {0}
       /\ ToSet(p.fields) = DOMAIN m.row
       /\ \A i \in DOMAIN p.fields : p.vals[i].of = m.row[p.fields[i]]
  /\ m.op \in {"delete", "modify"} => Requires(p.pred, m.pred)
  /\ m.op = "modify" => p.fld = m.fld /\ p.val.kind # "field" /\ p.val.of = m.val
  /\ m.op = "create_table" => Len(p.sch) \in Nat

Understood(s) == Read(s).val # None /\ Says(Read(s).val, s.means)

ASSUME StatementsAssumption ==
  /\ None # starting
  /\ \A s \in Statements : Read(s).ok => Understood(s)
  /\ \A made \in Databases :
       /\ Len(made) \in Nat
       /\ \A i \in 1 .. Len(made) : Understood(made[i]) /\ made[i].means.op \in Creates

VARIABLES
  mIsNew,     \* the directory of the database does not exist yet
  disk,       \* the files, as the committed transactions leave them
  work,       \* the files, as the current transaction sees them
  trail,      \* what work was before each step of the transaction
  basic,      \* whether the planner is basic_update_planner
  status,     \* where the engine is
  stmt,       \* the statement being executed
  means,      \* what the client means by it
  indexes,    \* its map from fields to indexes
  at,         \* the slot its scan is at
  left,       \* what is left to do at that slot
  failed,     \* why the last statement failed, or None
  expected,   \* what the tables should contain
  missed,     \* indexes that some row of their table was kept from
  spoilt,     \* whether a statement was left half undone, and committed so
  statements, throws, crashes

statement == <<stmt, means, indexes, at, left>>
ghosts == <<expected, missed>>
bounds == <<statements, throws, crashes>>
vars == <<mIsNew, disk, work, trail, basic, status, statement, failed, ghosts, spoilt, bounds>>

-----------------------------------------------------------------------------
(* Files of records.                                                       *)

FieldsOf(f) == IF f \in Catalog THEN CatalogSchema[f] ELSE Schema[f]
EmptySlot(f) == [used |-> FALSE,
                 row |-> [fld \in ToSet(FieldsOf(f)) |->
                            CASE fld = "viewdef" -> <<>>
                              [] fld # "viewdef" /\ f \in Catalog -> ""
                              [] OTHER -> 0]]

\* Mutant: format makes one slot of a new block.
one_slot(f) == <<EmptySlot(f)>>
EmptyBlock(f) == [i \in 1 .. RecsPerBlock |-> EmptySlot(f)]

(* The constructor of table_scan appends a block to a file of none.        *)
table_scan(w, f) == [w EXCEPT !.files[f] = IF @ = <<>> THEN @ \o EmptyBlock(f) ELSE @]

UsedSlots(w, f) == {i \in DOMAIN w.files[f] : w.files[f][i].used}
Rows(w, f) == [i \in UsedSlots(w, f) |-> w.files[f][i].row]

(* insert, after slot i: the first slot that is empty, in a new block if    *)
(* there is none.  The fields of the slot stay as they are.                *)
RoomFor(w, f, i) ==
  IF \E j \in DOMAIN w.files[f] \ UsedSlots(w, f) : j > i THEN w
  ELSE [w EXCEPT !.files[f] = @ \o EmptyBlock(f)]
FreeSlot(w, f, i) ==
  LET v == RoomFor(w, f, i) IN Min({j \in DOMAIN v.files[f] \ UsedSlots(v, f) : j > i})
insert_after(w, f, i) ==
  [RoomFor(w, f, i) EXCEPT !.files[f][FreeSlot(w, f, i)].used = TRUE]

insert_row(w, f, row) ==
  LET v == table_scan(w, f)
  IN [insert_after(v, f, 0) EXCEPT !.files[f][FreeSlot(v, f, 0)].row = row]

insert_rows(w, recs) ==
  LET after[n \in 0 .. Len(recs)] ==
        IF n = 0 THEN w ELSE insert_row(after[n - 1], recs[n].file, recs[n].row)
  IN after[Len(recs)]

-----------------------------------------------------------------------------
(* table_manager, view_manager and index_manager: what each inserts into   *)
(* the catalog, in this order.                                             *)

Record(f, row) == [file |-> f, row |-> row]

create_table(t, fields) ==
  <<Record("tblcat", [tblname |-> t])>>
  \o [i \in 1 .. Len(fields) |-> Record("fldcat", [tblname |-> t, fldname |-> fields[i]])]

(* get_layout: the slot size is -1 unless the table is in tblcat; whoever  *)
(* computes a position in a slot with it throws.                           *)
HasLayout(w, t) == \E i \in UsedSlots(w, "tblcat") : w.files["tblcat"][i].row.tblname = t
LayoutFields(w, t) ==
  LET Mine == SelectSeq(w.files["fldcat"], LAMBDA s : s.used /\ s.row.tblname = t)
  IN [i \in DOMAIN Mine |-> Mine[i].row.fldname]

create_view(v, def) == <<Record("viewcat", [viewname |-> v, viewdef |-> def])>>

(* create_index does not ask whether the field exists, and does not look   *)
(* at the rows of the table.                                               *)
create_index(name, t, fld) ==
  <<Record("idxcat", [indexname |-> name, tablename |-> t, fieldname |-> fld])>>

(* get_index_info: of several indexes on a field, the last one.  It throws *)
(* if there is no idxcat, and if an index is on a field the table lacks.   *)
IndexRows(w, t) == SelectSeq(w.files["idxcat"], LAMBDA s : s.used /\ s.row.tablename = t)
IndexInfoThrows(w, t) ==
  \/ ~HasLayout(w, "idxcat")
  \/ \E i \in DOMAIN IndexRows(w, t) :
       IndexRows(w, t)[i].row.fieldname \notin ToSet(LayoutFields(w, t))
get_index_info(w, t) ==
  [fld \in {IndexRows(w, t)[i].row.fieldname : i \in DOMAIN IndexRows(w, t)} |->
     Last(SelectSeq(IndexRows(w, t), LAMBDA s : s.row.fieldname = fld)).row.indexname]

(* index_info::open.                                                       *)
open_index(w, name) == [w EXCEPT !.idx[name] = open(@)]

-----------------------------------------------------------------------------
(* A database on which some statements have been executed.                 *)
NoFiles ==
  [files |-> [f \in Catalog \cup Tables |-> <<>>],
   idx |-> [i \in DOMAIN Indexes |->
              Unopened(IF Indexes[i].fld \in DOMAIN KeySize THEN KeySize[Indexes[i].fld] ELSE 4)]]

\* What metadata_manager creates, in this order.
CatalogTables == <<"tblcat", "fldcat", "viewcat", "idxcat">>
make_catalog(t) == create_table(t, CatalogSchema[t])

Created(s) ==
  CASE s.op = "create_table" -> create_table(s.tbl, [i \in 1 .. Len(s.sch) |-> s.sch[i].fld])
    [] s.op = "create_index" -> create_index(s.name, s.tbl, s.fld)
    [] s.op = "create_view" -> create_view(s.name, view_def(s.query, SetToSeq(s.query.tables)))

DatabaseOf(made) ==
  insert_rows(insert_rows(NoFiles, FlattenSeq([i \in 1 .. 4 |-> make_catalog(CatalogTables[i])])),
              FlattenSeq([i \in 1 .. Len(made) |-> Created(Read(made[i]).val)]))

Init ==
  /\ \/ mIsNew = TRUE /\ disk = NoFiles
     \/ mIsNew = FALSE /\ \E made \in Databases : disk = DatabaseOf(made)
  /\ work = disk /\ trail = <<>> /\ basic \in Basic
  /\ status = "down" /\ stmt = None /\ means = None /\ indexes = <<>> /\ at = 0 /\ left = <<>>
  /\ failed = None /\ expected = [t \in Tables |-> <<>>] /\ missed = {} /\ spoilt = "no"
  /\ statements = 0 /\ throws = 0 /\ crashes = 0

-----------------------------------------------------------------------------
(* Steps of a statement, and its end.                                      *)

Changes(w) == work' = w /\ trail' = Append(trail, work)
Goes(to) == status' = to
Unmoved == UNCHANGED <<mIsNew, disk, basic, failed, ghosts, spoilt, bounds>>

(* The changes since before, undone.                                       *)
UndoneTo(before, lost) ==
  [files |-> [f \in DOMAIN work.files |->
                [i \in DOMAIN work.files[f] |->
                   IF i \in DOMAIN before.files[f] THEN before.files[f][i] ELSE EmptySlot(f)]],
   idx |-> [i \in DOMAIN work.idx |->
              Undone(before.idx[i], work.idx[i], {b \in DOMAIN work.idx[i].leaf : <<i, b>> \in lost})]]

(* What a statement means for the table it is about: its predicate says    *)
(* what some fields are to be equal to.                                    *)
Meaning(s) ==
  LET rows == expected[s.tbl]
      Kept == {i \in DOMAIN rows : \E fld \in DOMAIN s.pred : rows[i][fld] # s.pred[fld]}
  IN CASE s.op = "insert" ->
            [i \in DOMAIN rows \cup {at} |->
               IF i \in DOMAIN rows THEN rows[i]
               ELSE [fld \in ToSet(Schema[s.tbl]) |->
                       IF fld \in DOMAIN s.row THEN s.row[fld] ELSE work.files[s.tbl][at].row[fld]]]
       [] s.op = "delete" -> [i \in Kept |-> rows[i]]
       [] s.op = "modify" ->
            [i \in DOMAIN rows |->
               IF i \in Kept THEN rows[i] ELSE [rows[i] EXCEPT ![s.fld] = s.val]]
       [] OTHER -> rows

(* The indexes that a statement leaves without an entry for some row.      *)
Missed(s) ==
  CASE s.op = "create_index" /\ UsedSlots(work, Indexes[s.name].tbl) # {} -> {s.name}
    [] s.op = "insert" -> {indexes[fld] : fld \in DOMAIN indexes \ DOMAIN s.row}
    [] OTHER -> {}

Forgotten == stmt' = None /\ means' = None /\ indexes' = <<>> /\ at' = 0 /\ left' = <<>>

(* executeUpdate commits, and the connection begins another transaction.   *)
Commits(w) ==
  /\ disk' = w /\ work' = w /\ trail' = <<>>
  /\ status' = "idle" /\ Forgotten /\ failed' = None
  /\ expected' = IF means.op \in {"insert", "delete", "modify"}
                 THEN [expected EXCEPT ![means.tbl] = Meaning(means)] ELSE expected
  /\ missed' = missed \cup Missed(means)
  /\ spoilt' = IF spoilt = "half undone" THEN "committed" ELSE spoilt
  /\ UNCHANGED <<mIsNew, basic, bounds>>

Fails(why) ==
  /\ status' = "failed" /\ failed' = why
  /\ UNCHANGED <<mIsNew, disk, work, trail, basic, statement, ghosts, spoilt, bounds>>

(* How a step ends that makes r of index i.                                *)
IndexStep(i, r, to) ==
  CASE r.got = "ok" -> Changes([work EXCEPT !.idx[i] = r.ix]) /\ Goes(to) /\ Unmoved
    [] r.got = "throws" ->
         /\ Changes([work EXCEPT !.idx[i] = r.ix])
         /\ Goes("failed") /\ failed' = "index"
         /\ UNCHANGED <<mIsNew, disk, basic, ghosts, spoilt, bounds>>
    [] r.got \in {"dies", "hangs"} ->
         Changes([work EXCEPT !.idx[i] = r.ix]) /\ Goes(r.got) /\ Unmoved

-----------------------------------------------------------------------------
(* Starting.                                                               *)

(* The constructor of simpledb.  Recovery has undone what it has to (crash *)
(* says what that leaves), whatever there was of a catalog included.       *)
(* stat_manager then counts the records of every table: no statement looks *)
(* at the numbers, so they are left out, with the block that a table of    *)
(* none gets when it is counted.                                           *)
simpledb ==
  /\ status = "down" /\ (mIsNew \/ HasLayout(work, "tblcat"))
  /\ mIsNew' = FALSE
  /\ IF mIsNew
     THEN status' = "making" /\ stmt' = starting /\ means' = starting /\ left' = CatalogTables
     ELSE status' = "idle" /\ UNCHANGED <<stmt, means, left>>
  /\ UNCHANGED <<disk, work, trail, basic, indexes, at, failed, ghosts, spoilt, bounds>>

(* If the directory is there and the catalog is not, stat_manager scans    *)
(* tblcat with a slot size of -1: next throws, and so does the constructor. *)
simpledb_throws ==
  /\ status = "down" /\ ~mIsNew /\ ~HasLayout(work, "tblcat")
  /\ Changes(table_scan(table_scan(work, "tblcat"), "fldcat"))
  /\ Goes("dies") /\ stmt' = starting /\ means' = starting
  /\ UNCHANGED <<indexes, at, left>> /\ Unmoved

\* Mutant: the constructor does not commit what it has created.
no_commit ==
  /\ status = "making"
  /\ Changes(insert_rows(work, make_catalog(Head(left))))
  /\ left' = Tail(left) /\ Goes(IF left' = <<>> THEN "idle" ELSE "making")
  /\ UNCHANGED <<stmt, means, indexes, at>> /\ Unmoved

(* metadata_manager creates the tables of the catalog, and the constructor *)
(* of simpledb commits.                                                    *)
metadata_manager ==
  /\ status = "making"
  /\ Changes(insert_rows(work, make_catalog(Head(left))))
  /\ left' = Tail(left) /\ Goes(IF left' = <<>> THEN "commit" ELSE "making")
  /\ UNCHANGED <<stmt, means, indexes, at>> /\ Unmoved

commit == status = "commit" /\ Commits(work)

-----------------------------------------------------------------------------
(* Statements.  A client does not create a thing twice.                    *)
New(s) ==
  CASE s.op = "create_table" -> ~HasLayout(work, s.tbl)
    [] s.op = "create_index" ->
         \A i \in UsedSlots(work, "idxcat") : work.files["idxcat"][i].row.indexname # s.name
    [] OTHER -> TRUE

(* What cannot be parsed throws before anything is done.                   *)
execute_update(s) ==
  /\ status = "idle" /\ statements < MaxStatements /\ New(s.means)
  /\ statements' = statements + 1
  /\ means' = s.means
  /\ \E parsed \in {Read(s)} :
       IF parsed.ok THEN Goes("begin") /\ failed' = None /\ stmt' = parsed.val
       ELSE Goes("failed") /\ failed' = "syntax" /\ UNCHANGED stmt
  /\ UNCHANGED <<mIsNew, disk, work, trail, basic, indexes, at, left, ghosts, spoilt, throws, crashes>>

Begins(ops) == status = "begin" /\ stmt.op \in ops

execute_create ==
  /\ Begins(Creates)
  /\ IF \/ stmt.op = "create_view" /\ ~HasLayout(work, "viewcat")
        \/ stmt.op = "create_index" /\ ~HasLayout(work, "idxcat")
     THEN Fails("catalog")
     ELSE Changes(insert_rows(work, Created(stmt))) /\ Goes("commit") /\ UNCHANGED statement /\ Unmoved

(* The steps for a field and its index, to be taken at the current slot.   *)
Set(fld, val) == [do |-> "set", fld |-> fld, val |-> val]
PutIn(fld, key) == IF fld \in DOMAIN indexes' THEN <<[do |-> "enter", fld |-> fld, key |-> key]>> ELSE <<>>
TakeOut(fld, key) == IF fld \in DOMAIN indexes' THEN <<[do |-> "remove", fld |-> fld, key |-> key]>> ELSE <<>>
DeleteRow == [do |-> "delete"]

(* As many values as fields are listed.                                    *)
InsertSteps ==
  FlattenSeq([i \in DOMAIN stmt.fields |->
                <<Set(stmt.fields[i], stmt.vals[i].of)>> \o PutIn(stmt.fields[i], stmt.vals[i].of)])

(* The record is inserted before the indexes are asked for.                *)
execute_insert ==
  /\ Begins({"insert"})
  /\ IF ~HasLayout(work, stmt.tbl) THEN Fails("table")
     ELSE LET w == table_scan(work, stmt.tbl)
          IN /\ Changes(insert_after(w, stmt.tbl, 0))
             /\ at' = FreeSlot(w, stmt.tbl, 0)
             /\ Goes("indexes")
             /\ UNCHANGED <<stmt, means, indexes, left>> /\ Unmoved

insert_indexes ==
  /\ status = "indexes"
  /\ IF ~basic /\ IndexInfoThrows(work, stmt.tbl) THEN Fails("catalog")
     ELSE /\ indexes' = IF basic THEN <<>> ELSE get_index_info(work, stmt.tbl)
          /\ left' = InsertSteps
          /\ Goes("row")
          /\ UNCHANGED <<work, trail, stmt, means, at>> /\ Unmoved

(* execute_modify opens the index before the scan.                         *)
execute_delete_or_modify ==
  /\ Begins({"delete", "modify"})
  /\ CASE ~HasLayout(work, stmt.tbl) -> Fails("table")
       [] HasLayout(work, stmt.tbl) /\ ~basic /\ IndexInfoThrows(work, stmt.tbl) ->
            Fails("catalog")
       [] OTHER ->
            /\ indexes' = IF basic THEN <<>> ELSE get_index_info(work, stmt.tbl)
            /\ LET w == table_scan(work, stmt.tbl)
               IN Changes(IF stmt.op = "modify" /\ stmt.fld \in DOMAIN indexes'
                          THEN open_index(w, indexes'[stmt.fld]) ELSE w)
            /\ at' = 0 /\ Goes("next")
            /\ UNCHANGED <<stmt, means, left>> /\ Unmoved

(* next of the select_scan; what is to be done with the row it is at.      *)
evaluate(e, row) == IF e.kind = "field" THEN row[e.of] ELSE e.of
is_satisfied(pred, row) ==
  \A i \in DOMAIN pred : evaluate(pred[i].lhs, row) = evaluate(pred[i].rhs, row)

RowSteps(row) ==
  IF stmt.op = "delete"
  THEN FlattenSeq([i \in 1 .. Len(Schema[stmt.tbl]) |->
                     TakeOut(Schema[stmt.tbl][i], row[Schema[stmt.tbl][i]])]) \o <<DeleteRow>>
  ELSE LET val == evaluate(stmt.val, row)
       IN <<Set(stmt.fld, val)>> \o TakeOut(stmt.fld, row[stmt.fld]) \o PutIn(stmt.fld, val)

NextRow(After) ==
  /\ status = "next"
  /\ IF After = {} THEN Goes("commit") /\ UNCHANGED <<indexes, at, left>>
     ELSE /\ UNCHANGED indexes
          /\ at' = Min(After)
          /\ left' = RowSteps(work.files[stmt.tbl][at'].row)
          /\ Goes("row")
  /\ UNCHANGED <<work, trail, stmt, means>> /\ Unmoved

Matches(i) == i \in UsedSlots(work, stmt.tbl) /\ is_satisfied(stmt.pred, work.files[stmt.tbl][i].row)

\* Mutant: the scan moves on with the row that was removed.
next_but_one == NextRow({i \in at + 1 + Cardinality({at} \ {0}) .. Len(work.files[stmt.tbl]) : Matches(i)})

next_row == NextRow({i \in at + 1 .. Len(work.files[stmt.tbl]) : Matches(i)})

RidOf(i) == <<(i - 1) \div RecsPerBlock, (i - 1) % RecsPerBlock>>
rid == RidOf(at)

StepDone ==
  CASE Tail(left) # <<>> -> "row"
    [] Tail(left) = <<>> /\ stmt.op = "insert" -> "commit"
    [] OTHER -> "next"

Do(step) == status = "row" /\ Head(left).do = step /\ left' = Tail(left) /\ UNCHANGED <<stmt, means, indexes, at>>

set_field ==
  /\ Do("set")
  /\ Changes([work EXCEPT !.files[stmt.tbl][at].row[Head(left).fld] = Head(left).val])
  /\ Goes(StepDone) /\ Unmoved

enter ==
  /\ Do("enter")
  /\ LET i == indexes[Head(left).fld]
     IN IndexStep(i, index_insert(open(work.idx[i]), Head(left).key, rid), StepDone)

take_out ==
  /\ Do("remove")
  /\ LET i == indexes[Head(left).fld]
     IN IndexStep(i, index_remove(open(work.idx[i]), Head(left).key, rid), StepDone)

delete_row ==
  /\ Do("delete")
  /\ Changes([work EXCEPT !.files[stmt.tbl][at].used = FALSE])
  /\ Goes(StepDone) /\ Unmoved

(* A query that selects one key by an index, reads all rows and closes its *)
(* result set, which commits.                                              *)
select ==
  /\ Begins({"query"})
  /\ \E tbl \in stmt.tables :
       CASE ~HasLayout(work, tbl) -> Fails("table")
         [] HasLayout(work, tbl) /\ IndexInfoThrows(work, tbl) -> Fails("catalog")
         [] OTHER ->
              LET info == get_index_info(work, tbl)
                  fld == stmt.pred[1].lhs.of
                  key == stmt.pred[1].rhs.of
                  ix == open(work.idx[info[fld]])
                  got == CASE search(ix.dir, key) < 0 -> "throws"
                           [] search(ix.dir, key) >= 0 /\ ~LookUp(ix, key).ends -> "hangs"
                           [] OTHER -> "ok"
              IN /\ UNCHANGED statement
                 /\ IF fld \in DOMAIN info THEN IndexStep(info[fld], Index(ix, got), "commit")
                    ELSE Goes("commit") /\ UNCHANGED <<work, trail>> /\ Unmoved

-----------------------------------------------------------------------------
(* Exceptions and crashes.                                                 *)

Running == {"begin", "indexes", "next", "row", "commit"}

(* LockAbortException or BufferAbortException, out of any step.            *)
throw ==
  /\ status \in Running /\ stmt # starting /\ throws < MaxThrows
  /\ status' = "failed" /\ failed' = "abort" /\ throws' = throws + 1
  /\ UNCHANGED <<mIsNew, disk, work, trail, basic, statement, ghosts, spoilt, statements, crashes>>

\* Mutant: the rows are put back, the indexes are not.
rollback_of_rows ==
  /\ status = "failed"
  /\ work' = [UndoneTo(disk, {}) EXCEPT !.idx = work.idx] /\ disk' = work' /\ trail' = <<>>
  /\ status' = "idle" /\ Forgotten /\ spoilt' = IF spoilt = "committed" THEN spoilt ELSE "no"
  /\ UNCHANGED <<mIsNew, basic, failed, ghosts, bounds>>

rollback ==
  /\ status = "failed"
  /\ work' = UndoneTo(disk, {}) /\ disk' = work' /\ trail' = <<>>
  /\ status' = "idle" /\ Forgotten /\ spoilt' = IF spoilt = "committed" THEN spoilt ELSE "no"
  /\ UNCHANGED <<mIsNew, basic, failed, ghosts, bounds>>

(* A pin in the rollback throws in turn: the connection keeps the          *)
(* transaction, undone as far as some earlier step, for its next statement. *)
rollback_throws ==
  /\ status = "failed" /\ throws < MaxThrows /\ trail # <<>>
  /\ \/ UNCHANGED work
     \/ \E i \in 2 .. Len(trail) : work' = UndoneTo(trail[i], {})
  /\ status' = "idle" /\ Forgotten /\ throws' = throws + 1
  /\ spoilt' = IF spoilt = "committed" THEN spoilt ELSE "half undone"
  /\ UNCHANGED <<mIsNew, disk, trail, basic, failed, ghosts, statements, crashes>>

(* The process ends, and recovery undoes what was not committed.  Of the   *)
(* new blocks of the leaves, the format of those in lost was not written.  *)
NewLeaves ==
  UNION {{i} \X (Len(disk.idx[i].leaf) + 1 .. Len(work.idx[i].leaf)) : i \in DOMAIN work.idx}

crash ==
  /\ status # "down" /\ ~mIsNew
  /\ \/ status = "dies" /\ UNCHANGED crashes
     \/ crashes < MaxCrashes /\ crashes' = crashes + 1
  /\ \E lost \in SUBSET NewLeaves : work' = UndoneTo(disk, lost)
  /\ disk' = work' /\ trail' = <<>> /\ status' = "down" /\ Forgotten
  /\ spoilt' = IF spoilt = "committed" THEN spoilt ELSE "no"
  /\ UNCHANGED <<mIsNew, basic, failed, ghosts, statements, throws>>

-----------------------------------------------------------------------------
(* The end of a behaviour: the client has no more statements, or the last  *)
(* one does not return.                                                    *)
AtBounds ==
  /\ \/ status = "hangs"
     \/ status = "idle" /\ statements = MaxStatements
  /\ UNCHANGED vars

Next ==
  \/ simpledb \/ simpledb_throws \/ metadata_manager \/ commit
  \/ \E s \in Statements : execute_update(s)
  \/ execute_create \/ execute_insert \/ insert_indexes \/ execute_delete_or_modify
  \/ next_row \/ set_field \/ enter \/ take_out \/ delete_row \/ select
  \/ throw \/ rollback \/ rollback_throws \/ crash \/ AtBounds

Spec == Init /\ [][Next]_vars

-----------------------------------------------------------------------------
(* Properties.                                                             *)

(* The type invariant: files grow only, slots keep their shape, and a      *)
(* transaction that has changed something is one that is not yet over.     *)
TypeOK ==
  /\ mIsNew \in BOOLEAN /\ basic \in BOOLEAN
  /\ \A f \in Catalog \cup Tables :
       /\ Len(work.files[f]) >= Len(disk.files[f]) /\ Len(work.files[f]) % RecsPerBlock = 0
       /\ \A i \in DOMAIN work.files[f] : DOMAIN work.files[f][i].row = ToSet(FieldsOf(f))
  /\ \A i \in DOMAIN Indexes : Len(work.idx[i].leaf) >= Len(disk.idx[i].leaf)
  /\ status \in Running \cup {"down", "making", "idle", "failed", "dies", "hangs"}
  /\ (status \in Running \cup {"making", "dies", "hangs"}) => stmt # None
  /\ (status = "row") = (left # <<>> /\ status \notin {"making", "failed", "dies", "hangs"})
  /\ (work # disk) => trail # <<>>
  /\ spoilt \in {"no", "half undone", "committed"}

(* Whatever throws and whenever the process ends, each statement changed   *)
(* its table as its SQL means, or not at all: the scan of a delete or an   *)
(* update meets each row once although the row and its index entries       *)
(* change under it.  The exception is a statement after a rollback that    *)
(* threw: it commits what was left half undone (embeddedstatement.cpp:28). *)
TablesExact ==
  spoilt # "committed" => \A t \in Tables : Rows(disk, t) = expected[t]

(* An index returns for every key the rows that have it, each once, before *)
(* and after failures.  This holds for an index that no row was kept from  *)
(* (indexmanager.cpp:84, indexupdateplanner.cpp:29), and as long as it is  *)
(* a single leaf that was formatted and has its root entry.                *)
Sound(ix) ==
  /\ ix.leaf[1].flag = -1
  /\ ix.lt.keySize = 4 \/ ix.dir[1].n > 0
KeysOf(t) == UNION {{expected[t][i][fld] : fld \in ToSet(Schema[t])} : i \in DOMAIN expected[t]}

Agrees(ix, t, fld, key) ==
  LET found == LookUp(ix, key)
      rows == {i \in DOMAIN expected[t] : expected[t][i][fld] = key}
  IN /\ found.ends /\ Len(found.rids) = Cardinality(rows)
     /\ ToSet(found.rids) = {RidOf(i) : i \in rows}

IndexExact ==
  status = "idle" /\ spoilt = "no" /\ ~basic =>
    \A t \in Tables : ~IndexInfoThrows(disk, t) =>
      \A fld \in DOMAIN get_index_info(disk, t) :
        LET i == get_index_info(disk, t)[fld]
        IN i \notin missed /\ Sound(open(disk.idx[i])) =>
             \A key \in KeysOf(t) \cup {0} : Agrees(open(disk.idx[i]), t, fld, key)

(* A statement is refused by the parser only if it is no SQL, and one that *)
(* names an existing table fails of its own accord only if an earlier      *)
(* failure left its traces: the root entry of an index was undone with the *)
(* statement that made it (btreeindex.cpp:23), or its leaf never formatted *)
(* (btreeindex.cpp:13).  The exception is an index on a field that the     *)
(* table lacks (indexmanager.cpp:84).  The engine itself fails to start    *)
(* only if a crash interrupted the first start (simpledb.cpp:41): then it  *)
(* never has executed a statement, and a start that has succeeded once is  *)
(* never followed by one that fails.                                       *)
FailuresExplained ==
  /\ status = "failed" /\ failed = "syntax" => means.op = "none"
  /\ status = "failed" /\ failed = "catalog" =>
       \E i \in UsedSlots(work, "idxcat") :
         LET row == work.files["idxcat"][i].row
         IN row.fieldname \notin ToSet(Schema[row.tablename])
  /\ status = "dies" /\ stmt = starting => crashes > 0 /\ statements = 0
  /\ status = "failed" /\ failed = "index" =>
       throws + crashes > 0 /\ \E i \in DOMAIN Indexes : work.idx[i].dir # <<>> /\ work.idx[i].dir[1].n = 0
  /\ status = "hangs" =>
       crashes > 0 /\ \E i \in DOMAIN Indexes : work.idx[i].leaf # <<>> /\ work.idx[i].leaf[1].flag = 0

(* What a comment of btree_leaf::insert says of a leaf full of one key:    *)
(* "create an overflow block to hold all but the first record"             *)
(* (btreeleaf.cpp:56).  Every row with the key is in the leaf or in the    *)
(* block its flag names.                                                   *)
RidsIn(p) == {<<p.recs[s].block, p.recs[s].id>> : s \in 0 .. p.n - 1}
OverflowHoldsTheRest ==
  \A i \in DOMAIN Indexes :
    LET file == work.idx[i].leaf
        key == get_data_val(file[1], 0)
        Having == {j \in UsedSlots(work, Indexes[i].tbl) :
                    work.files[Indexes[i].tbl][j].row[Indexes[i].fld] = key}
    IN status = "idle" /\ i \notin missed /\ Len(file) = 2 /\ file[1].flag = 1 =>
         RidsIn(file[2]) =
           {RidOf(j) : j \in Having} \ RidsIn(file[1])
=============================================================================
