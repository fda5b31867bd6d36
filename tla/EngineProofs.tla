----------------------------- MODULE EngineProofs -----------------------------
(***************************************************************************)
(* What holds of the engine, for any tables, indexes and statements, any   *)
(* size of blocks and any number of failures: the tables are what the      *)
(* statements mean.                                                        *)
(*                                                                         *)
(* The invariant has five parts.  Worlds: the files have their shape.      *)
(* AtLeast: no file is shorter than what was committed, so that undoing    *)
(* gives every committed slot back.  Place: what the variables of the      *)
(* running statement may be where it is.  Committed: the property itself.  *)
(* Progress: slot by slot, how far the running statement has come; at its  *)
(* commit this makes its table what the statement means (FinishedRows).    *)
(***************************************************************************)
EXTENDS Engine, SequenceLemmas, TLAPS

-----------------------------------------------------------------------------
(* What the invariant says.                                                *)

Places == Running \cup {"down", "making", "idle", "failed", "dies", "hangs"}
Files == Catalog \cup Tables

(* Slots and index blocks hold values of many kinds, so a sequence is said *)
(* to be one by its domain.                                                *)
IsSeq(s) == Len(s) \in Nat /\ s = [i \in 1 .. Len(s) |-> s[i]]
SlotOK(f, sl) ==
  /\ DOMAIN sl = {"used", "row"}
  /\ sl.row = [fld \in ToSet(FieldsOf(f)) |-> sl.row[fld]]
FileOK(f, s) ==
  /\ IsSeq(s) /\ \E k \in Nat : Len(s) = k * RecsPerBlock
  /\ \A i \in 1 .. Len(s) : SlotOK(f, s[i])
IndexOK(ix) == DOMAIN ix = {"lt", "leaf", "dir"} /\ IsSeq(ix.leaf)
WorldOK(w) ==
  /\ DOMAIN w = {"files", "idx"} /\ DOMAIN w.files = Files /\ DOMAIN w.idx = DOMAIN Indexes
  /\ \A f \in Files : FileOK(f, w.files[f])
  /\ \A i \in DOMAIN Indexes : IndexOK(w.idx[i])

Worlds ==
  /\ WorldOK(work) /\ WorldOK(disk)
  /\ IsSeq(trail) /\ \A i \in 1 .. Len(trail) : WorldOK(trail[i])
  /\ DOMAIN expected = Tables

AtLeast(w, v) ==
  /\ \A f \in Files : Len(w.files[f]) >= Len(v.files[f])
  /\ \A i \in DOMAIN Indexes : Len(w.idx[i].leaf) >= Len(v.idx[i].leaf)

(* The table of the running statement: as it was, and as it is now; and    *)
(* the rows that a delete or an update leaves alone.                       *)
Changing == {"insert", "delete", "modify"}
Old == expected[means.tbl]
File == work.files[means.tbl]
Kept == {i \in DOMAIN Old : \E fld \in DOMAIN means.pred : Old[i][fld] # means.pred[fld]}

Place ==
  /\ mIsNew \in BOOLEAN /\ basic \in BOOLEAN
  /\ status \in Places /\ spoilt \in {"no", "half undone", "committed"} /\ at \in Nat
  /\ status \in {"down", "idle", "begin", "indexes", "next", "commit"} => left = <<>>
  /\ status = "making" =>
       IsSeq(left) /\ left # <<>> /\ \A k \in 1 .. Len(left) : left[k] \in Catalog
  /\ status = "making" => stmt = starting /\ means = starting
  /\ status = "row" => IsSeq(left) /\ left # <<>> /\ stmt.op \in Changing
  /\ status \in {"begin", "indexes", "next", "row"} => stmt # None /\ Says(stmt, means)
  /\ status = "indexes" => stmt.op = "insert"
  /\ status \in {"indexes", "row"} => at \in DOMAIN File
  /\ status = "next" => stmt.op \in {"delete", "modify"}
  /\ status \in {"commit", "dies", "hangs"} => stmt # None
  /\ status = "commit" /\ means.op \in Changing => means.tbl \in Tables
  /\ trail = <<>> => work = disk

(* Slot i of the table is in use as rows has it.                           *)
IsAs(i, rows) ==
  /\ i \in UsedSlots(work, means.tbl) <=> i \in DOMAIN rows
  /\ i \in DOMAIN rows => work.files[means.tbl][i].row = rows[i]

(* An insert has taken the slot at, which no row had; each field of its    *)
(* row has been set or is among the steps left.                            *)
Inserting ==
  /\ DOMAIN Old \subseteq DOMAIN File /\ at \in DOMAIN File \ DOMAIN Old
  /\ at \in UsedSlots(work, means.tbl)
  /\ \A i \in DOMAIN File : i # at => IsAs(i, Old)
  /\ status \in {"row", "commit"} =>
       \A fld \in DOMAIN means.row \cap ToSet(Schema[means.tbl]) :
         \/ File[at].row[fld] = means.row[fld]
         \/ \E k \in 1 .. Len(left) : left[k] = Set(fld, means.row[fld])
  /\ status = "row" =>
       \A k \in 1 .. Len(left) :
         \/ left[k].do = "enter"
         \/ left[k].fld \in DOMAIN means.row /\ left[k] = Set(left[k].fld, means.row[left[k].fld])

(* The steps left at a row: a delete gives up the slot in the last one, an *)
(* update sets the field in the first one.                                 *)
Deleting ==
  /\ left[Len(left)] = DeleteRow
  /\ \A k \in 1 .. Len(left) - 1 : left[k].do = "remove"

Modifying ==
  /\ \A k \in 2 .. Len(left) : left[k].do \in {"remove", "enter"}
  /\ \/ left[1] = Set(means.fld, means.val) /\ File[at].row = Old[at]
     \/ left[1].do \in {"remove", "enter"} /\ File[at].row = Meaning(means)[at]

(* The slots the scan of a delete or an update has passed are as the       *)
(* statement means, those ahead of it as they were.                        *)
Scanning ==
  /\ DOMAIN Old \subseteq DOMAIN File /\ at \in 0 .. Len(File)
  /\ \A i \in DOMAIN File :
       (status = "row" => i # at) =>
         IsAs(i, IF status = "commit" \/ i <= at THEN Meaning(means) ELSE Old)
  /\ status = "row" =>
       /\ at \in DOMAIN Old \ Kept /\ at \in UsedSlots(work, means.tbl)
       /\ means.op = "delete" => Deleting
       /\ means.op = "modify" => Modifying

Committed == spoilt # "committed" => \A t \in Tables : Rows(disk, t) = expected[t]

(* How far the running statement has come.  A statement that failed may    *)
(* have left anything; only its rollback goes on from there.               *)
AsExpected(t) == Rows(work, t) = expected[t]
Progress ==
  spoilt = "no" =>
    /\ status \in {"down", "making", "idle", "begin"} => \A t \in Tables : AsExpected(t)
    /\ status \in {"indexes", "next", "row", "commit"} =>
         \A t \in Tables : (means.op \in Changing /\ t = means.tbl) \/ AsExpected(t)
    /\ status \in {"indexes", "row", "commit"} /\ means.op = "insert" => Inserting
    /\ status \in {"next", "row", "commit"} /\ means.op \in {"delete", "modify"} => Scanning

IInv == Worlds /\ AtLeast(work, disk) /\ Place /\ Committed /\ Progress

-----------------------------------------------------------------------------
(* Sequences of whatever they are of.                                      *)
LEMMA SeqMade ==
  ASSUME NEW n \in Nat, NEW f, f = [i \in 1 .. n |-> f[i]]
  PROVE  IsSeq(f) /\ Len(f) = n
<1> DEFINE S == {f[i] : i \in 1 .. n}
<1>1. f \in [1 .. n -> S]
  OBVIOUS
<1>2. f \in Seq(S)
  BY <1>1
<1>3. DOMAIN f = 1 .. n
  BY <1>1
<1>4. Len(f) = n
  BY <1>1, <1>2, <1>3
<1> QED BY <1>4 DEF IsSeq

LEMMA SeqIn ==
  ASSUME NEW s, IsSeq(s)
  PROVE  /\ s \in Seq({s[i] : i \in 1 .. Len(s)}) /\ DOMAIN s = 1 .. Len(s)
         /\ s # <<>> <=> Len(s) # 0
<1> DEFINE S == {s[i] : i \in 1 .. Len(s)}
<1>1. s \in [1 .. Len(s) -> S] /\ Len(s) \in Nat
  BY DEF IsSeq
<1>2. s \in Seq(S)
  BY <1>1
<1> QED BY <1>1, <1>2

LEMMA SeqTyped ==
  ASSUME NEW S, NEW s \in Seq(S)
  PROVE  IsSeq(s)
<1>1. Len(s) \in Nat /\ s \in [1 .. Len(s) -> S]
  OBVIOUS
<1>2. s = [i \in 1 .. Len(s) |-> s[i]]
  BY <1>1
<1> QED BY <1>1, <1>2, Zenon DEF IsSeq

LEMMA SeqAppend ==
  ASSUME NEW s, IsSeq(s), NEW e
  PROVE  /\ IsSeq(Append(s, e)) /\ Len(Append(s, e)) = Len(s) + 1
         /\ \A i \in 1 .. Len(s) : Append(s, e)[i] = s[i]
         /\ Append(s, e)[Len(s) + 1] = e
<1> DEFINE S == {s[i] : i \in 1 .. Len(s)} \cup {e}
<1>1. s \in Seq(S)
  <2>1. s \in [1 .. Len(s) -> S] /\ Len(s) \in Nat
    BY DEF IsSeq
  <2> QED BY <2>1
<1>2. Append(s, e) \in Seq(S)
  BY <1>1
<1> HIDE DEF S
<1>3. IsSeq(Append(s, e))
  BY <1>2, SeqTyped, Zenon
<1> QED BY <1>1, <1>3

LEMMA SeqConcat ==
  ASSUME NEW s, IsSeq(s), NEW t, IsSeq(t)
  PROVE  /\ IsSeq(s \o t) /\ Len(s \o t) = Len(s) + Len(t)
         /\ \A i \in 1 .. Len(s) : (s \o t)[i] = s[i]
         /\ \A i \in 1 .. Len(t) : (s \o t)[Len(s) + i] = t[i]
         /\ \A i \in 1 .. Len(s \o t) :
              i \in 1 .. Len(s) \/ (i - Len(s) \in 1 .. Len(t) /\ (s \o t)[i] = t[i - Len(s)])
<1> DEFINE S == {s[i] : i \in 1 .. Len(s)} \cup {t[i] : i \in 1 .. Len(t)}
<1>1. s \in Seq(S) /\ t \in Seq(S)
  <2>1. s \in [1 .. Len(s) -> S] /\ Len(s) \in Nat /\ t \in [1 .. Len(t) -> S] /\ Len(t) \in Nat
    BY DEF IsSeq
  <2> QED BY <2>1
<1>2. s \o t \in Seq(S)
  BY <1>1
<1>3. IsSeq(s \o t)
  <2> HIDE DEF S
  <2> QED BY <1>2, SeqTyped, Zenon
<1>4. /\ Len(s \o t) = Len(s) + Len(t)
      /\ \A i \in 1 .. Len(s) + Len(t) :
           (s \o t)[i] = IF i <= Len(s) THEN s[i] ELSE t[i - Len(s)]
  BY <1>1
<1>5. Len(s) \in Nat /\ Len(t) \in Nat
  BY DEF IsSeq
<1> QED BY <1>3, <1>4, <1>5

LEMMA SeqExcept ==
  ASSUME NEW s, IsSeq(s), NEW i, NEW e
  PROVE  IsSeq([s EXCEPT ![i] = e]) /\ Len([s EXCEPT ![i] = e]) = Len(s)
<1> DEFINE r == [s EXCEPT ![i] = e]
<1>1. Len(s) \in Nat /\ DOMAIN s = 1 .. Len(s)
  BY SeqIn DEF IsSeq
<1>2. r = [j \in 1 .. Len(s) |-> r[j]]
  BY <1>1
<1> QED BY <1>1, <1>2, SeqMade

LEMMA SeqTail ==
  ASSUME NEW s, IsSeq(s), s # <<>>
  PROVE  /\ Len(s) \in Nat \ {0} /\ Head(s) = s[1]
         /\ IsSeq(Tail(s)) /\ Len(Tail(s)) = Len(s) - 1
         /\ \A i \in 1 .. Len(Tail(s)) : Tail(s)[i] = s[i + 1]
         /\ Tail(s) # <<>> <=> Len(s) > 1
<1> DEFINE S == {s[i] : i \in 1 .. Len(s)}
<1>1. s \in Seq(S) /\ Len(s) \in Nat \ {0}
  BY SeqIn DEF IsSeq
<1>2. /\ Head(s) = s[1] /\ Tail(s) \in Seq(S) /\ Len(Tail(s)) = Len(s) - 1
      /\ \A i \in 1 .. Len(Tail(s)) : Tail(s)[i] = s[i + 1]
  BY <1>1
<1>3. IsSeq(Tail(s))
  <2> HIDE DEF S
  <2> QED BY <1>2, SeqTyped, Zenon
<1>4. Tail(s) # <<>> <=> Len(s) > 1
  <2>1. Tail(s) # <<>> <=> Len(Tail(s)) # 0
    BY <1>3, SeqIn, Zenon
  <2> QED BY <2>1, <1>1, <1>2
<1> QED BY <1>1, <1>2, <1>3, <1>4

LEMMA SeqOne ==
  ASSUME NEW e
  PROVE  IsSeq(<<e>>) /\ Len(<<e>>) = 1 /\ <<e>>[1] = e /\ IsSeq(<<>>) /\ Len(<<>>) = 0
<1>1. <<e>> \in Seq({e}) /\ <<>> \in Seq({e})
  OBVIOUS
<1>2. IsSeq(<<e>>) /\ IsSeq(<<>>)
  BY <1>1, SeqTyped, Zenon
<1> QED BY <1>2

-----------------------------------------------------------------------------
(* An operation on an index keeps the file of leaves a file, no shorter    *)
(* than it was, and ends in one of four ways.                              *)
Grown(now, file) == IsSeq(now) /\ Len(now) >= Len(file)

LEMMA SplitGrows ==
  ASSUME NEW file, IsSeq(file), NEW b, NEW slot, NEW flag
  PROVE  Grown(split(file, b, slot, flag), file)
<1> DEFINE p == file[b + 1]
           m == transfer_recs(p, slot, format(p.lt, flag), 0)
           cut == m.src
           one == [file EXCEPT ![b + 1] = cut]
           new == [m.dest EXCEPT !.flag = flag]
<1>1. split(file, b, slot, flag) = Append(one, new)
  BY DEF split
<1> HIDE DEF new, m, cut
<1>2. IsSeq(one) /\ Len(one) = Len(file)
  BY SeqExcept
<1>3. Len(file) \in Nat
  BY DEF IsSeq
<1> HIDE DEF one
<1>4. IsSeq(Append(one, new)) /\ Len(Append(one, new)) = Len(one) + 1
  BY <1>2, SeqAppend
<1> QED BY <1>1, <1>2, <1>3, <1>4 DEF Grown

LEMMA ExceptGrows ==
  ASSUME NEW file, NEW now, Grown(now, file), NEW i, NEW e
  PROVE  Grown([now EXCEPT ![i] = e], file)
BY SeqExcept DEF Grown

LEMMA GrownSelf ==
  ASSUME NEW file, IsSeq(file)
  PROVE  Grown(file, file)
BY DEF Grown, IsSeq

LEMMA GrownTwice ==
  ASSUME NEW f, NEW g, NEW h, Len(f) \in Nat, Grown(g, f), Grown(h, g)
  PROVE  Grown(h, f)
<1>1. Len(g) \in Nat /\ Len(h) \in Nat
  BY DEF Grown, IsSeq
<1> QED BY <1>1 DEF Grown

LEMMA LeafInsertGrows ==
  ASSUME NEW file, IsSeq(file), NEW b, NEW key, NEW id
  PROVE  Grown(leaf_insert(file, b, key, id).file, file)
<1> DEFINE p == file[b + 1]
           first == get_data_val(p, 0)
           rec == [block |-> id[1], id |-> id[2], dataval |-> key]
           q == insert_rec(p, btree_leaf(file, b, key).slot + 1, rec)
           with == [file EXCEPT ![b + 1] = q]
           cut1 == split(file, b, 0, p.flag)
           cut2 == split(with, b, 1, q.flag)
           cut3 == split(with, b, SplitPos(q), -1)
           r1 == insert_rec([cut1[b + 1] EXCEPT !.flag = -1], 0, rec)
           r2 == [cut2[b + 1] EXCEPT !.flag = LastBlock(cut2)]
           e1 == dir_entry(first, LastBlock(cut1))
           e3 == dir_entry(get_data_val(q, SplitPos(q)), LastBlock(cut3))
           c1 == p.flag >= 0 /\ first > key
           c2 == ~is_full(q)
           c3 == get_data_val(q, 0) = get_data_val(q, q.n - 1)
           c4 == ~Readable(q.lt, SplitPos(q), "dataval")
           Leaf1 == [cut1 EXCEPT ![b + 1] = r1]
           Leaf2 == [cut2 EXCEPT ![b + 1] = r2]
<1>1. leaf_insert(file, b, key, id) =
        CASE c1 -> [Ended(Leaf1, "ok") EXCEPT !.entry = e1]
          [] ~c1 /\ c2 -> Ended(with, "ok")
          [] ~c1 /\ is_full(q) /\ c3 -> Ended(Leaf2, "ok")
          [] OTHER -> IF c4 THEN Ended(with, "throws")
                      ELSE [Ended(cut3, "ok") EXCEPT !.entry = e3]
  BY Zenon DEF leaf_insert
<1> HIDE DEF rec, q
<1>2. Grown(with, file)
  BY GrownSelf, ExceptGrows
<1> HIDE DEF with
<1>3. IsSeq(with) /\ Len(file) \in Nat
  BY <1>2 DEF Grown, IsSeq
<1>4. Grown(cut1, file) /\ Grown(cut2, file) /\ Grown(cut3, file)
  BY <1>2, <1>3, SplitGrows, GrownTwice
<1> HIDE DEF r1, r2, cut1, cut2, cut3
<1>5. Grown(Leaf1, file) /\ Grown(Leaf2, file)
  BY <1>4, ExceptGrows
<1> HIDE DEF Leaf1, Leaf2, c1, c2, c3, c4, e1, e3
<1>6. \A x, y, e : Ended(x, y).file = x /\ [Ended(x, y) EXCEPT !.entry = e].file = x
  BY DEF Ended
<1> QED BY <1>1, <1>2, <1>4, <1>5, <1>6

LEMMA LeafRemoveGrows ==
  ASSUME NEW file, NEW b, NEW key, NEW id
  PROVE  /\ IsSeq(file) => Grown(leaf_remove(file, b, key, id).file, file)
         /\ leaf_remove(file, b, key, id).got \in {"ok", "hangs"}
<1> DEFINE found == Found(file, key, btree_leaf(file, b, key))
           Those == {i \in 1 .. Len(found.all) : get_data_rid(file, found.all[i]) = id}
           here == found.all[Min(Those)]
           less == [file EXCEPT ![here.b + 1] = remove(file[here.b + 1], here.slot)]
<1>1. leaf_remove(file, b, key, id) =
        CASE Those # {} -> Ended(less, "ok")
          [] Those = {} /\ found.ends -> Ended(file, "ok")
          [] OTHER -> Ended(file, "hangs")
  BY Zenon DEF leaf_remove
<1> HIDE DEF Those, here, found
<1>2. IsSeq(file) => Grown(less, file) /\ Grown(file, file)
  BY GrownSelf, ExceptGrows
<1> HIDE DEF less
<1>3. \A x, y : Ended(x, y).file = x /\ Ended(x, y).got = y
  BY DEF Ended
<1> QED BY <1>1, <1>2, <1>3

(* What is left of an index is an index.                                   *)
IndexGrown(now, ix) == IndexOK(now) /\ Grown(now.leaf, ix.leaf)
Endings == {"ok", "throws", "dies", "hangs"}

LEMMA WithLeaf ==
  ASSUME NEW ix, IndexOK(ix), NEW file, Grown(file, ix.leaf)
  PROVE  IndexGrown([ix EXCEPT !.leaf = file], ix)
BY DEF IndexOK, IndexGrown, Grown

LEMMA OpenGrows ==
  ASSUME NEW ix, IndexOK(ix)
  PROVE  IndexGrown(open(ix), ix)
<1> DEFINE l == IF ix.leaf = <<>> THEN <<format(ix.lt, -1)>> ELSE ix.leaf
           d == IF ix.dir = <<>> THEN <<NewRoot(ix.lt)>> ELSE ix.dir
<1>1. open(ix) = [ix EXCEPT !.leaf = l, !.dir = d]
  BY DEF open, IndexOK
<1>2. Grown(l, ix.leaf)
  <2>1. CASE ix.leaf = <<>>
    <3>1. IsSeq(<<format(ix.lt, -1)>>) /\ Len(<<format(ix.lt, -1)>>) = 1 /\ Len(<<>>) = 0
      BY SeqOne
    <3> QED BY <2>1, <3>1 DEF Grown
  <2>2. CASE ix.leaf # <<>>
    BY <2>2, GrownSelf DEF IndexOK
  <2> QED BY <2>1, <2>2
<1> HIDE DEF l, d
<1> QED BY <1>1, <1>2 DEF IndexOK, IndexGrown, Grown

LEMMA IndexInsertGrows ==
  ASSUME NEW ix, NEW key, NEW id
  PROVE  /\ IndexOK(ix) => IndexGrown(index_insert(ix, key, id).ix, ix)
         /\ index_insert(ix, key, id).got \in Endings
<1> DEFINE b == search(ix.dir, key)
           l == leaf_insert(ix.leaf, b, key, id)
           with == [ix EXCEPT !.leaf = l.file]
           d == dir_insert(ix.dir, l.entry)
           c2 == b >= 0 /\ (l.got # "ok" \/ Bad(l.file))
           c3 == b >= 0 /\ l.got = "ok" /\ ~Bad(l.file) /\ l.entry.null
           c4 == d.got # "ok" \/ Bad(d.file)
           both == [with EXCEPT !.dir = d.file]
<1>1. index_insert(ix, key, id) =
        CASE b < 0 -> Index(ix, "throws")
          [] c2 -> Index(with, "throws")
          [] c3 -> Index(with, "ok")
          [] OTHER -> IF c4 THEN Index(with, "throws")
                      ELSE IF d.entry.null THEN Index(with, make_new_root(d.file).got)
                      ELSE Index(both, "ok")
  BY Zenon DEF index_insert
<1>2. IndexOK(ix) => Grown(l.file, ix.leaf)
  BY LeafInsertGrows DEF IndexOK
<1>3. make_new_root(d.file).got = "dies"
  BY DEF make_new_root, Ended
<1> HIDE DEF b, l, d
<1>4. IndexOK(ix) => IndexGrown(with, ix)
  BY <1>2, WithLeaf
<1> HIDE DEF with
<1>5. IndexOK(ix) => IndexGrown(both, ix)
  BY <1>4 DEF IndexGrown, IndexOK
<1>6. IndexOK(ix) => IndexGrown(ix, ix)
  BY GrownSelf DEF IndexGrown, IndexOK
<1>7. \A x, y : Index(x, y).ix = x /\ Index(x, y).got = y
  BY DEF Index
<1> HIDE DEF both, c2, c3, c4
<1> QED BY <1>1, <1>3, <1>4, <1>5, <1>6, <1>7 DEF Endings

LEMMA IndexRemoveGrows ==
  ASSUME NEW ix, NEW key, NEW id
  PROVE  /\ IndexOK(ix) => IndexGrown(index_remove(ix, key, id).ix, ix)
         /\ index_remove(ix, key, id).got \in Endings
<1> DEFINE b == search(ix.dir, key)
           l == leaf_remove(ix.leaf, b, key, id)
           with == [ix EXCEPT !.leaf = l.file]
<1>1. index_remove(ix, key, id) =
        IF b < 0 THEN Index(ix, "throws") ELSE Index(with, l.got)
  BY Zenon DEF index_remove
<1>2. (IndexOK(ix) => Grown(l.file, ix.leaf)) /\ l.got \in {"ok", "hangs"}
  BY LeafRemoveGrows DEF IndexOK
<1> HIDE DEF b, l
<1>4. IndexOK(ix) => IndexGrown(with, ix)
  BY <1>2, WithLeaf
<1>6. IndexOK(ix) => IndexGrown(ix, ix)
  BY GrownSelf DEF IndexGrown, IndexOK
<1>7. \A x, y : Index(x, y).ix = x /\ Index(x, y).got = y
  BY DEF Index
<1> HIDE DEF with
<1> QED BY <1>1, <1>2, <1>4, <1>6, <1>7 DEF Endings

LEMMA UndoneGrows ==
  ASSUME NEW ix, IndexOK(ix), NEW before, NEW lost
  PROVE  IndexOK(Undone(before, ix, lost)) /\ Len(Undone(before, ix, lost).leaf) = Len(ix.leaf)
<1> DEFINE l == UndoneFile(before.leaf, ix.leaf, lost)
           d == UndoneFile(before.dir, ix.dir, {})
<1>1. Undone(before, ix, lost) = [ix EXCEPT !.leaf = l, !.dir = d]
  BY DEF Undone, IndexOK
<1>2. DOMAIN ix.leaf = 1 .. Len(ix.leaf) /\ Len(ix.leaf) \in Nat
  BY SeqIn DEF IndexOK, IsSeq
<1>3. l = [i \in 1 .. Len(ix.leaf) |-> l[i]]
  BY <1>2 DEF UndoneFile
<1> HIDE DEF l, d
<1>4. IsSeq(l) /\ Len(l) = Len(ix.leaf)
  BY <1>2, <1>3, SeqMade
<1> QED BY <1>1, <1>4 DEF IndexOK

-----------------------------------------------------------------------------
(* Worlds: the files and indexes of a database.                            *)
LEMMA AtLeastSelf ==
  ASSUME NEW w, WorldOK(w)
  PROVE  AtLeast(w, w)
BY DEF WorldOK, AtLeast, FileOK, IndexOK, IsSeq

LEMMA AtLeastTwice ==
  ASSUME NEW w, WorldOK(w), NEW v, WorldOK(v), NEW u, WorldOK(u), AtLeast(v, w), AtLeast(u, v)
  PROVE  AtLeast(u, w)
BY DEF WorldOK, AtLeast, FileOK, IndexOK, IsSeq

PutIndex(w, i, ix) == [w EXCEPT !.idx[i] = ix]
PutFile(w, f, s) == [w EXCEPT !.files[f] = s]
PutSlot(w, f, i, sl) == [w EXCEPT !.files[f][i] = sl]
PutUsed(w, f, i, b) == [w EXCEPT !.files[f][i].used = b]
PutRow(w, f, i, row) == [w EXCEPT !.files[f][i].row = row]
PutField(w, f, i, fld, val) == [w EXCEPT !.files[f][i].row[fld] = val]

LEMMA WithIndex ==
  ASSUME NEW w, WorldOK(w), NEW i, NEW ix, i \in DOMAIN Indexes => IndexGrown(ix, w.idx[i])
  PROVE  /\ WorldOK(PutIndex(w, i, ix)) /\ AtLeast(PutIndex(w, i, ix), w)
         /\ PutIndex(w, i, ix).files = w.files
<1> DEFINE v == PutIndex(w, i, ix)
<1>1. /\ DOMAIN v = DOMAIN w /\ v.files = w.files /\ DOMAIN v.idx = DOMAIN w.idx
      /\ \A j \in DOMAIN w.idx : v.idx[j] = IF j = i THEN ix ELSE w.idx[j]
  BY DEF WorldOK, PutIndex
<1> HIDE DEF v
<1>2. WorldOK(v)
  BY <1>1 DEF WorldOK, IndexGrown
<1>3. AtLeast(v, w)
  BY <1>1, AtLeastSelf DEF AtLeast, IndexGrown, Grown, WorldOK
<1> QED BY <1>1, <1>2, <1>3 DEF v

LEMMA WithFile ==
  ASSUME NEW w, WorldOK(w), NEW f \in Files, NEW s, FileOK(f, s), Len(s) >= Len(w.files[f])
  PROVE  /\ WorldOK(PutFile(w, f, s)) /\ AtLeast(PutFile(w, f, s), w)
         /\ PutFile(w, f, s).files[f] = s
         /\ PutFile(w, f, s).idx = w.idx
         /\ \A g \in Files : g # f => PutFile(w, f, s).files[g] = w.files[g]
<1> DEFINE v == PutFile(w, f, s)
<1>1. /\ DOMAIN v = DOMAIN w /\ v.idx = w.idx /\ DOMAIN v.files = DOMAIN w.files
      /\ \A g \in DOMAIN w.files : v.files[g] = IF g = f THEN s ELSE w.files[g]
  BY DEF WorldOK, PutFile
<1> HIDE DEF v
<1>2. WorldOK(v)
  BY <1>1 DEF WorldOK
<1>3. AtLeast(v, w)
  BY <1>1, AtLeastSelf DEF AtLeast, WorldOK
<1>4. v.files[f] = s /\ \A g \in Files : g # f => v.files[g] = w.files[g]
  BY <1>1 DEF WorldOK
<1> QED BY <1>1, <1>2, <1>3, <1>4 DEF v

LEMMA BlockFits ==
  ASSUME NEW f, NEW s, FileOK(f, s)
  PROVE  /\ FileOK(f, s \o EmptyBlock(f)) /\ Len(s \o EmptyBlock(f)) = Len(s) + RecsPerBlock
         /\ \A i \in 1 .. Len(s) : (s \o EmptyBlock(f))[i] = s[i]
         /\ \A i \in 1 .. Len(s \o EmptyBlock(f)) :
              i \in 1 .. Len(s) \/ (s \o EmptyBlock(f))[i] = EmptySlot(f)
<1> DEFINE e == EmptyBlock(f)
<1>1. RecsPerBlock \in Nat /\ \A i \in 1 .. RecsPerBlock : e[i] = EmptySlot(f)
  BY EngineAssumption DEF EmptyBlock
<1>2. e = [i \in 1 .. RecsPerBlock |-> e[i]]
  BY DEF EmptyBlock
<1>3. IsSeq(e) /\ Len(e) = RecsPerBlock
  BY <1>1, <1>2, SeqMade
<1>4. SlotOK(f, EmptySlot(f))
  BY DEF SlotOK, EmptySlot
<1> HIDE DEF e
<1>5. IsSeq(s) /\ Len(s) \in Nat
  BY DEF FileOK, IsSeq
<1>6. /\ IsSeq(s \o e) /\ Len(s \o e) = Len(s) + Len(e)
      /\ \A i \in 1 .. Len(s) : (s \o e)[i] = s[i]
      /\ \A i \in 1 .. Len(s \o e) :
           i \in 1 .. Len(s) \/ (i - Len(s) \in 1 .. Len(e) /\ (s \o e)[i] = e[i - Len(s)])
  BY <1>3, <1>5, SeqConcat
<1>7. \A i \in 1 .. Len(s \o e) : i \in 1 .. Len(s) \/ (s \o e)[i] = EmptySlot(f)
  BY <1>1, <1>3, <1>6
<1>8. \A i \in 1 .. Len(s \o e) : SlotOK(f, (s \o e)[i])
  BY <1>4, <1>6, <1>7 DEF FileOK
<1>9. \E k \in Nat : Len(s \o e) = k * RecsPerBlock
  <2>1. PICK k \in Nat : Len(s) = k * RecsPerBlock
    BY DEF FileOK
  <2>2. Len(s \o e) = (k + 1) * RecsPerBlock
    BY <1>1, <1>3, <1>6, <2>1
  <2> QED BY <2>2
<1> QED BY <1>3, <1>6, <1>7, <1>8, <1>9 DEF FileOK, e

LEMMA SlotFits ==
  ASSUME NEW f, NEW s, FileOK(f, s), NEW i \in 1 .. Len(s), NEW sl, SlotOK(f, sl)
  PROVE  /\ FileOK(f, [s EXCEPT ![i] = sl]) /\ Len([s EXCEPT ![i] = sl]) = Len(s)
         /\ DOMAIN [s EXCEPT ![i] = sl] = DOMAIN s
         /\ \A j \in DOMAIN s : [s EXCEPT ![i] = sl][j] = IF j = i THEN sl ELSE s[j]
<1> DEFINE r == [s EXCEPT ![i] = sl]
<1>1. IsSeq(r) /\ Len(r) = Len(s) /\ DOMAIN s = 1 .. Len(s)
  BY SeqExcept, SeqIn DEF FileOK
<1>2. DOMAIN r = DOMAIN s /\ \A j \in DOMAIN s : r[j] = IF j = i THEN sl ELSE s[j]
  OBVIOUS
<1> HIDE DEF r
<1>3. FileOK(f, r)
  BY <1>1, <1>2 DEF FileOK
<1> QED BY <1>1, <1>2, <1>3 DEF r

(* Slots used and rows, of a file that is kept or only gets empty blocks.  *)
SameRows(v, w, f) ==
  /\ UsedSlots(v, f) = UsedSlots(w, f)
  /\ \A i \in UsedSlots(w, f) : v.files[f][i].row = w.files[f][i].row

LEMMA SameRowsAre ==
  ASSUME NEW v, NEW w, NEW f, SameRows(v, w, f)
  PROVE  Rows(v, f) = Rows(w, f)
BY DEF SameRows, Rows

Extends(v, w) == WorldOK(v) /\ AtLeast(v, w) /\ \A f \in Files : SameRows(v, w, f)

LEMMA WithBlock ==
  ASSUME NEW w, WorldOK(w), NEW f \in Files
  PROVE  LET v == PutFile(w, f, w.files[f] \o EmptyBlock(f))
         IN /\ Extends(v, w) /\ v.idx = w.idx /\ Len(v.files[f]) = Len(w.files[f]) + RecsPerBlock
            /\ Len(v.files[f]) \in DOMAIN v.files[f] \ UsedSlots(v, f)
            /\ \A g \in Files : g # f => v.files[g] = w.files[g]
<1> DEFINE s == w.files[f] \o EmptyBlock(f)
           v == PutFile(w, f, s)
<1>1. FileOK(f, w.files[f]) /\ DOMAIN w.files[f] = 1 .. Len(w.files[f]) /\ Len(w.files[f]) \in Nat
  BY SeqIn DEF WorldOK, FileOK, IsSeq
<1>2. /\ FileOK(f, s) /\ Len(s) = Len(w.files[f]) + RecsPerBlock
      /\ \A i \in 1 .. Len(w.files[f]) : s[i] = w.files[f][i]
      /\ \A i \in 1 .. Len(s) : i \in 1 .. Len(w.files[f]) \/ s[i] = EmptySlot(f)
  BY <1>1, BlockFits
<1>3. RecsPerBlock \in Nat \ {0}
  BY EngineAssumption
<1>4. DOMAIN s = 1 .. Len(s)
  BY <1>2, SeqIn DEF FileOK
<1>4a. Len(s) >= Len(w.files[f])
  BY <1>1, <1>2, <1>3
<1> HIDE DEF s
<1>5. /\ WorldOK(v) /\ AtLeast(v, w) /\ v.files[f] = s /\ v.idx = w.idx
      /\ \A g \in Files : g # f => v.files[g] = w.files[g]
  BY <1>2, <1>4a, WithFile
<1> HIDE DEF v
<1>6. UsedSlots(v, f) = UsedSlots(w, f)
  <2>1. ~EmptySlot(f).used
    BY DEF EmptySlot
  <2>2. \A i \in 1 .. Len(s) : s[i].used <=> i \in 1 .. Len(w.files[f]) /\ w.files[f][i].used
    BY <1>2, <2>1
  <2>3. 1 .. Len(w.files[f]) \subseteq 1 .. Len(s)
    BY <1>1, <1>2, <1>3
  <2> QED BY <1>1, <1>4, <1>5, <2>2, <2>3 DEF UsedSlots
<1>7. SameRows(v, w, f)
  BY <1>1, <1>2, <1>5, <1>6 DEF SameRows, UsedSlots
<1>8. \A g \in Files : SameRows(v, w, g)
  BY <1>5, <1>7 DEF SameRows, UsedSlots
<1>9. Len(s) \in DOMAIN s /\ Len(s) \notin UsedSlots(v, f)
  BY <1>1, <1>2, <1>3, <1>4, <1>6 DEF UsedSlots
<1> QED BY <1>2, <1>5, <1>8, <1>9 DEF Extends, s, v

LEMMA ExtendsSelf ==
  ASSUME NEW w, WorldOK(w)
  PROVE  Extends(w, w)
BY AtLeastSelf DEF Extends, SameRows

LEMMA ExtendsTwice ==
  ASSUME NEW w, WorldOK(w), NEW v, Extends(v, w), NEW u, Extends(u, v)
  PROVE  Extends(u, w)
<1>1. AtLeast(u, w)
  BY AtLeastTwice DEF Extends
<1> QED BY <1>1 DEF Extends, SameRows

LEMMA ScanExtends ==
  ASSUME NEW w, WorldOK(w), NEW f \in Files
  PROVE  Extends(table_scan(w, f), w) /\ table_scan(w, f).idx = w.idx
<1> DEFINE v == PutFile(w, f, w.files[f] \o EmptyBlock(f))
<1>1. CASE w.files[f] = <<>>
  <2>1. table_scan(w, f) = v
    BY <1>1 DEF table_scan, WorldOK, PutFile
  <2>2. Extends(v, w) /\ v.idx = w.idx
    BY WithBlock
  <2> HIDE DEF v
  <2> QED BY <2>1, <2>2
<1>2. CASE w.files[f] # <<>>
  <2>1. table_scan(w, f) = PutFile(w, f, w.files[f])
    BY <1>2 DEF table_scan, WorldOK, PutFile
  <2>2. FileOK(f, w.files[f]) /\ Len(w.files[f]) \in Nat
    BY DEF WorldOK, FileOK, IsSeq
  <2> DEFINE u == PutFile(w, f, w.files[f])
  <2>3. /\ WorldOK(u) /\ AtLeast(u, w) /\ u.files[f] = w.files[f] /\ u.idx = w.idx
        /\ \A g \in Files : g # f => u.files[g] = w.files[g]
    BY <2>2, WithFile
  <2> HIDE DEF u
  <2>4. \A g \in Files : SameRows(u, w, g)
    BY <2>3 DEF SameRows, UsedSlots
  <2> QED BY <2>1, <2>3, <2>4 DEF Extends, u
<1> QED BY <1>1, <1>2

LEMMA RoomExtends ==
  ASSUME NEW w, WorldOK(w), NEW f \in Files
  PROVE  LET v == RoomFor(w, f, 0)
         IN /\ Extends(v, w) /\ v.idx = w.idx
            /\ FreeSlot(w, f, 0) \in DOMAIN v.files[f] \ UsedSlots(v, f)
<1> DEFINE u == PutFile(w, f, w.files[f] \o EmptyBlock(f))
           v == RoomFor(w, f, 0)
           Free == {j \in DOMAIN v.files[f] \ UsedSlots(v, f) : j > 0}
<1>0. \A x : WorldOK(x) => DOMAIN x.files[f] = 1 .. Len(x.files[f]) /\ Len(x.files[f]) \in Nat
  BY SeqIn DEF WorldOK, FileOK, IsSeq
<1>1. Extends(v, w) /\ v.idx = w.idx /\ Free # {}
  <2>1. CASE \E j \in DOMAIN w.files[f] \ UsedSlots(w, f) : j > 0
    <3>1. v = w
      BY <2>1 DEF RoomFor
    <3> QED BY <3>1, <2>1, ExtendsSelf
  <2>2. CASE ~\E j \in DOMAIN w.files[f] \ UsedSlots(w, f) : j > 0
    <3>1. v = u
      BY <2>2 DEF RoomFor, PutFile
    <3> HIDE DEF v
    <3>2. /\ Extends(u, w) /\ u.idx = w.idx
          /\ Len(u.files[f]) \in DOMAIN u.files[f] \ UsedSlots(u, f)
      BY WithBlock
    <3>3. WorldOK(u)
      BY <3>2 DEF Extends
    <3> HIDE DEF u
    <3>4. Len(u.files[f]) > 0
      BY <1>0, <3>2, <3>3
    <3> QED BY <3>1, <3>2, <3>4
  <2> QED BY <2>1, <2>2
<1>2. FreeSlot(w, f, 0) = Min(Free)
  BY DEF FreeSlot
<1>3. Free \in SUBSET Nat
  <2>1. WorldOK(v)
    BY <1>1 DEF Extends
  <2> HIDE DEF v
  <2> QED BY <1>0, <2>1
<1> HIDE DEF v
<1>4. Min(Free) \in Free
  <2> HIDE DEF Free
  <2> QED BY <1>1, <1>3, LeastNumber
<1> QED BY <1>1, <1>2, <1>4 DEF v

(* A slot in place of another.                                             *)
LEMMA WithSlot ==
  ASSUME NEW w, WorldOK(w), NEW f \in Files, NEW i \in DOMAIN w.files[f], NEW sl, SlotOK(f, sl)
  PROVE  LET v == PutSlot(w, f, i, sl)
         IN /\ WorldOK(v) /\ AtLeast(v, w) /\ v.idx = w.idx
            /\ \A g \in Files : g # f => v.files[g] = w.files[g]
            /\ DOMAIN v.files[f] = DOMAIN w.files[f] /\ Len(v.files[f]) = Len(w.files[f])
            /\ \A j \in DOMAIN w.files[f] : v.files[f][j] = IF j = i THEN sl ELSE w.files[f][j]
<1> DEFINE s == [w.files[f] EXCEPT ![i] = sl]
           v == PutFile(w, f, s)
<1>1. /\ FileOK(f, w.files[f]) /\ DOMAIN w.files[f] = 1 .. Len(w.files[f])
      /\ Len(w.files[f]) \in Nat
  BY SeqIn DEF WorldOK, FileOK, IsSeq
<1>2. /\ FileOK(f, s) /\ Len(s) = Len(w.files[f]) /\ DOMAIN s = DOMAIN w.files[f]
      /\ \A j \in DOMAIN w.files[f] : s[j] = IF j = i THEN sl ELSE w.files[f][j]
  BY <1>1, SlotFits
<1>3. PutSlot(w, f, i, sl) = v
  BY DEF WorldOK, PutFile, PutSlot, PutUsed, PutRow, PutField
<1> HIDE DEF s
<1>4. Len(s) >= Len(w.files[f])
  BY <1>1, <1>2
<1>5. /\ WorldOK(v) /\ AtLeast(v, w) /\ v.files[f] = s /\ v.idx = w.idx
      /\ \A g \in Files : g # f => v.files[g] = w.files[g]
  BY <1>2, <1>4, WithFile
<1> HIDE DEF v
<1> QED BY <1>2, <1>3, <1>5

(* The slots that are taken, and given back.                               *)
SlotSet(v, w, f, i) ==
  /\ WorldOK(v) /\ AtLeast(v, w) /\ v.idx = w.idx
  /\ DOMAIN v.files[f] = DOMAIN w.files[f] /\ Len(v.files[f]) = Len(w.files[f])
  /\ \A g \in Files : g # f => SameRows(v, w, g)
  /\ \A j \in DOMAIN w.files[f] : j # i => v.files[f][j] = w.files[f][j]

LEMMA SlotSetRest ==
  ASSUME NEW w, WorldOK(w), NEW f \in Files, NEW i \in DOMAIN w.files[f], NEW sl, SlotOK(f, sl)
  PROVE  LET v == PutSlot(w, f, i, sl)
         IN SlotSet(v, w, f, i) /\ v.files[f][i] = sl
<1> DEFINE v == PutSlot(w, f, i, sl)
<1>1. /\ WorldOK(v) /\ AtLeast(v, w) /\ v.idx = w.idx
      /\ \A g \in Files : g # f => v.files[g] = w.files[g]
      /\ DOMAIN v.files[f] = DOMAIN w.files[f] /\ Len(v.files[f]) = Len(w.files[f])
      /\ \A j \in DOMAIN w.files[f] : v.files[f][j] = IF j = i THEN sl ELSE w.files[f][j]
  BY WithSlot
<1> HIDE DEF v
<1>2. \A g \in Files : g # f => SameRows(v, w, g)
  BY <1>1 DEF SameRows, UsedSlots
<1>3. SlotSet(v, w, f, i) /\ v.files[f][i] = sl
  BY <1>1, <1>2 DEF SlotSet
<1> QED BY <1>3 DEF v

LEMMA SetUsed ==
  ASSUME NEW w, WorldOK(w), NEW f \in Files, NEW i \in DOMAIN w.files[f], NEW b \in BOOLEAN
  PROVE  LET v == PutUsed(w, f, i, b)
         IN /\ SlotSet(v, w, f, i) /\ v.files[f][i].row = w.files[f][i].row
            /\ UsedSlots(v, f) = IF b THEN UsedSlots(w, f) \cup {i} ELSE UsedSlots(w, f) \ {i}
<1> DEFINE sl == [w.files[f][i] EXCEPT !.used = b]
           v == PutSlot(w, f, i, sl)
<1>1. SlotOK(f, w.files[f][i])
  BY SeqIn DEF WorldOK, FileOK
<1>2. SlotOK(f, sl) /\ sl.used = b /\ sl.row = w.files[f][i].row
  BY <1>1 DEF SlotOK
<1>3. PutUsed(w, f, i, b) = v
  BY DEF WorldOK, PutFile, PutSlot, PutUsed, PutRow, PutField
<1> HIDE DEF sl
<1>4. SlotSet(v, w, f, i) /\ v.files[f][i] = sl
  BY <1>2, SlotSetRest
<1> HIDE DEF v
<1>5. UsedSlots(v, f) = IF b THEN UsedSlots(w, f) \cup {i} ELSE UsedSlots(w, f) \ {i}
  BY <1>2, <1>4 DEF UsedSlots, SlotSet
<1> QED BY <1>2, <1>3, <1>4, <1>5

RowOK(f, row) == row = [fld \in ToSet(FieldsOf(f)) |-> row[fld]]

LEMMA SetRow ==
  ASSUME NEW w, WorldOK(w), NEW f \in Files, NEW i \in DOMAIN w.files[f], NEW row, RowOK(f, row)
  PROVE  LET v == PutRow(w, f, i, row)
         IN /\ SlotSet(v, w, f, i) /\ v.files[f][i].row = row
            /\ UsedSlots(v, f) = UsedSlots(w, f)
<1> DEFINE sl == [w.files[f][i] EXCEPT !.row = row]
           v == PutSlot(w, f, i, sl)
<1>1. SlotOK(f, w.files[f][i])
  BY SeqIn DEF WorldOK, FileOK
<1>2. SlotOK(f, sl) /\ sl.used = w.files[f][i].used /\ sl.row = row
  BY <1>1 DEF SlotOK, RowOK
<1>3. PutRow(w, f, i, row) = v
  BY DEF WorldOK, PutFile, PutSlot, PutUsed, PutRow, PutField
<1> HIDE DEF sl
<1>4. SlotSet(v, w, f, i) /\ v.files[f][i] = sl
  BY <1>2, SlotSetRest
<1> HIDE DEF v
<1>5. UsedSlots(v, f) = UsedSlots(w, f)
  <2>1. \A j \in DOMAIN w.files[f] : v.files[f][j].used = w.files[f][j].used
    BY <1>2, <1>4 DEF SlotSet
  <2> QED BY <1>4, <2>1 DEF UsedSlots, SlotSet
<1> QED BY <1>2, <1>3, <1>4, <1>5

WithField(row, fld, val) == [row EXCEPT ![fld] = val]

LEMMA SetField ==
  ASSUME NEW w, WorldOK(w), NEW f \in Files, NEW i \in DOMAIN w.files[f], NEW fld, NEW val,
         NEW v, v = PutField(w, f, i, fld, val)
  PROVE  /\ SlotSet(v, w, f, i) /\ v.files[f][i].row = WithField(w.files[f][i].row, fld, val)
         /\ UsedSlots(v, f) = UsedSlots(w, f)
<1> DEFINE row == [w.files[f][i].row EXCEPT ![fld] = val]
           u == PutRow(w, f, i, row)
<1>1. SlotOK(f, w.files[f][i])
  BY SeqIn DEF WorldOK, FileOK
<1>2. DOMAIN row = ToSet(FieldsOf(f))
  BY <1>1 DEF SlotOK
<1>3. RowOK(f, row)
  BY <1>2 DEF RowOK
<1>4. v = u
  BY DEF WorldOK, PutRow, PutField
<1> HIDE DEF row
<1>5. SlotSet(u, w, f, i) /\ u.files[f][i].row = row /\ UsedSlots(u, f) = UsedSlots(w, f)
  BY <1>3, SetRow
<1> HIDE DEF u
<1>6. SlotSet(v, w, f, i) /\ v.files[f][i].row = row /\ UsedSlots(v, f) = UsedSlots(w, f)
  BY <1>4, <1>5
<1> QED BY <1>6 DEF row, WithField

(* insert_after: one slot is taken that was not in use.                    *)
Inserts(v, w, f, i) ==
  /\ WorldOK(v) /\ AtLeast(v, w) /\ i \in DOMAIN v.files[f] \ UsedSlots(w, f)
  /\ UsedSlots(v, f) = UsedSlots(w, f) \cup {i}
  /\ \A j \in UsedSlots(w, f) : v.files[f][j].row = w.files[f][j].row
  /\ \A g \in Files : g # f => SameRows(v, w, g)

LEMMA InsertAfter ==
  ASSUME NEW w, WorldOK(w), NEW f \in Files
  PROVE  Inserts(insert_after(w, f, 0), w, f, FreeSlot(w, f, 0))
<1> DEFINE u == RoomFor(w, f, 0)
           i == FreeSlot(w, f, 0)
           v == PutUsed(u, f, i, TRUE)
<1>1. Extends(u, w) /\ u.idx = w.idx /\ i \in DOMAIN u.files[f] \ UsedSlots(u, f)
  BY RoomExtends
<1>2. insert_after(w, f, 0) = v
  BY Zenon DEF insert_after, PutUsed
<1> HIDE DEF u, i
<1>3. WorldOK(u)
  BY <1>1 DEF Extends
<1>4. /\ SlotSet(v, u, f, i) /\ v.files[f][i].row = u.files[f][i].row
      /\ UsedSlots(v, f) = UsedSlots(u, f) \cup {i}
  <2> DEFINE x(b) == PutUsed(u, f, i, b)
  <2>1. ASSUME NEW b \in BOOLEAN
        PROVE  /\ SlotSet(x(b), u, f, i) /\ x(b).files[f][i].row = u.files[f][i].row
               /\ UsedSlots(x(b), f) = IF b THEN UsedSlots(u, f) \cup {i} ELSE UsedSlots(u, f) \ {i}
    BY <1>1, <1>3, SetUsed
  <2>2. v = x(TRUE)
    OBVIOUS
  <2> HIDE DEF v, x
  <2> QED BY <2>1, <2>2
<1> HIDE DEF v
<1>5. AtLeast(v, w) /\ WorldOK(v)
  BY <1>1, <1>3, <1>4, AtLeastTwice DEF Extends, SlotSet
<1>6. UsedSlots(u, f) = UsedSlots(w, f)
      /\ \A j \in UsedSlots(w, f) : u.files[f][j].row = w.files[f][j].row
  BY <1>1 DEF Extends, SameRows
<1>7. \A j \in UsedSlots(w, f) : v.files[f][j].row = w.files[f][j].row
  <2>1. UsedSlots(u, f) \subseteq DOMAIN u.files[f]
    BY DEF UsedSlots
  <2> QED BY <1>1, <1>4, <1>6, <2>1 DEF SlotSet
<1>8. \A g \in Files : g # f => SameRows(v, w, g)
  BY <1>1, <1>4 DEF Extends, SlotSet, SameRows
<1>9. i \in DOMAIN v.files[f] \ UsedSlots(w, f)
  BY <1>1, <1>4, <1>6 DEF SlotSet
<1>10. UsedSlots(v, f) = UsedSlots(w, f) \cup {i}
  BY <1>4, <1>6
<1> QED BY <1>2, <1>5, <1>7, <1>8, <1>9, <1>10 DEF Inserts, i

LEMMA ScanInserts ==
  ASSUME NEW w, WorldOK(w), NEW f \in Files
  PROVE  LET u == table_scan(w, f)
         IN Inserts(insert_after(u, f, 0), w, f, FreeSlot(u, f, 0))
<1> DEFINE u == table_scan(w, f)
<1>1. Extends(u, w)
  BY ScanExtends
<1> HIDE DEF u
<1> DEFINE v == insert_after(u, f, 0)
           i == FreeSlot(u, f, 0)
<1>2. WorldOK(u)
  BY <1>1 DEF Extends
<1>3. Inserts(v, u, f, i)
  BY <1>2, InsertAfter
<1> HIDE DEF v, i
<1>4. AtLeast(v, w)
  BY <1>1, <1>2, <1>3, AtLeastTwice DEF Extends, Inserts
<1>5. SameRows(u, w, f)
  BY <1>1 DEF Extends
<1>6. \A g \in Files : g # f => SameRows(v, w, g)
  BY <1>1, <1>3 DEF Extends, Inserts, SameRows
<1>7. Inserts(v, w, f, i)
  BY <1>3, <1>4, <1>5, <1>6 DEF Inserts, SameRows
<1> QED BY <1>7 DEF u, v, i

(* insert_row leaves the other files their rows.                           *)
LEMMA InsertRow ==
  ASSUME NEW w, WorldOK(w), NEW f \in Files, NEW row, RowOK(f, row)
  PROVE  /\ WorldOK(insert_row(w, f, row)) /\ AtLeast(insert_row(w, f, row), w)
         /\ \A g \in Files : g # f => SameRows(insert_row(w, f, row), w, g)
<1> DEFINE u == table_scan(w, f)
           v == insert_after(u, f, 0)
           i == FreeSlot(u, f, 0)
           x == PutRow(v, f, i, row)
<1>1. Inserts(v, w, f, i)
  BY ScanInserts
<1>2. insert_row(w, f, row) = x
  BY Zenon DEF insert_row, PutRow
<1> HIDE DEF v, i
<1>3. WorldOK(v) /\ i \in DOMAIN v.files[f]
  BY <1>1 DEF Inserts
<1>4. SlotSet(x, v, f, i)
  BY <1>3, SetRow
<1> HIDE DEF x
<1>5. WorldOK(x) /\ AtLeast(x, w)
  BY <1>1, <1>3, <1>4, AtLeastTwice DEF Inserts, SlotSet
<1>6. \A g \in Files : g # f => SameRows(x, w, g)
  BY <1>1, <1>4 DEF Inserts, SlotSet, SameRows
<1> QED BY <1>2, <1>5, <1>6

-----------------------------------------------------------------------------
(* insert_rows, a recursive function: it exists, and what it makes of a    *)
(* world is a world with the same rows in the tables.                      *)
NextInsert(w, r) == insert_row(w, r.file, r.row)
Inserted(f, w, recs, n) ==
  f = [k \in 0 .. n |-> IF k = 0 THEN w ELSE NextInsert(f[k - 1], recs[k])]

LEMMA InsertedExists ==
  ASSUME NEW w, NEW recs
  PROVE  \A n \in Nat : \E f : Inserted(f, w, recs, n)
<1> DEFINE T == {n \in Nat : \E f : Inserted(f, w, recs, n)}
<1>1. 0 \in T
  <2>1. Inserted([k \in 0 .. 0 |-> w], w, recs, 0)
    BY DEF Inserted
  <2> QED BY <2>1
<1>2. ASSUME NEW n \in Nat, n \in T PROVE n + 1 \in T
  <2>1. PICK f : Inserted(f, w, recs, n)
    BY <1>2
  <2> DEFINE last == NextInsert(f[n], recs[n + 1])
             g == [k \in 0 .. n + 1 |-> IF k = n + 1 THEN last ELSE f[k]]
  <2>2. \A k \in 0 .. n : f[k] = IF k = 0 THEN w ELSE NextInsert(f[k - 1], recs[k])
    BY <2>1, Zenon DEF Inserted
  <2>3. \A k \in 0 .. n + 1 : g[k] = IF k = 0 THEN w ELSE NextInsert(g[k - 1], recs[k])
    <3> SUFFICES ASSUME NEW k \in 0 .. n + 1
                 PROVE  g[k] = IF k = 0 THEN w ELSE NextInsert(g[k - 1], recs[k])
      OBVIOUS
    <3>1. CASE k = n + 1
      <4>1. g[k] = last /\ g[k - 1] = f[n] /\ k # 0
        BY <3>1
      <4> QED BY <3>1, <4>1
    <3>2. CASE k # n + 1
      <4>1. k \in 0 .. n /\ g[k] = f[k] /\ (k # 0 => g[k - 1] = f[k - 1])
        BY <3>2
      <4> HIDE DEF g
      <4> QED BY <2>2, <4>1
    <3> QED BY <3>1, <3>2
  <2>4. g = [k \in 0 .. n + 1 |-> g[k]]
    OBVIOUS
  <2> HIDE DEF g
  <2>5. Inserted(g, w, recs, n + 1)
    BY <2>3, <2>4 DEF Inserted
  <2> QED BY <2>5
<1>3. Nat \subseteq T
  <2> HIDE DEF T
  <2> QED BY <1>1, <1>2, SetInduction
<1> QED BY <1>3

LEMMA InsertRowsValue ==
  ASSUME NEW w, NEW recs, Len(recs) \in Nat
  PROVE  \E f : Inserted(f, w, recs, Len(recs)) /\ insert_rows(w, recs) = f[Len(recs)]
<1> DEFINE g == CHOOSE f : Inserted(f, w, recs, Len(recs))
<1>1. Inserted(g, w, recs, Len(recs))
  BY InsertedExists, Zenon
<1>2. insert_rows(w, recs) = g[Len(recs)]
  BY DEF insert_rows, Inserted, NextInsert
<1> HIDE DEF g
<1> QED BY <1>1, <1>2

RecordOK(r) == r.file \in Catalog /\ RowOK(r.file, r.row)
RecordsOK(recs) == IsSeq(recs) /\ \A k \in 1 .. Len(recs) : RecordOK(recs[k])
KeepsTables(v, w) == WorldOK(v) /\ AtLeast(v, w) /\ \A t \in Tables : SameRows(v, w, t)

LEMMA InsertRows ==
  ASSUME NEW w, WorldOK(w), NEW recs, RecordsOK(recs)
  PROVE  KeepsTables(insert_rows(w, recs), w)
<1>1. Len(recs) \in Nat
  BY DEF RecordsOK, IsSeq
<1>2. PICK f : Inserted(f, w, recs, Len(recs)) /\ insert_rows(w, recs) = f[Len(recs)]
  BY <1>1, InsertRowsValue
<1>3. \A k \in 0 .. Len(recs) : f[k] = IF k = 0 THEN w ELSE NextInsert(f[k - 1], recs[k])
  BY <1>2, Zenon DEF Inserted
<1> DEFINE T == {n \in Nat : n <= Len(recs) => KeepsTables(f[n], w)}
<1>4. 0 \in T
  <2>1. f[0] = w
    BY <1>1, <1>3
  <2> QED BY <2>1, AtLeastSelf DEF KeepsTables, SameRows
<1>5. ASSUME NEW n \in Nat, n \in T PROVE n + 1 \in T
  <2>1. SUFFICES ASSUME n + 1 <= Len(recs) PROVE KeepsTables(f[n + 1], w)
    OBVIOUS
  <2>2. KeepsTables(f[n], w)
    BY <1>1, <1>5, <2>1
  <2> DEFINE r == recs[n + 1]
             v == f[n]
             u == f[n + 1]
  <2>3. RecordOK(r)
    BY <1>1, <2>1 DEF RecordsOK
  <2>4. u = insert_row(v, r.file, r.row)
    <3>1. n + 1 \in 0 .. Len(recs) /\ n + 1 # 0 /\ (n + 1) - 1 = n
      BY <1>1, <2>1
    <3> QED BY <1>3, <3>1 DEF NextInsert
  <2> HIDE DEF r, v, u
  <2>5. /\ WorldOK(u) /\ AtLeast(u, v)
        /\ \A g \in Files : g # r.file => SameRows(u, v, g)
    <3>1. WorldOK(v) /\ r.file \in Files
      BY <2>2, <2>3 DEF KeepsTables, RecordOK, Files, v
    <3> QED BY <2>3, <2>4, <3>1, InsertRow DEF RecordOK
  <2>6. \A t \in Tables : t \in Files /\ t # r.file
    BY <2>3, EngineAssumption DEF RecordOK, Files
  <2>7. AtLeast(u, w)
    BY <2>2, <2>5, AtLeastTwice DEF KeepsTables, v
  <2> QED BY <2>2, <2>5, <2>6, <2>7 DEF KeepsTables, SameRows, u, v
<1>6. Nat \subseteq T
  <2> HIDE DEF T
  <2> QED BY <1>4, <1>5, SetInduction
<1> QED BY <1>1, <1>2, <1>6

(* What a statement inserts into the catalog are records of it.            *)
LEMMA CatalogRows ==
  /\ \A t : RecordOK(Record("tblcat", [tblname |-> t]))
  /\ \A t, fld : RecordOK(Record("fldcat", [tblname |-> t, fldname |-> fld]))
  /\ \A v, def : RecordOK(Record("viewcat", [viewname |-> v, viewdef |-> def]))
  /\ \A i, t, fld :
       RecordOK(Record("idxcat", [indexname |-> i, tablename |-> t, fieldname |-> fld]))
<1>1. {"tblcat", "fldcat", "viewcat", "idxcat"} = Catalog
  BY DEF Catalog, CatalogSchema
<1>2. /\ FieldsOf("tblcat") = <<"tblname">> /\ FieldsOf("fldcat") = <<"tblname", "fldname">>
      /\ FieldsOf("viewcat") = <<"viewname", "viewdef">>
      /\ FieldsOf("idxcat") = <<"indexname", "tablename", "fieldname">>
  BY <1>1 DEF FieldsOf, CatalogSchema
<1>3. /\ ToSet(<<"tblname">>) = {"tblname"}
      /\ ToSet(<<"tblname", "fldname">>) = {"tblname", "fldname"}
      /\ ToSet(<<"viewname", "viewdef">>) = {"viewname", "viewdef"}
      /\ ToSet(<<"indexname", "tablename", "fieldname">>) = {"indexname", "tablename", "fieldname"}
  BY DEF ToSet
<1>4. \A t : RecordOK(Record("tblcat", [tblname |-> t]))
  BY <1>1, <1>2, <1>3 DEF RecordOK, Record, RowOK
<1>5. \A t, fld : RecordOK(Record("fldcat", [tblname |-> t, fldname |-> fld]))
  BY <1>1, <1>2, <1>3 DEF RecordOK, Record, RowOK
<1>6. \A v, def : RecordOK(Record("viewcat", [viewname |-> v, viewdef |-> def]))
  BY <1>1, <1>2, <1>3 DEF RecordOK, Record, RowOK
<1>7. \A i, t, fld :
        RecordOK(Record("idxcat", [indexname |-> i, tablename |-> t, fieldname |-> fld]))
  BY <1>1, <1>2, <1>3 DEF RecordOK, Record, RowOK
<1> QED BY <1>4, <1>5, <1>6, <1>7

LEMMA OneRecord ==
  ASSUME NEW r, RecordOK(r)
  PROVE  RecordsOK(<<r>>)
<1>1. IsSeq(<<r>>) /\ Len(<<r>>) = 1 /\ <<r>>[1] = r
  BY SeqOne
<1> QED BY <1>1 DEF RecordsOK

LEMMA TableRecords ==
  ASSUME NEW t, NEW fields, Len(fields) \in Nat
  PROVE  RecordsOK(create_table(t, fields))
<1> DEFINE one == <<Record("tblcat", [tblname |-> t])>>
           more == [i \in 1 .. Len(fields) |->
                      Record("fldcat", [tblname |-> t, fldname |-> fields[i]])]
<1>1. RecordsOK(one)
  BY CatalogRows, OneRecord
<1>2. more = [i \in 1 .. Len(fields) |-> more[i]]
  OBVIOUS
<1>3. \A i \in 1 .. Len(fields) : RecordOK(more[i])
  BY CatalogRows
<1>4. create_table(t, fields) = one \o more
  BY Zenon DEF create_table
<1> HIDE DEF one, more
<1>5. IsSeq(more) /\ Len(more) = Len(fields)
  BY <1>2, SeqMade
<1>6. /\ IsSeq(one \o more) /\ Len(one \o more) = Len(one) + Len(more)
      /\ \A i \in 1 .. Len(one) : (one \o more)[i] = one[i]
      /\ \A i \in 1 .. Len(one \o more) :
           i \in 1 .. Len(one)
             \/ (i - Len(one) \in 1 .. Len(more) /\ (one \o more)[i] = more[i - Len(one)])
  <2>1. IsSeq(one) /\ IsSeq(more)
    BY <1>1, <1>5 DEF RecordsOK
  <2> QED BY <2>1, SeqConcat
<1> QED BY <1>1, <1>3, <1>4, <1>5, <1>6 DEF RecordsOK

LEMMA CatalogRecords ==
  ASSUME NEW t \in Catalog
  PROVE  RecordsOK(make_catalog(t))
<1>1. Len(CatalogSchema[t]) \in Nat
  BY DEF Catalog, CatalogSchema
<1> QED BY <1>1, TableRecords DEF make_catalog

LEMMA CreatedRecords ==
  ASSUME NEW p, p.op \in Creates, p.op = "create_table" => Len(p.sch) \in Nat
  PROVE  RecordsOK(Created(p))
<1>1. CASE p.op = "create_table"
  <2> DEFINE fields == [i \in 1 .. Len(p.sch) |-> p.sch[i].fld]
  <2>1. fields = [i \in 1 .. Len(p.sch) |-> fields[i]]
    OBVIOUS
  <2>2. Created(p) = create_table(p.tbl, fields)
    BY <1>1 DEF Created
  <2> HIDE DEF fields
  <2>3. Len(fields) \in Nat
    BY <1>1, <2>1, SeqMade
  <2> QED BY <2>2, <2>3, TableRecords
<1>2. CASE p.op = "create_index"
  <2>1. Created(p) = create_index(p.name, p.tbl, p.fld)
    BY <1>2 DEF Created
  <2> QED BY <2>1, CatalogRows, OneRecord DEF create_index
<1>3. CASE p.op = "create_view"
  <2>1. Created(p) = create_view(p.name, view_def(p.query, SetToSeq(p.query.tables)))
    BY <1>3 DEF Created
  <2> QED BY <2>1, CatalogRows, OneRecord DEF create_view
<1> QED BY <1>1, <1>2, <1>3 DEF Creates

(* Records in several parts.                                               *)
LEMMA FlatRecords ==
  ASSUME NEW parts, IsSeq(parts), \A i \in 1 .. Len(parts) : RecordsOK(parts[i])
  PROVE  RecordsOK(FlattenSeq(parts))
<1> DEFINE X == UNION {{parts[i][k] : k \in 1 .. Len(parts[i])} : i \in 1 .. Len(parts)}
<1>1. \A i \in 1 .. Len(parts) : parts[i] \in Seq(X)
  <2> SUFFICES ASSUME NEW i \in 1 .. Len(parts) PROVE parts[i] \in Seq(X)
    OBVIOUS
  <2>1. parts[i] = [k \in 1 .. Len(parts[i]) |-> parts[i][k]] /\ Len(parts[i]) \in Nat
    BY DEF RecordsOK, IsSeq
  <2>2. \A k \in 1 .. Len(parts[i]) : parts[i][k] \in X
    OBVIOUS
  <2> HIDE DEF X
  <2>3. parts[i] \in [1 .. Len(parts[i]) -> X]
    BY <2>1, <2>2
  <2> QED BY <2>1, <2>3
<1>2. \A x \in X : RecordOK(x)
  BY DEF RecordsOK
<1> HIDE DEF X
<1>3. parts \in Seq(Seq(X))
  <2>1. parts \in [1 .. Len(parts) -> Seq(X)] /\ Len(parts) \in Nat
    BY <1>1 DEF IsSeq
  <2> QED BY <2>1
<1>4. FlattenSeq(parts) \in Seq(X)
  BY <1>3, FlattenType
<1>5. IsSeq(FlattenSeq(parts))
  BY <1>4, SeqTyped
<1> QED BY <1>2, <1>4, <1>5 DEF RecordsOK

-----------------------------------------------------------------------------
(* Databases to begin with.                                                *)
LEMMA NoFilesOK == WorldOK(NoFiles) /\ \A t \in Tables : Rows(NoFiles, t) = <<>>
<1>1. \A f \in Files : NoFiles.files[f] = <<>>
  BY DEF NoFiles, Files
<1>2. \A f \in Files : FileOK(f, <<>>)
  <2>1. IsSeq(<<>>) /\ Len(<<>>) = 0
    BY SeqOne
  <2>2. RecsPerBlock \in Nat
    BY EngineAssumption
  <2>3. 0 = 0 * RecsPerBlock
    BY <2>2
  <2> QED BY <2>1, <2>3 DEF FileOK
<1>3. \A k : IndexOK(Unopened(k))
  BY SeqOne DEF IndexOK, Unopened
<1>4. WorldOK(NoFiles)
  <2>1. DOMAIN NoFiles = {"files", "idx"} /\ DOMAIN NoFiles.files = Files
        /\ DOMAIN NoFiles.idx = DOMAIN Indexes
    BY DEF NoFiles, Files
  <2>2. \A i \in DOMAIN Indexes : IndexOK(NoFiles.idx[i])
    BY <1>3 DEF NoFiles
  <2> QED BY <1>1, <1>2, <2>1, <2>2 DEF WorldOK
<1>5. \A t \in Tables : UsedSlots(NoFiles, t) = {}
  BY <1>1 DEF UsedSlots, Files
<1>6. \A t \in Tables : Rows(NoFiles, t) = <<>>
  BY <1>5 DEF Rows
<1> QED BY <1>4, <1>6

LEMMA DatabaseOK ==
  ASSUME NEW made \in Databases
  PROVE  WorldOK(DatabaseOf(made)) /\ \A t \in Tables : Rows(DatabaseOf(made), t) = <<>>
<1> DEFINE first == [i \in 1 .. 4 |-> make_catalog(CatalogTables[i])]
           parts == [i \in 1 .. Len(made) |-> Created(Read(made[i]).val)]
           u == insert_rows(NoFiles, FlattenSeq(first))
           v == insert_rows(u, FlattenSeq(parts))
<1>1. IsSeq(first) /\ Len(first) = 4
  <2>1. first = [i \in 1 .. 4 |-> first[i]]
    OBVIOUS
  <2> HIDE DEF first
  <2> QED BY <2>1, SeqMade
<1>2. \A i \in 1 .. 4 : CatalogTables[i] \in Catalog
  BY DEF CatalogTables, Catalog, CatalogSchema
<1>3. \A i \in 1 .. Len(first) : RecordsOK(first[i])
  BY <1>1, <1>2, CatalogRecords
<1>4. IsSeq(parts) /\ Len(parts) = Len(made)
  <2>1. parts = [i \in 1 .. Len(made) |-> parts[i]]
    OBVIOUS
  <2> HIDE DEF parts
  <2> QED BY <2>1, SeqMade, StatementsAssumption
<1>5. \A i \in 1 .. Len(parts) : RecordsOK(parts[i])
  <2> SUFFICES ASSUME NEW i \in 1 .. Len(made) PROVE RecordsOK(Created(Read(made[i]).val))
    BY <1>4
  <2> DEFINE p == Read(made[i]).val
             m == made[i].means
  <2>1. Says(p, m) /\ m.op \in Creates
    BY StatementsAssumption DEF Understood
  <2> HIDE DEF p, m
  <2>2. p.op \in Creates /\ (p.op = "create_table" => Len(p.sch) \in Nat)
    BY <2>1 DEF Says, Creates
  <2> QED BY <2>2, CreatedRecords DEF p
<1>6. DatabaseOf(made) = v
  BY Zenon DEF DatabaseOf
<1> HIDE DEF first, parts
<1>7. KeepsTables(u, NoFiles)
  BY <1>1, <1>3, FlatRecords, InsertRows, NoFilesOK
<1> HIDE DEF u
<1>8. KeepsTables(v, u)
  BY <1>4, <1>5, <1>7, FlatRecords, InsertRows DEF KeepsTables
<1> HIDE DEF v
<1>9. \A t \in Tables : Rows(v, t) = Rows(u, t) /\ Rows(u, t) = Rows(NoFiles, t)
  BY <1>7, <1>8, SameRowsAre DEF KeepsTables
<1> QED BY <1>6, <1>8, <1>9, NoFilesOK DEF KeepsTables

-----------------------------------------------------------------------------
(* Undone to before, the files have the rows they had then.                *)
LEMMA UndoneRows ==
  ASSUME WorldOK(work), NEW before, WorldOK(before), NEW lost
  PROVE  /\ WorldOK(UndoneTo(before, lost)) /\ AtLeast(UndoneTo(before, lost), work)
         /\ AtLeast(work, before) =>
              \A f \in Files : SameRows(UndoneTo(before, lost), before, f)
<1> DEFINE v == UndoneTo(before, lost)
           L(i) == {b \in DOMAIN work.idx[i].leaf : <<i, b>> \in lost}
           s(f) == [i \in DOMAIN work.files[f] |->
                      IF i \in DOMAIN before.files[f] THEN before.files[f][i] ELSE EmptySlot(f)]
<1>1. /\ DOMAIN v = {"files", "idx"} /\ DOMAIN v.files = Files /\ DOMAIN v.idx = DOMAIN Indexes
      /\ \A f \in Files : v.files[f] = s(f)
      /\ \A i \in DOMAIN Indexes : v.idx[i] = Undone(before.idx[i], work.idx[i], L(i))
  BY DEF UndoneTo, WorldOK
<1>2. \A i \in DOMAIN Indexes : IndexOK(v.idx[i]) /\ Len(v.idx[i].leaf) = Len(work.idx[i].leaf)
  <2> HIDE DEF v, L
  <2>1. \A i \in DOMAIN Indexes : IndexOK(work.idx[i])
    BY DEF WorldOK
  <2> QED BY <1>1, <2>1, UndoneGrows
<1>3. ASSUME NEW f \in Files
      PROVE  FileOK(f, s(f)) /\ Len(s(f)) = Len(work.files[f])
  <2>1. /\ FileOK(f, work.files[f]) /\ DOMAIN work.files[f] = 1 .. Len(work.files[f])
        /\ Len(work.files[f]) \in Nat
        /\ FileOK(f, before.files[f]) /\ DOMAIN before.files[f] = 1 .. Len(before.files[f])
    BY SeqIn DEF WorldOK, FileOK, IsSeq
  <2>2. SlotOK(f, EmptySlot(f))
    BY DEF SlotOK, EmptySlot
  <2>3. \A i \in 1 .. Len(work.files[f]) : SlotOK(f, s(f)[i])
    BY <2>1, <2>2 DEF FileOK
  <2> DEFINE r == s(f)
  <2>4. r = [i \in 1 .. Len(work.files[f]) |-> r[i]]
    BY <2>1
  <2> HIDE DEF r, s
  <2>5. IsSeq(r) /\ Len(r) = Len(work.files[f])
    BY <2>1, <2>4, SeqMade
  <2> QED BY <2>1, <2>3, <2>5 DEF FileOK, r
<1>4. WorldOK(v)
  <2> HIDE DEF v, s
  <2> QED BY <1>1, <1>2, <1>3 DEF WorldOK
<1>5. AtLeast(v, work)
  <2>1. \A f \in Files : Len(v.files[f]) = Len(work.files[f])
    <3> HIDE DEF v, s
    <3> QED BY <1>1, <1>3
  <2> HIDE DEF v, s
  <2> QED BY <2>1, <1>2, AtLeastSelf DEF AtLeast, WorldOK
<1>6. ASSUME AtLeast(work, before), NEW f \in Files
      PROVE  SameRows(v, before, f)
  <2>1. /\ DOMAIN work.files[f] = 1 .. Len(work.files[f]) /\ Len(work.files[f]) \in Nat
        /\ DOMAIN before.files[f] = 1 .. Len(before.files[f]) /\ Len(before.files[f]) \in Nat
    BY SeqIn DEF WorldOK, FileOK, IsSeq
  <2>2. DOMAIN before.files[f] \subseteq DOMAIN work.files[f]
    BY <1>6, <2>1 DEF AtLeast
  <2>3. ~EmptySlot(f).used
    BY DEF EmptySlot
  <2>4. v.files[f] = s(f)
    BY <1>1
  <2> HIDE DEF v
  <2>5. UsedSlots(v, f) = UsedSlots(before, f)
    BY <2>2, <2>3, <2>4 DEF UsedSlots
  <2>6. UsedSlots(before, f) \subseteq DOMAIN before.files[f]
    BY DEF UsedSlots
  <2> QED BY <2>2, <2>4, <2>5, <2>6 DEF SameRows
<1> QED BY <1>4, <1>5, <1>6

-----------------------------------------------------------------------------
(* The initial states.                                                     *)
LEMMA InitIInv == Init => IInv
<1> SUFFICES ASSUME Init PROVE IInv
  OBVIOUS
<1>1. WorldOK(disk) /\ \A t \in Tables : Rows(disk, t) = <<>>
  <2>1. CASE mIsNew = TRUE /\ disk = NoFiles
    BY <2>1, NoFilesOK
  <2>2. CASE \E made \in Databases : disk = DatabaseOf(made)
    BY <2>2, DatabaseOK
  <2> QED BY <2>1, <2>2 DEF Init
<1>2. /\ work = disk /\ trail = <<>> /\ status = "down" /\ left = <<>> /\ at = 0 /\ spoilt = "no"
      /\ expected = [t \in Tables |-> <<>>] /\ mIsNew \in BOOLEAN /\ basic \in BOOLEAN
  BY EngineAssumption DEF Init
<1>3. Worlds
  <2>1. IsSeq(<<>>) /\ Len(<<>>) = 0
    BY SeqOne
  <2> QED BY <1>1, <1>2, <2>1 DEF Worlds
<1>4. AtLeast(work, disk)
  BY <1>1, <1>2, AtLeastSelf
<1>5. Place
  BY <1>2 DEF Place, Places
<1>6. Committed /\ Progress
  BY <1>1, <1>2 DEF Committed, Progress, AsExpected
<1> QED BY <1>3, <1>4, <1>5, <1>6 DEF IInv

-----------------------------------------------------------------------------
(* What most steps do to the worlds.                                       *)
LEMMA WorldStep ==
  ASSUME Worlds, AtLeast(work, disk), WorldOK(work'), AtLeast(work', work),
         trail' = Append(trail, work), disk' = disk, expected' = expected
  PROVE  Worlds' /\ AtLeast(work, disk)' /\ trail' # <<>>
<1>1. IsSeq(trail') /\ \A i \in 1 .. Len(trail') : WorldOK(trail'[i])
  <2>1. /\ IsSeq(trail') /\ Len(trail') = Len(trail) + 1 /\ Len(trail) \in Nat
        /\ \A i \in 1 .. Len(trail) : trail'[i] = trail[i]
        /\ trail'[Len(trail) + 1] = work
    BY SeqAppend DEF Worlds, IsSeq
  <2> QED BY <2>1 DEF Worlds
<1>2. trail' # <<>>
  BY SeqAppend, SeqIn DEF Worlds, IsSeq
<1>3. AtLeast(work', disk')
  BY AtLeastTwice DEF Worlds
<1> QED BY <1>1, <1>2, <1>3 DEF Worlds

LEMMA WorldStays ==
  ASSUME Worlds, AtLeast(work, disk), UNCHANGED <<work, disk, trail, expected>>
  PROVE  Worlds' /\ AtLeast(work, disk)'
BY DEF Worlds

LEMMA CommittedStays ==
  ASSUME Committed, UNCHANGED <<disk, expected, spoilt>>
  PROVE  Committed'
BY DEF Committed

(* A file of rows, slot by slot.                                           *)
LEMMA RowsForm ==
  ASSUME NEW w, NEW t
  PROVE  /\ DOMAIN Rows(w, t) = UsedSlots(w, t) /\ UsedSlots(w, t) \subseteq DOMAIN w.files[t]
         /\ \A i \in UsedSlots(w, t) : Rows(w, t)[i] = w.files[t][i].row
         /\ Rows(w, t) = [i \in UsedSlots(w, t) |-> w.files[t][i].row]
BY DEF Rows, UsedSlots

LEMMA RowsFrom ==
  ASSUME NEW rows, rows = [i \in DOMAIN rows |-> rows[i]], DOMAIN rows \subseteq DOMAIN File,
         \A i \in DOMAIN File : IsAs(i, rows)
  PROVE  Rows(work, means.tbl) = rows
<1>1. UsedSlots(work, means.tbl) = DOMAIN rows
  BY RowsForm DEF IsAs, File
<1>2. \A i \in DOMAIN rows : work.files[means.tbl][i].row = rows[i]
  BY DEF IsAs, File
<1>3. Rows(work, means.tbl) = [i \in DOMAIN rows |-> work.files[means.tbl][i].row]
  BY <1>1, RowsForm
<1> QED BY <1>2, <1>3

LEMMA IsAsExpected ==
  ASSUME AsExpected(means.tbl)
  PROVE  /\ DOMAIN Old = UsedSlots(work, means.tbl) /\ DOMAIN Old \subseteq DOMAIN File
         /\ \A i \in DOMAIN File : IsAs(i, Old)
BY RowsForm DEF AsExpected, Old, File, IsAs

(* What a delete and an update mean.                                       *)
LEMMA MeaningOf ==
  ASSUME means.op \in {"delete", "modify"}
  PROVE  /\ means.op = "delete" => Meaning(means) = [i \in Kept |-> Old[i]]
         /\ means.op = "modify" =>
              Meaning(means) = [i \in DOMAIN Old |->
                                  IF i \in Kept THEN Old[i]
                                  ELSE [Old[i] EXCEPT ![means.fld] = means.val]]
<1>1. CASE means.op = "delete"
  BY <1>1 DEF Meaning, Kept, Old
<1>2. CASE means.op = "modify"
  BY <1>2 DEF Meaning, Kept, Old
<1> QED BY <1>1, <1>2

LEMMA MeaningStays ==
  ASSUME means.op \in {"delete", "modify"}, UNCHANGED <<means, expected>>
  PROVE  Meaning(means)' = Meaning(means) /\ Old' = Old /\ Kept' = Kept
<1>1. Old' = Old /\ Kept' = Kept
  BY DEF Old, Kept
<1>2. CASE means.op = "delete"
  <2>1. Meaning(means)' = [i \in Kept' |-> Old'[i]]
    BY <1>2 DEF Meaning, Kept, Old
  <2> QED BY <1>1, <1>2, <2>1, MeaningOf
<1>3. CASE means.op = "modify"
  <2>1. Meaning(means)' = [i \in DOMAIN Old' |->
                             IF i \in Kept' THEN Old'[i]
                             ELSE [Old'[i] EXCEPT ![means'.fld] = means'.val]]
    BY <1>3 DEF Meaning, Kept, Old
  <2> QED BY <1>1, <1>3, <2>1, MeaningOf
<1> QED BY <1>1, <1>2, <1>3

LEMMA MeaningSlots ==
  ASSUME means.op \in {"delete", "modify"}
  PROVE  /\ DOMAIN Meaning(means) \subseteq DOMAIN Old
         /\ Meaning(means) = [i \in DOMAIN Meaning(means) |-> Meaning(means)[i]]
         /\ \A i \in Kept : i \in DOMAIN Meaning(means) /\ Meaning(means)[i] = Old[i]
         /\ \A i \in DOMAIN Old \ Kept :
              /\ means.op = "delete" => i \notin DOMAIN Meaning(means)
              /\ means.op = "modify" =>
                   /\ i \in DOMAIN Meaning(means)
                   /\ Meaning(means)[i] = [Old[i] EXCEPT ![means.fld] = means.val]
<1>1. Kept \subseteq DOMAIN Old
  BY DEF Kept
<1>2. CASE means.op = "delete"
  BY <1>1, <1>2, MeaningOf
<1>3. CASE means.op = "modify"
  BY <1>1, <1>3, MeaningOf
<1> QED BY <1>2, <1>3

(* At commit, the table of an insert, a delete or an update is as it means. *)
LEMMA FinishedRows ==
  ASSUME Worlds, Place, Committed, Progress, status = "commit", spoilt = "no",
         means.op \in Changing
  PROVE  Rows(work, means.tbl) = Meaning(means)
<1>1. means.tbl \in Tables
  BY DEF Place
<1>2. CASE means.op = "insert"
  <2>1. Inserting
    BY <1>2 DEF Progress
  <2> DEFINE new == [fld \in ToSet(Schema[means.tbl]) |->
                       IF fld \in DOMAIN means.row THEN means.row[fld] ELSE File[at].row[fld]]
             rows == [i \in DOMAIN Old \cup {at} |-> IF i \in DOMAIN Old THEN Old[i] ELSE new]
  <2>2. Meaning(means) = rows
    BY <1>2 DEF Meaning, Old, File
  <2>3. File[at].row = [fld \in ToSet(Schema[means.tbl]) |-> File[at].row[fld]]
    <3>1. means.tbl \in Files /\ FieldsOf(means.tbl) = Schema[means.tbl]
      BY <1>1, EngineAssumption DEF Files, FieldsOf
    <3>2. FileOK(means.tbl, File) /\ DOMAIN File = 1 .. Len(File)
      BY <3>1, SeqIn DEF Worlds, WorldOK, FileOK, File
    <3>3. SlotOK(means.tbl, File[at])
      BY <2>1, <3>2 DEF FileOK, Inserting
    <3> QED BY <3>1, <3>3 DEF SlotOK
  <2>4. left = <<>> /\ Len(left) = 0
    BY SeqOne DEF Place
  <2>5. \A fld \in DOMAIN means.row \cap ToSet(Schema[means.tbl]) :
          File[at].row[fld] = means.row[fld]
    BY <2>1, <2>4 DEF Inserting
  <2>6. new = File[at].row
    BY <2>3, <2>5
  <2>7. /\ DOMAIN rows = DOMAIN Old \cup {at} /\ \A i \in DOMAIN Old : rows[i] = Old[i]
        /\ rows[at] = new /\ rows = [i \in DOMAIN rows |-> rows[i]]
    BY <2>1 DEF Inserting
  <2> HIDE DEF new, rows
  <2>8. \A i \in DOMAIN File : IsAs(i, rows)
    BY <2>1, <2>6, <2>7 DEF Inserting, IsAs, File
  <2>9. DOMAIN rows \subseteq DOMAIN File
    BY <2>1, <2>7 DEF Inserting
  <2> QED BY <2>2, <2>7, <2>8, <2>9, RowsFrom
<1>3. CASE means.op \in {"delete", "modify"}
  <2>1. Scanning
    BY <1>3 DEF Progress
  <2>2. \A i \in DOMAIN File : IsAs(i, Meaning(means))
    BY <2>1 DEF Scanning
  <2> QED BY <1>3, <2>1, <2>2, MeaningSlots, RowsFrom DEF Scanning
<1> QED BY <1>2, <1>3 DEF Changing

-----------------------------------------------------------------------------
(* Starting, and the end of a statement.                                   *)
LEMMA SimpledbIInv ==
  ASSUME IInv, simpledb
  PROVE  IInv'
<1>1. Worlds' /\ AtLeast(work, disk)' /\ Committed'
  BY WorldStays, CommittedStays DEF IInv, simpledb, ghosts
<1>2. Place'
  <2>1. CASE mIsNew
    <3>1. IsSeq(CatalogTables) /\ CatalogTables # <<>>
          /\ \A k \in 1 .. Len(CatalogTables) : CatalogTables[k] \in Catalog
      <4>1. CatalogTables \in Seq(Catalog) /\ CatalogTables # <<>>
        BY DEF CatalogTables, Catalog, CatalogSchema
      <4>2. IsSeq(CatalogTables)
        BY <4>1, SeqTyped
      <4> QED BY <4>1, <4>2
    <3>2. /\ status' = "making" /\ stmt' = starting /\ means' = starting
          /\ left' = CatalogTables /\ mIsNew' = FALSE
          /\ UNCHANGED <<basic, spoilt, at, trail, work, disk>>
      BY <2>1 DEF simpledb
    <3> QED BY <3>1, <3>2 DEF Place, IInv, Places
  <2>2. CASE ~mIsNew
    <3>1. /\ status' = "idle" /\ left' = left /\ mIsNew' = FALSE /\ status = "down"
          /\ UNCHANGED <<basic, spoilt, at, trail, work, disk>>
      BY <2>2 DEF simpledb
    <3> QED BY <3>1 DEF Place, IInv, Places
  <2> QED BY <2>1, <2>2
<1>3. Progress'
  BY DEF simpledb, ghosts, IInv, Progress, AsExpected
<1> QED BY <1>1, <1>2, <1>3 DEF IInv

LEMMA SimpledbThrowsIInv ==
  ASSUME IInv, simpledb_throws
  PROVE  IInv'
<1> DEFINE v == table_scan(work, "tblcat")
           w == table_scan(v, "fldcat")
<1>1. /\ work' = w /\ trail' = Append(trail, work) /\ status' = "dies"
      /\ stmt' = starting /\ means' = starting
      /\ UNCHANGED <<at, left, mIsNew, disk, basic, expected, spoilt>>
  BY DEF simpledb_throws, Changes, Goes, Unmoved, ghosts
<1>2. KeepsTables(w, work)
  <2>1. "tblcat" \in Files /\ "fldcat" \in Files /\ Tables \subseteq Files
    BY DEF Files, Catalog, CatalogSchema
  <2>2. Extends(v, work)
    BY <2>1, ScanExtends DEF IInv, Worlds
  <2> HIDE DEF v
  <2>3. Extends(w, v)
    BY <2>1, <2>2, ScanExtends DEF Extends
  <2> HIDE DEF w
  <2>4. Extends(w, work)
    BY <2>2, <2>3, ExtendsTwice DEF IInv, Worlds
  <2> QED BY <2>1, <2>4 DEF Extends, KeepsTables
<1> HIDE DEF v, w
<1>3. Worlds' /\ AtLeast(work, disk)' /\ trail' # <<>>
  BY <1>1, <1>2, WorldStep DEF IInv, KeepsTables
<1>4. Place'
  BY <1>1, <1>3, StatementsAssumption DEF IInv, Place, Places
<1>5. Progress'
  BY <1>1 DEF Progress
<1> QED BY <1>1, <1>3, <1>4, <1>5, CommittedStays DEF IInv

LEMMA MetadataIInv ==
  ASSUME IInv, metadata_manager
  PROVE  IInv'
<1> DEFINE w == insert_rows(work, make_catalog(Head(left)))
<1>1. /\ status = "making" /\ work' = w /\ trail' = Append(trail, work) /\ left' = Tail(left)
      /\ status' = IF left' = <<>> THEN "commit" ELSE "making"
      /\ UNCHANGED <<stmt, means, at, mIsNew, disk, basic, expected, spoilt>>
  BY DEF metadata_manager, Changes, Goes, Unmoved, ghosts
<1>2. /\ IsSeq(left) /\ left # <<>> /\ \A k \in 1 .. Len(left) : left[k] \in Catalog
      /\ stmt = starting /\ means = starting
  BY <1>1 DEF IInv, Place
<1>3. /\ IsSeq(Tail(left)) /\ Head(left) \in Catalog
      /\ \A k \in 1 .. Len(Tail(left)) : Tail(left)[k] \in Catalog
  BY <1>2, SeqTail
<1>4. KeepsTables(w, work)
  BY <1>3, CatalogRecords, InsertRows DEF IInv, Worlds
<1> HIDE DEF w
<1>5. Worlds' /\ AtLeast(work, disk)' /\ trail' # <<>>
  BY <1>1, <1>4, WorldStep DEF IInv, KeepsTables
<1>6. Place'
  <2>1. starting # None /\ starting.op \notin Changing
    BY StatementsAssumption DEF starting, Changing
  <2>2. CASE left' = <<>>
    BY <1>1, <1>2, <1>5, <2>1, <2>2 DEF IInv, Place, Places, Running
  <2>3. CASE left' # <<>>
    BY <1>1, <1>2, <1>3, <1>5, <2>3 DEF IInv, Place, Places
  <2> QED BY <2>2, <2>3
<1>7. \A t \in Tables : Rows(work', t) = expected'[t] \/ spoilt' # "no"
  BY <1>1, <1>4, SameRowsAre DEF IInv, Progress, AsExpected, KeepsTables
<1>8. Progress'
  <2>1. means'.op = "start"
    BY <1>1, <1>2 DEF starting
  <2> QED BY <1>1, <1>7, <2>1 DEF Progress, AsExpected
<1> QED BY <1>1, <1>5, <1>6, <1>8, CommittedStays DEF IInv

LEMMA CommitIInv ==
  ASSUME IInv, commit
  PROVE  IInv'
<1>1. /\ status = "commit" /\ disk' = work /\ work' = work /\ trail' = <<>> /\ status' = "idle"
      /\ at' = 0 /\ left' = <<>> /\ UNCHANGED <<mIsNew, basic>>
      /\ spoilt' = IF spoilt = "half undone" THEN "committed" ELSE spoilt
      /\ expected' = IF means.op \in Changing
                     THEN [expected EXCEPT ![means.tbl] = Meaning(means)] ELSE expected
  BY DEF commit, Commits, Forgotten, Changing
<1>2. Worlds'
  <2>1. IsSeq(<<>>) /\ Len(<<>>) = 0
    BY SeqOne
  <2>2. WorldOK(work) /\ DOMAIN expected' = Tables
    BY <1>1 DEF IInv, Worlds
  <2> HIDE DEF IInv
  <2>3. trail' = <<>> /\ work' = work /\ disk' = work
    BY <1>1
  <2> QED BY <2>1, <2>2, <2>3 DEF Worlds
<1>3. AtLeast(work, disk)'
  BY <1>1, AtLeastSelf DEF IInv, Worlds
<1>4. Place'
  BY <1>1 DEF IInv, Place, Places
<1>5. ASSUME spoilt' # "committed", NEW t \in Tables
      PROVE  Rows(work, t) = expected'[t]
  <2>1. spoilt = "no"
    BY <1>1, <1>5 DEF IInv, Place
  <2>2. CASE means.op \in Changing /\ t = means.tbl
    <3>1. Rows(work, means.tbl) = Meaning(means)
      BY <1>1, <2>1, <2>2, FinishedRows DEF IInv
    <3>2. expected'[t] = Meaning(means)
      BY <1>1, <2>2 DEF IInv, Worlds
    <3> QED BY <2>2, <3>1, <3>2
  <2>3. CASE ~(means.op \in Changing /\ t = means.tbl)
    <3>1. Rows(work, t) = expected[t]
      BY <1>1, <2>1, <2>3 DEF IInv, Progress, AsExpected
    <3>2. expected'[t] = expected[t]
      BY <1>1, <2>3 DEF IInv, Worlds
    <3> QED BY <3>1, <3>2
  <2> QED BY <2>2, <2>3
<1>6. Committed' /\ Progress'
  BY <1>1, <1>5 DEF Committed, Progress, AsExpected
<1> QED BY <1>2, <1>3, <1>4, <1>6 DEF IInv

-----------------------------------------------------------------------------
(* Steps that end in failure leave everything as it is.                    *)
LEMMA FailedIInv ==
  ASSUME IInv, status' = "failed",
         UNCHANGED <<mIsNew, disk, work, trail, basic, expected, spoilt, at>>
  PROVE  IInv'
<1>1. Worlds' /\ AtLeast(work, disk)' /\ Committed'
  BY WorldStays, CommittedStays DEF IInv
<1>2. Place'
  BY DEF IInv, Place, Places
<1>3. Progress'
  BY DEF Progress
<1> QED BY <1>1, <1>2, <1>3 DEF IInv

LEMMA FailsIInv ==
  ASSUME IInv, NEW why, Fails(why)
  PROVE  IInv'
BY FailedIInv DEF Fails, statement, ghosts

LEMMA UpdateIInv ==
  ASSUME IInv, NEW s \in Statements, execute_update(s)
  PROVE  IInv'
<1>1. CASE ~Read(s).ok
  <2>1. /\ status' = "failed" /\ UNCHANGED <<mIsNew, disk, work, trail, basic, expected, spoilt, at>>
    BY <1>1 DEF execute_update, Goes, ghosts
  <2> QED BY <2>1, FailedIInv
<1>2. CASE Read(s).ok
  <2>1. /\ status = "idle" /\ status' = "begin" /\ stmt' = Read(s).val /\ means' = s.means
        /\ UNCHANGED <<mIsNew, disk, work, trail, basic, expected, spoilt, at, left>>
    BY <1>2 DEF execute_update, Goes, ghosts
  <2>2. stmt' # None /\ Says(stmt', means')
    BY <1>2, <2>1, StatementsAssumption DEF Understood
  <2>3. Worlds' /\ AtLeast(work, disk)' /\ Committed'
    BY <2>1, WorldStays, CommittedStays DEF IInv
  <2>4. Place'
    BY <2>1, <2>2 DEF IInv, Place, Places, Running
  <2>5. Progress'
    BY <2>1 DEF IInv, Progress, AsExpected
  <2> QED BY <2>3, <2>4, <2>5 DEF IInv
<1> QED BY <1>1, <1>2

LEMMA CreateIInv ==
  ASSUME IInv, execute_create
  PROVE  IInv'
<1>0. status = "begin" /\ stmt.op \in Creates /\ stmt # None /\ Says(stmt, means)
  BY DEF execute_create, Begins, IInv, Place
<1>1. CASE Fails("catalog")
  BY <1>1, FailsIInv
<1>2. CASE ~Fails("catalog")
  <2> DEFINE w == insert_rows(work, Created(stmt))
  <2>1. /\ work' = w /\ trail' = Append(trail, work) /\ status' = "commit"
        /\ UNCHANGED <<stmt, means, at, left, mIsNew, disk, basic, expected, spoilt>>
    BY <1>2 DEF execute_create, Changes, Goes, Unmoved, statement, ghosts
  <2>2. means.op \notin Changing /\ (stmt.op = "create_table" => Len(stmt.sch) \in Nat)
    BY <1>0 DEF Says, Creates, Changing
  <2>3. KeepsTables(w, work)
    BY <1>0, <2>2, CreatedRecords, InsertRows DEF IInv, Worlds
  <2> HIDE DEF w
  <2>4. Worlds' /\ AtLeast(work, disk)' /\ trail' # <<>>
    BY <2>1, <2>3, WorldStep DEF IInv, KeepsTables
  <2>5. Place'
    BY <1>0, <2>1, <2>2, <2>4 DEF IInv, Place, Places, Running
  <2>6. \A t \in Tables : Rows(work', t) = expected'[t] \/ spoilt' # "no"
    BY <1>0, <2>1, <2>3, SameRowsAre DEF IInv, Progress, AsExpected, KeepsTables
  <2>7. Progress'
    BY <2>1, <2>2, <2>6 DEF Progress, AsExpected, Changing
  <2> QED BY <2>1, <2>4, <2>5, <2>7, CommittedStays DEF IInv
<1> QED BY <1>1, <1>2

-----------------------------------------------------------------------------
(* The undoing of a transaction.                                           *)
Restarted(to) ==
  /\ status' = to /\ disk' = work' /\ trail' = <<>> /\ at' = 0 /\ left' = <<>>
  /\ spoilt' = IF spoilt = "committed" THEN spoilt ELSE "no"
  /\ UNCHANGED <<mIsNew, basic, expected>>

LEMMA RestartIInv ==
  ASSUME IInv, NEW to \in {"idle", "down"}, Restarted(to), NEW lost, work' = UndoneTo(disk, lost)
  PROVE  IInv'
<1>1. /\ WorldOK(work') /\ \A f \in Files : SameRows(work', disk, f)
  BY UndoneRows DEF IInv, Worlds
<1>2. Worlds' /\ AtLeast(work, disk)'
  <2>1. IsSeq(<<>>) /\ Len(<<>>) = 0
    BY SeqOne
  <2>2. trail' = <<>> /\ disk' = work' /\ DOMAIN expected' = Tables
    BY DEF Restarted, IInv, Worlds
  <2> QED BY <1>1, <2>1, <2>2, AtLeastSelf DEF Worlds
<1>3. Place'
  BY DEF Restarted, IInv, Place, Places
<1>4. ASSUME spoilt' # "committed", NEW t \in Tables
      PROVE  Rows(work', t) = expected'[t]
  <2>1. Rows(disk, t) = expected[t]
    BY <1>4 DEF Restarted, IInv, Committed
  <2>2. Rows(work', t) = Rows(disk, t)
    BY <1>1, SameRowsAre DEF Files
  <2> QED BY <2>1, <2>2 DEF Restarted
<1>5. Committed' /\ Progress'
  BY <1>4 DEF Restarted, Committed, Progress, AsExpected
<1> QED BY <1>2, <1>3, <1>5 DEF IInv

LEMMA RollbackIInv ==
  ASSUME IInv, rollback
  PROVE  IInv'
<1>1. Restarted("idle") /\ work' = UndoneTo(disk, {})
  BY DEF rollback, Restarted, Forgotten, ghosts
<1> QED BY <1>1, RestartIInv

LEMMA CrashIInv ==
  ASSUME IInv, crash
  PROVE  IInv'
<1>1. Restarted("down")
  BY DEF crash, Restarted, Forgotten, ghosts
<1>2. \E lost \in SUBSET NewLeaves : work' = UndoneTo(disk, lost)
  BY DEF crash
<1> QED BY <1>1, <1>2, RestartIInv

LEMMA RollbackThrowsIInv ==
  ASSUME IInv, rollback_throws
  PROVE  IInv'
<1>1. /\ status' = "idle" /\ at' = 0 /\ left' = <<>> /\ trail # <<>> /\ trail' = trail
      /\ spoilt' = IF spoilt = "committed" THEN spoilt ELSE "half undone"
      /\ UNCHANGED <<mIsNew, disk, basic, expected>>
  BY DEF rollback_throws, Forgotten, ghosts
<1>2. WorldOK(work') /\ AtLeast(work', work)
  <2>1. CASE UNCHANGED work
    BY <2>1, AtLeastSelf DEF IInv, Worlds
  <2>2. CASE \E i \in 2 .. Len(trail) : work' = UndoneTo(trail[i], {})
    <3>1. PICK i \in 2 .. Len(trail) : work' = UndoneTo(trail[i], {})
      BY <2>2
    <3>2. WorldOK(trail[i])
      BY <3>1 DEF IInv, Worlds, IsSeq
    <3> QED BY <3>1, <3>2, UndoneRows DEF IInv, Worlds
  <2> QED BY <2>1, <2>2 DEF rollback_throws
<1>3. AtLeast(work', disk)
  BY <1>2, AtLeastTwice DEF IInv, Worlds
<1>4. Worlds' /\ AtLeast(work, disk)'
  BY <1>1, <1>2, <1>3 DEF IInv, Worlds
<1>5. Place'
  BY <1>1 DEF IInv, Place, Places
<1>6. Committed' /\ Progress'
  BY <1>1 DEF IInv, Committed, Progress
<1> QED BY <1>4, <1>5, <1>6 DEF IInv

LEMMA ThrowIInv ==
  ASSUME IInv, throw
  PROVE  IInv'
BY FailedIInv DEF throw, statement, ghosts

LEMMA StutterIInv ==
  ASSUME IInv, UNCHANGED vars
  PROVE  IInv'
<1>1. UNCHANGED <<mIsNew, disk, work, trail, basic, status, stmt, means, at, left, expected, spoilt>>
  BY DEF vars, statement, ghosts
<1>2. Worlds' /\ AtLeast(work, disk)' /\ Committed'
  BY <1>1, WorldStays, CommittedStays DEF IInv
<1>3. Place'
  BY <1>1 DEF IInv, Place, File
<1>4. Inserting' = Inserting /\ Scanning' = Scanning
  BY <1>1 DEF Inserting, Scanning, IsAs, Old, File, Kept, Deleting, Modifying, Meaning
<1>5. Progress'
  BY <1>1, <1>4 DEF IInv, Progress, AsExpected
<1> QED BY <1>2, <1>3, <1>5 DEF IInv

-----------------------------------------------------------------------------
(* Insert.                                                                 *)
LEMMA InsertIInv ==
  ASSUME IInv, execute_insert
  PROVE  IInv'
<1>0. status = "begin" /\ stmt.op = "insert" /\ stmt # None /\ Says(stmt, means) /\ left = <<>>
  BY DEF execute_insert, Begins, IInv, Place
<1>1. CASE Fails("table")
  BY <1>1, FailsIInv
<1>2. CASE ~Fails("table")
  <2> DEFINE t == means.tbl
             u == table_scan(work, t)
             w == insert_after(u, t, 0)
             i == FreeSlot(u, t, 0)
  <2>1. stmt.tbl = t /\ t \in Tables /\ means.op = "insert"
    BY <1>0 DEF Says
  <2>2. /\ work' = w /\ trail' = Append(trail, work) /\ at' = i /\ status' = "indexes"
        /\ UNCHANGED <<stmt, means, left, mIsNew, disk, basic, expected, spoilt>>
    BY <1>2, <2>1 DEF execute_insert, Changes, Goes, Unmoved, ghosts
  <2>3. t \in Files
    BY <2>1 DEF Files
  <2>4. Inserts(w, work, t, i)
    BY <2>3, ScanInserts DEF IInv, Worlds
  <2> HIDE DEF w, i
  <2>5. Worlds' /\ AtLeast(work, disk)' /\ trail' # <<>>
    BY <2>2, <2>4, WorldStep DEF IInv, Inserts
  <2>6. at' \in Nat /\ at' \in DOMAIN File'
    <3>1. at' \in DOMAIN work'.files[t] /\ File' = work'.files[t]
      BY <2>2, <2>4 DEF Inserts, File
    <3>2. DOMAIN work'.files[t] = 1 .. Len(work'.files[t])
      BY <2>3, <2>5, SeqIn DEF Worlds, WorldOK, FileOK
    <3> QED BY <3>1, <3>2
  <2>7. Place'
    <3> HIDE DEF t
    <3> QED BY <1>0, <2>2, <2>5, <2>6 DEF IInv, Place, Places, Running
  <2>8. ASSUME spoilt' = "no", NEW g \in Tables, g # t
        PROVE  Rows(work', g) = expected'[g]
    <3>1. Rows(work, g) = expected[g]
      BY <1>0, <2>2, <2>8 DEF IInv, Progress, AsExpected
    <3>2. SameRows(w, work, g)
      BY <2>4, <2>8 DEF Inserts, Files
    <3> QED BY <2>2, <3>1, <3>2, SameRowsAre
  <2>9. ASSUME spoilt' = "no"
        PROVE  Inserting'
    <3>1. AsExpected(t)
      BY <1>0, <2>1, <2>2, <2>9 DEF IInv, Progress
    <3>2. DOMAIN Old = UsedSlots(work, t) /\ \A j \in DOMAIN Old : Old[j] = work.files[t][j].row
      BY <3>1, RowsForm DEF AsExpected, Old
    <3>3. Old' = Old /\ File' = w.files[t] /\ means'.tbl = t
      BY <2>2 DEF Old, File
    <3>4. /\ i \in DOMAIN w.files[t] \ DOMAIN Old /\ UsedSlots(w, t) = DOMAIN Old \cup {i}
          /\ \A j \in DOMAIN Old : w.files[t][j].row = Old[j]
      BY <2>4, <3>2 DEF Inserts
    <3>5. DOMAIN Old \subseteq DOMAIN w.files[t]
      BY <3>4, RowsForm
    <3>6. \A j \in DOMAIN File' : j # at' => IsAs(j, Old)'
      BY <2>2, <3>3, <3>4 DEF IsAs
    <3> HIDE DEF t
    <3> QED BY <2>2, <3>3, <3>4, <3>5, <3>6 DEF Inserting
  <2>10. Progress'
    <3> HIDE DEF t
    <3> QED BY <2>1, <2>2, <2>8, <2>9 DEF Progress, AsExpected, Changing, t
  <2> QED BY <2>2, <2>5, <2>7, <2>10, CommittedStays DEF IInv
<1> QED BY <1>1, <1>2

(* The steps of an insert: every field of the row is set to its value.     *)
LEMMA InsertStepsAre ==
  ASSUME Says(stmt, means), means.op = "insert"
  PROVE  /\ IsSeq(InsertSteps) /\ InsertSteps # <<>>
         /\ \A k \in 1 .. Len(InsertSteps) :
              \/ InsertSteps[k].do = "enter"
              \/ /\ InsertSteps[k].fld \in DOMAIN means.row
                 /\ InsertSteps[k] = Set(InsertSteps[k].fld, means.row[InsertSteps[k].fld])
         /\ \A fld \in DOMAIN means.row :
              \E k \in 1 .. Len(InsertSteps) : InsertSteps[k] = Set(fld, means.row[fld])
<1> DEFINE n == Len(stmt.fields)
           Put(i) == PutIn(stmt.fields[i], stmt.vals[i].of)
           SetIt(i) == Set(stmt.fields[i], stmt.vals[i].of)
           part(i) == <<SetIt(i)>> \o Put(i)
           parts == [i \in 1 .. n |-> part(i)]
           X == {x \in UNION {{part(i)[k] : k \in 1 .. Len(part(i))} : i \in 1 .. n} : TRUE}
<1>1. /\ DOMAIN stmt.fields = 1 .. n /\ n \in Nat \ {0}
      /\ {stmt.fields[i] : i \in 1 .. n} = DOMAIN means.row
      /\ \A i \in 1 .. n : stmt.vals[i].of = means.row[stmt.fields[i]]
  BY DEF Says, ToSet
<1>2. InsertSteps = FlattenSeq(parts)
  BY <1>1, Zenon DEF InsertSteps
<1>3. ASSUME NEW i \in 1 .. n
      PROVE  /\ IsSeq(part(i)) /\ Len(part(i)) \in Nat \ {0} /\ part(i)[1] = SetIt(i)
             /\ \A k \in 1 .. Len(part(i)) : part(i)[k] = SetIt(i) \/ part(i)[k].do = "enter"
  <2> DEFINE s == <<SetIt(i)>>
             e == [do |-> "enter", fld |-> stmt.fields[i], key |-> stmt.vals[i].of]
  <2>1. IsSeq(s) /\ Len(s) = 1 /\ s[1] = SetIt(i) /\ IsSeq(<<>>) /\ Len(<<>>) = 0
        /\ IsSeq(<<e>>) /\ Len(<<e>>) = 1 /\ <<e>>[1] = e
    BY SeqOne
  <2>2. Put(i) = <<e>> \/ Put(i) = <<>>
    BY DEF PutIn
  <2>3. e.do = "enter"
    OBVIOUS
  <2>4. IsSeq(Put(i)) /\ \A k \in 1 .. Len(Put(i)) : Put(i)[k].do = "enter"
    <3> HIDE DEF e, s
    <3> QED BY <2>1, <2>2, <2>3
  <2>5. part(i) = s \o Put(i)
    OBVIOUS
  <2> DEFINE p == Put(i)
  <2> HIDE DEF s, Put, SetIt, part, p
  <2>6. /\ IsSeq(s \o p) /\ Len(s \o p) = Len(s) + Len(p)
        /\ \A k \in 1 .. Len(s) : (s \o p)[k] = s[k]
        /\ \A k \in 1 .. Len(s \o p) :
             k \in 1 .. Len(s) \/ (k - Len(s) \in 1 .. Len(p) /\ (s \o p)[k] = p[k - Len(s)])
    <3>1. IsSeq(s) /\ IsSeq(p)
      BY <2>1, <2>4 DEF p
    <3> QED BY <3>1, SeqConcat
  <2>7. p = Put(i) /\ Len(p) \in Nat
    BY <2>4 DEF IsSeq, p
  <2> QED BY <2>1, <2>4, <2>5, <2>6, <2>7
<1> HIDE DEF part
<1>4. \A i \in 1 .. n : parts[i] = part(i)
  OBVIOUS
<1>5. parts \in Seq(Seq(X))
  <2>1. ASSUME NEW i \in 1 .. n PROVE part(i) \in Seq(X)
    <3>1. part(i) = [k \in 1 .. Len(part(i)) |-> part(i)[k]] /\ Len(part(i)) \in Nat
      BY <1>3 DEF IsSeq
    <3>2. \A k \in 1 .. Len(part(i)) : part(i)[k] \in X
      OBVIOUS
    <3> HIDE DEF X
    <3>3. part(i) \in [1 .. Len(part(i)) -> X]
      BY <3>1, <3>2
    <3> QED BY <3>1, <3>3
  <2> HIDE DEF X
  <2>2. parts \in [1 .. n -> Seq(X)]
    BY <2>1
  <2> HIDE DEF parts
  <2> QED BY <1>1, <2>2
<1>6. Len(parts) = n
  BY <1>1, <1>5
<1>7. \A x \in X : x.do = "enter" \/ \E i \in 1 .. n : x = SetIt(i)
  <2> HIDE DEF SetIt
  <2> QED BY <1>3
<1> HIDE DEF X, parts
<1>8. InsertSteps \in Seq(X)
  BY <1>2, <1>5, FlattenType
<1>9. IsSeq(InsertSteps)
  BY <1>8, SeqTyped
<1>10. ASSUME NEW i \in 1 .. n
       PROVE  \E k \in 1 .. Len(InsertSteps) : InsertSteps[k] = SetIt(i)
  <2>1. i \in 1 .. Len(parts) /\ 1 \in 1 .. Len(parts[i]) /\ parts[i][1] = SetIt(i)
    BY <1>3, <1>4, <1>6
  <2> HIDE DEF SetIt
  <2> QED BY <1>2, <1>5, <2>1, FlattenHas
<1>11. InsertSteps # <<>>
  <2>1. 1 \in 1 .. n
    BY <1>1
  <2>2. 1 .. Len(InsertSteps) # {}
    BY <1>10, <2>1
  <2> QED BY <1>9, <2>2, SeqIn
<1>12. \A i \in 1 .. n : /\ stmt.fields[i] \in DOMAIN means.row
                         /\ SetIt(i) = Set(stmt.fields[i], means.row[stmt.fields[i]])
                         /\ SetIt(i).fld = stmt.fields[i]
  BY <1>1 DEF Set
<1> HIDE DEF SetIt
<1>13. ASSUME NEW k \in 1 .. Len(InsertSteps)
       PROVE  \/ InsertSteps[k].do = "enter"
              \/ /\ InsertSteps[k].fld \in DOMAIN means.row
                 /\ InsertSteps[k] = Set(InsertSteps[k].fld, means.row[InsertSteps[k].fld])
  BY <1>7, <1>8, <1>12
<1>14. ASSUME NEW fld \in DOMAIN means.row
       PROVE  \E k \in 1 .. Len(InsertSteps) : InsertSteps[k] = Set(fld, means.row[fld])
  <2>1. PICK i \in 1 .. n : stmt.fields[i] = fld
    BY <1>1
  <2> QED BY <1>10, <1>12, <2>1
<1> QED BY <1>9, <1>11, <1>13, <1>14

LEMMA InsertIndexesIInv ==
  ASSUME IInv, insert_indexes
  PROVE  IInv'
<1>0. status = "indexes" /\ stmt.op = "insert" /\ stmt # None /\ Says(stmt, means)
  BY DEF insert_indexes, IInv, Place
<1>1. CASE Fails("catalog")
  BY <1>1, FailsIInv
<1>2. CASE ~Fails("catalog")
  <2>1. means.op = "insert" /\ means.tbl \in Tables
    BY <1>0 DEF Says
  <2>2. /\ left' = InsertSteps /\ status' = "row"
        /\ UNCHANGED <<work, trail, stmt, means, at, mIsNew, disk, basic, expected, spoilt>>
    BY <1>2 DEF insert_indexes, Goes, Unmoved, ghosts
  <2>3. /\ IsSeq(left') /\ left' # <<>>
        /\ \A k \in 1 .. Len(left') :
             \/ left'[k].do = "enter"
             \/ /\ left'[k].fld \in DOMAIN means.row
                /\ left'[k] = Set(left'[k].fld, means.row[left'[k].fld])
        /\ \A fld \in DOMAIN means.row :
             \E k \in 1 .. Len(left') : left'[k] = Set(fld, means.row[fld])
    BY <1>0, <2>1, <2>2, InsertStepsAre
  <2>4. Worlds' /\ AtLeast(work, disk)' /\ Committed'
    BY <2>2, WorldStays, CommittedStays DEF IInv
  <2>5. Place'
    BY <1>0, <2>2, <2>3 DEF IInv, Place, Places, Running, Changing, File
  <2>6. ASSUME spoilt = "no" PROVE Inserting'
    <3>1. Inserting
      BY <1>0, <2>1, <2>6 DEF IInv, Progress
    <3> QED BY <2>2, <2>3, <3>1 DEF Inserting, IsAs, Old, File
  <2>7. Progress'
    BY <1>0, <2>1, <2>2, <2>6 DEF IInv, Progress, AsExpected
  <2> QED BY <2>4, <2>5, <2>7 DEF IInv
<1> QED BY <1>1, <1>2

-----------------------------------------------------------------------------
(* Delete and update.                                                      *)
LEMMA OpenIndexOK ==
  ASSUME NEW w, WorldOK(w), NEW i
  PROVE  LET v == open_index(w, i)
         IN WorldOK(v) /\ AtLeast(v, w) /\ v.files = w.files
<1> DEFINE ix == open(w.idx[i])
<1>1. open_index(w, i) = PutIndex(w, i, ix)
  BY DEF open_index, PutIndex
<1>2. i \in DOMAIN Indexes => IndexGrown(ix, w.idx[i])
  BY OpenGrows DEF WorldOK
<1> HIDE DEF ix
<1> QED BY <1>1, <1>2, WithIndex

LEMMA DeleteOrModifyIInv ==
  ASSUME IInv, execute_delete_or_modify
  PROVE  IInv'
<1>0. /\ status = "begin" /\ stmt.op \in {"delete", "modify"} /\ stmt # None
      /\ Says(stmt, means) /\ left = <<>>
  BY DEF execute_delete_or_modify, Begins, IInv, Place
<1>1. CASE Fails("table") \/ Fails("catalog")
  BY <1>1, FailsIInv
<1>2. CASE ~(Fails("table") \/ Fails("catalog"))
  <2> DEFINE t == means.tbl
             u == table_scan(work, t)
             w == IF stmt.op = "modify" /\ stmt.fld \in DOMAIN indexes'
                  THEN open_index(u, indexes'[stmt.fld]) ELSE u
  <2>1. stmt.tbl = t /\ t \in Tables /\ t \in Files /\ means.op \in {"delete", "modify"}
    BY <1>0 DEF Says, Files
  <2>2. /\ work' = w /\ trail' = Append(trail, work) /\ at' = 0 /\ status' = "next"
        /\ UNCHANGED <<stmt, means, left, mIsNew, disk, basic, expected, spoilt>>
    BY <1>2, <2>1 DEF execute_delete_or_modify, Changes, Goes, Unmoved, ghosts
  <2>3. Extends(u, work)
    BY <2>1, ScanExtends DEF IInv, Worlds
  <2> HIDE DEF u
  <2>4. WorldOK(w) /\ AtLeast(w, u) /\ w.files = u.files
    BY <2>3, OpenIndexOK, AtLeastSelf DEF Extends
  <2> HIDE DEF w
  <2>5. AtLeast(w, work)
    BY <2>3, <2>4, AtLeastTwice DEF IInv, Worlds, Extends
  <2>6. Worlds' /\ AtLeast(work, disk)' /\ trail' # <<>>
    BY <2>2, <2>4, <2>5, WorldStep DEF IInv
  <2>7. Place'
    <3> HIDE DEF t
    <3> QED BY <1>0, <2>2, <2>6 DEF IInv, Place, Places, Running
  <2>8. ASSUME spoilt' = "no", NEW g \in Tables
        PROVE  Rows(work', g) = expected'[g]
    <3>1. Rows(work, g) = expected[g]
      BY <1>0, <2>2, <2>8 DEF IInv, Progress, AsExpected
    <3>2. SameRows(w, work, g)
      BY <2>3, <2>4, <2>8 DEF Extends, Files, SameRows, UsedSlots
    <3> QED BY <2>2, <3>1, <3>2, SameRowsAre
  <2>9. ASSUME spoilt' = "no"
        PROVE  Scanning'
    <3>1. Rows(work', t) = Old
      BY <2>1, <2>2, <2>8, <2>9 DEF Old
    <3>2. Old' = Old /\ File' = work'.files[t] /\ means'.tbl = t
      BY <2>2 DEF Old, File
    <3>3. DOMAIN Old = UsedSlots(work', t) /\ DOMAIN Old \subseteq DOMAIN File'
          /\ \A j \in DOMAIN Old : work'.files[t][j].row = Old[j]
      BY <3>1, <3>2, RowsForm
    <3>4. \A j \in DOMAIN File' : IsAs(j, Old)'
      BY <3>2, <3>3 DEF IsAs
    <3>5. DOMAIN File' = 1 .. Len(File') /\ Len(File') \in Nat
      BY <2>1, <2>6, <3>2, SeqIn DEF Worlds, WorldOK, FileOK, IsSeq
    <3>6. \A j \in DOMAIN File' : ~(j <= at')
      BY <2>2, <3>5
    <3> HIDE DEF t
    <3> QED BY <2>2, <3>2, <3>3, <3>4, <3>5, <3>6 DEF Scanning
  <2>10. Progress'
    <3> HIDE DEF t
    <3> QED BY <2>1, <2>2, <2>8, <2>9 DEF Progress, AsExpected
  <2> QED BY <2>2, <2>6, <2>7, <2>10, CommittedStays DEF IInv
<1> QED BY <1>1, <1>2

(* The steps at a row: those of a delete end with its slot, those of an    *)
(* update begin with the field.                                            *)
LEMMA Removals ==
  ASSUME NEW fld, NEW key
  PROVE  /\ IsSeq(TakeOut(fld, key)) /\ IsSeq(PutIn(fld, key))
         /\ \A k \in 1 .. Len(TakeOut(fld, key)) : TakeOut(fld, key)[k].do = "remove"
         /\ \A k \in 1 .. Len(PutIn(fld, key)) : PutIn(fld, key)[k].do = "enter"
<1> DEFINE r == [do |-> "remove", fld |-> fld, key |-> key]
           e == [do |-> "enter", fld |-> fld, key |-> key]
<1>1. IsSeq(<<r>>) /\ Len(<<r>>) = 1 /\ <<r>>[1] = r /\ IsSeq(<<>>) /\ Len(<<>>) = 0
      /\ IsSeq(<<e>>) /\ Len(<<e>>) = 1 /\ <<e>>[1] = e
  BY SeqOne
<1>2. r.do = "remove" /\ e.do = "enter"
  OBVIOUS
<1>3. TakeOut(fld, key) = <<r>> \/ TakeOut(fld, key) = <<>>
  BY DEF TakeOut
<1>4. PutIn(fld, key) = <<e>> \/ PutIn(fld, key) = <<>>
  BY DEF PutIn
<1> HIDE DEF r, e
<1>5. IsSeq(TakeOut(fld, key)) /\ \A k \in 1 .. Len(TakeOut(fld, key)) : TakeOut(fld, key)[k].do = "remove"
  BY <1>1, <1>2, <1>3
<1>6. IsSeq(PutIn(fld, key)) /\ \A k \in 1 .. Len(PutIn(fld, key)) : PutIn(fld, key)[k].do = "enter"
  BY <1>1, <1>2, <1>4
<1> QED BY <1>5, <1>6

LEMMA DeleteSteps ==
  ASSUME NEW row, stmt.op = "delete", Len(Schema[stmt.tbl]) \in Nat
  PROVE  LET s == RowSteps(row)
         IN /\ IsSeq(s) /\ s # <<>> /\ s[Len(s)] = DeleteRow
            /\ \A k \in 1 .. Len(s) - 1 : s[k].do = "remove"
<1> DEFINE n == Len(Schema[stmt.tbl])
           part(i) == TakeOut(Schema[stmt.tbl][i], row[Schema[stmt.tbl][i]])
           parts == [i \in 1 .. n |-> part(i)]
           all == FlattenSeq(parts)
           X == UNION {{part(i)[k] : k \in 1 .. Len(part(i))} : i \in 1 .. n}
<1>1. RowSteps(row) = all \o <<DeleteRow>>
  BY Zenon DEF RowSteps
<1>2. ASSUME NEW i \in 1 .. n
      PROVE  IsSeq(part(i)) /\ \A k \in 1 .. Len(part(i)) : part(i)[k].do = "remove"
  BY Removals
<1> HIDE DEF part
<1>3. parts \in Seq(Seq(X))
  <2>1. ASSUME NEW i \in 1 .. n PROVE part(i) \in Seq(X)
    <3>1. part(i) = [k \in 1 .. Len(part(i)) |-> part(i)[k]] /\ Len(part(i)) \in Nat
      BY <1>2 DEF IsSeq
    <3>2. \A k \in 1 .. Len(part(i)) : part(i)[k] \in X
      OBVIOUS
    <3> HIDE DEF X
    <3>3. part(i) \in [1 .. Len(part(i)) -> X]
      BY <3>1, <3>2
    <3> QED BY <3>1, <3>3
  <2> HIDE DEF X
  <2>2. parts \in [1 .. n -> Seq(X)]
    BY <2>1
  <2> HIDE DEF parts
  <2> QED BY <2>2
<1>4. \A x \in X : x.do = "remove"
  BY <1>2
<1> HIDE DEF X, parts
<1>5. all \in Seq(X)
  BY <1>3, FlattenType
<1>6. IsSeq(all)
  BY <1>5, SeqTyped
<1>7. IsSeq(<<DeleteRow>>) /\ Len(<<DeleteRow>>) = 1 /\ <<DeleteRow>>[1] = DeleteRow
  BY SeqOne
<1> DEFINE d == <<DeleteRow>>
<1> HIDE DEF all, d
<1>8. /\ IsSeq(all \o d) /\ Len(all \o d) = Len(all) + Len(d)
      /\ \A i \in 1 .. Len(all) : (all \o d)[i] = all[i]
      /\ \A i \in 1 .. Len(d) : (all \o d)[Len(all) + i] = d[i]
  <2>1. IsSeq(d)
    BY <1>7 DEF d
  <2> QED BY <1>6, <2>1, SeqConcat
<1>9. Len(all) \in Nat /\ Len(d) = 1 /\ d[1] = DeleteRow
  BY <1>6, <1>7 DEF IsSeq, d
<1>10. Len(all \o d) = Len(all) + 1 /\ (all \o d)[Len(all) + 1] = DeleteRow
  BY <1>8, <1>9
<1>11. all \o d # <<>>
  BY <1>8, <1>9, <1>10, SeqIn
<1>12. \A k \in 1 .. Len(all \o d) - 1 : (all \o d)[k].do = "remove"
  BY <1>4, <1>5, <1>8, <1>9, <1>10
<1>13. RowSteps(row) = all \o d
  BY <1>1 DEF d
<1> QED BY <1>8, <1>10, <1>11, <1>12, <1>13

LEMMA ModifySteps ==
  ASSUME NEW row, stmt.op = "modify", Says(stmt, means)
  PROVE  LET s == RowSteps(row)
         IN /\ IsSeq(s) /\ s # <<>> /\ s[1] = Set(means.fld, means.val)
            /\ \A k \in 2 .. Len(s) : s[k].do \in {"remove", "enter"}
<1>1. stmt.fld = means.fld /\ evaluate(stmt.val, row) = means.val
  BY DEF Says, evaluate
<1> DEFINE a == <<Set(means.fld, means.val)>>
           b == TakeOut(means.fld, row[means.fld])
           c == PutIn(means.fld, means.val)
<1>2. RowSteps(row) = (a \o b) \o c
  BY <1>1 DEF RowSteps
<1>3. IsSeq(a) /\ Len(a) = 1 /\ a[1] = Set(means.fld, means.val)
  BY SeqOne
<1>4. /\ IsSeq(b) /\ \A k \in 1 .. Len(b) : b[k].do = "remove"
      /\ IsSeq(c) /\ \A k \in 1 .. Len(c) : c[k].do = "enter"
  BY Removals
<1> HIDE DEF a, b, c
<1>0. IsSeq(a) /\ IsSeq(b) /\ IsSeq(c)
  BY <1>3, <1>4
<1> DEFINE ab == a \o b
<1>5. /\ IsSeq(ab) /\ Len(ab) = Len(a) + Len(b)
      /\ \A k \in 1 .. Len(a) : ab[k] = a[k]
      /\ \A k \in 1 .. Len(ab) :
           k \in 1 .. Len(a) \/ (k - Len(a) \in 1 .. Len(b) /\ ab[k] = b[k - Len(a)])
  BY <1>0, SeqConcat
<1> HIDE DEF ab
<1>6. /\ IsSeq(ab \o c) /\ Len(ab \o c) = Len(ab) + Len(c)
      /\ \A k \in 1 .. Len(ab) : (ab \o c)[k] = ab[k]
      /\ \A k \in 1 .. Len(ab \o c) :
           k \in 1 .. Len(ab) \/ (k - Len(ab) \in 1 .. Len(c) /\ (ab \o c)[k] = c[k - Len(ab)])
  <2>1. IsSeq(ab) /\ IsSeq(c)
    BY <1>0, <1>5
  <2> QED BY <2>1, SeqConcat
<1>7. Len(b) \in Nat /\ Len(c) \in Nat
  BY <1>4 DEF IsSeq
<1>8. (ab \o c)[1] = Set(means.fld, means.val) /\ Len(ab \o c) # 0
  BY <1>3, <1>5, <1>6, <1>7
<1>9. ASSUME NEW k \in 2 .. Len(ab \o c)
      PROVE  (ab \o c)[k].do \in {"remove", "enter"}
  <2>1. CASE k \in 1 .. Len(ab)
    BY <1>3, <1>4, <1>5, <1>6, <1>9, <2>1
  <2>2. CASE k \notin 1 .. Len(ab)
    BY <1>4, <1>6, <1>9, <2>2
  <2> QED BY <2>1, <2>2
<1>10. ab \o c # <<>>
  BY <1>6, <1>8, SeqIn
<1>11. RowSteps(row) = ab \o c
  BY <1>2 DEF ab
<1> QED BY <1>6, <1>8, <1>9, <1>10, <1>11

(* The rows a scan stops at are those the statement is about.              *)
LEMMA Satisfied ==
  ASSUME Says(stmt, means), means.op \in {"delete", "modify"}, NEW row
  PROVE  is_satisfied(stmt.pred, row) <=> \A fld \in DOMAIN means.pred : row[fld] = means.pred[fld]
<1> DEFINE terms == stmt.pred
<1>1. /\ \A i \in DOMAIN terms : terms[i].lhs.kind = "field" /\ terms[i].rhs.kind # "field"
      /\ {<<terms[i].lhs.of, terms[i].rhs.of>> : i \in DOMAIN terms} =
           {<<f, means.pred[f]>> : f \in DOMAIN means.pred}
  BY DEF Says, Requires
<1>2. is_satisfied(terms, row) <=> \A i \in DOMAIN terms : row[terms[i].lhs.of] = terms[i].rhs.of
  BY <1>1 DEF is_satisfied, evaluate
<1>3. ASSUME NEW f \in DOMAIN means.pred
      PROVE  \E i \in DOMAIN terms : terms[i].lhs.of = f /\ terms[i].rhs.of = means.pred[f]
  <2>1. <<f, means.pred[f]>> \in {<<terms[i].lhs.of, terms[i].rhs.of>> : i \in DOMAIN terms}
    BY <1>1
  <2> QED BY <2>1
<1>4. ASSUME NEW i \in DOMAIN terms
      PROVE  terms[i].lhs.of \in DOMAIN means.pred /\ means.pred[terms[i].lhs.of] = terms[i].rhs.of
  <2>1. <<terms[i].lhs.of, terms[i].rhs.of>> \in {<<f, means.pred[f]>> : f \in DOMAIN means.pred}
    BY <1>1
  <2> QED BY <2>1
<1> QED BY <1>2, <1>3, <1>4

LEMMA MatchesMeans ==
  ASSUME Says(stmt, means), means.op \in {"delete", "modify"}, Scanning, status = "next",
         NEW i \in DOMAIN File, ~(i <= at)
  PROVE  /\ Matches(i) => i \in DOMAIN Old \ Kept /\ i \in UsedSlots(work, means.tbl)
                          /\ File[i].row = Old[i]
         /\ ~Matches(i) => IsAs(i, Meaning(means))
<1>1. IsAs(i, Old)
  BY DEF Scanning
<1>2. stmt.tbl = means.tbl
  BY DEF Says
<1>3. Matches(i) <=> i \in UsedSlots(work, means.tbl) /\ is_satisfied(stmt.pred, File[i].row)
  BY <1>2 DEF Matches, File
<1>4. Matches(i) <=> /\ i \in UsedSlots(work, means.tbl)
                     /\ \A fld \in DOMAIN means.pred : File[i].row[fld] = means.pred[fld]
  BY <1>3, Satisfied
<1>5. Matches(i) <=> i \in DOMAIN Old \ Kept
  BY <1>1, <1>4 DEF IsAs, Kept, File
<1>6. Matches(i) => i \in UsedSlots(work, means.tbl) /\ File[i].row = Old[i]
  BY <1>1, <1>5 DEF IsAs, File
<1>7. ~Matches(i) => IsAs(i, Meaning(means))
  <2>1. CASE i \notin DOMAIN Old
    BY <1>1, <2>1, MeaningSlots DEF IsAs
  <2>2. CASE i \in Kept
    <3>1. i \in DOMAIN Old /\ i \in DOMAIN Meaning(means) /\ Meaning(means)[i] = Old[i]
      BY <2>2, MeaningSlots DEF Kept
    <3> QED BY <1>1, <3>1 DEF IsAs
  <2> QED BY <1>5, <2>1, <2>2
<1> QED BY <1>5, <1>6, <1>7

LEMMA NextRowIInv ==
  ASSUME IInv, next_row
  PROVE  IInv'
<1> DEFINE t == means.tbl
           After == {i \in at + 1 .. Len(work.files[stmt.tbl]) : Matches(i)}
<1>0. /\ status = "next" /\ stmt.op \in {"delete", "modify"} /\ stmt # None
      /\ Says(stmt, means) /\ left = <<>> /\ at \in Nat /\ NextRow(After)
  BY DEF next_row, NextRow, IInv, Place
<1>1. stmt.tbl = t /\ t \in Tables /\ t \in Files /\ means.op \in {"delete", "modify"}
      /\ means.op = stmt.op
  BY <1>0 DEF Says, Files
<1>2. DOMAIN File = 1 .. Len(File) /\ Len(File) \in Nat /\ File = work.files[stmt.tbl]
  BY <1>1, SeqIn DEF IInv, Worlds, WorldOK, FileOK, IsSeq, File
<1>3. /\ After \subseteq Nat /\ After \subseteq DOMAIN File
      /\ \A i \in DOMAIN File : i \in After <=> ~(i <= at) /\ Matches(i)
  BY <1>0, <1>2
<1> HIDE DEF After
<1>4. UNCHANGED <<work, trail, stmt, means, mIsNew, disk, basic, expected, spoilt>>
  BY <1>0 DEF NextRow, Unmoved, ghosts
<1>5. Worlds' /\ AtLeast(work, disk)' /\ Committed'
  BY <1>4, WorldStays, CommittedStays DEF IInv
<1>6. Meaning(means)' = Meaning(means) /\ Old' = Old /\ Kept' = Kept /\ File' = File
      /\ \A i, rows : IsAs(i, rows)' <=> IsAs(i, rows)
  BY <1>1, <1>4, MeaningStays DEF IsAs, File
<1>7. CASE After = {}
  <2>1. status' = "commit" /\ at' = at /\ left' = left
    BY <1>0, <1>7 DEF NextRow, Goes
  <2>2. Place'
    <3> HIDE DEF t
    <3> QED BY <1>0, <1>1, <1>4, <2>1 DEF IInv, Place, Places, Running, t
  <2>3. ASSUME spoilt = "no" PROVE Scanning'
    <3>1. Scanning
      BY <1>0, <1>1, <2>3 DEF IInv, Progress
    <3>2. \A i \in DOMAIN File : IsAs(i, Meaning(means))
      <4> SUFFICES ASSUME NEW i \in DOMAIN File PROVE IsAs(i, Meaning(means))
        OBVIOUS
      <4>1. CASE i <= at
        BY <1>0, <3>1, <4>1 DEF Scanning
      <4>2. CASE ~(i <= at)
        BY <1>0, <1>1, <1>3, <1>7, <3>1, <4>2, MatchesMeans
      <4> QED BY <4>1, <4>2
    <3>3. \A i \in DOMAIN File' : IsAs(i, Meaning(means))'
      BY <1>6, <3>2, <1>4 DEF IsAs
    <3>4. DOMAIN Old' \subseteq DOMAIN File' /\ at' \in 0 .. Len(File')
      BY <1>6, <2>1, <3>1 DEF Scanning
    <3> QED BY <2>1, <3>3, <3>4 DEF Scanning
  <2>4. Progress'
    <3> HIDE DEF t
    <3> QED BY <1>0, <1>1, <1>4, <2>1, <2>3 DEF IInv, Progress, AsExpected
  <2> QED BY <1>5, <2>2, <2>4 DEF IInv
<1>8. CASE After # {}
  <2>1. /\ status' = "row" /\ at' = Min(After)
        /\ left' = RowSteps(work.files[stmt.tbl][at'].row)
    BY <1>0, <1>8 DEF NextRow, Goes
  <2>2. at' \in After /\ \A i \in After : at' <= i
    BY <1>3, <1>8, <2>1, LeastNumber
  <2>3. at' \in Nat /\ at' \in DOMAIN File
    BY <1>3, <2>2
  <2>4. /\ IsSeq(left') /\ left' # <<>>
        /\ means.op = "delete" =>
             left'[Len(left')] = DeleteRow /\ \A k \in 1 .. Len(left') - 1 : left'[k].do = "remove"
        /\ means.op = "modify" =>
             /\ left'[1] = Set(means.fld, means.val)
             /\ \A k \in 2 .. Len(left') : left'[k].do \in {"remove", "enter"}
    <3>1. CASE stmt.op = "delete"
      <4>1. Len(Schema[stmt.tbl]) \in Nat
        BY <1>1, EngineAssumption
      <4> QED BY <1>1, <2>1, <3>1, <4>1, DeleteSteps
    <3>2. CASE stmt.op = "modify"
      BY <1>0, <1>1, <2>1, <3>2, ModifySteps
    <3> QED BY <1>0, <3>1, <3>2
  <2>5. Place'
    <3> HIDE DEF t
    <3> QED BY <1>0, <1>4, <1>6, <2>1, <2>3, <2>4 DEF IInv, Place, Places, Running, Changing
  <2>6. ASSUME spoilt = "no" PROVE Scanning'
    <3>1. Scanning
      BY <1>0, <1>1, <2>6 DEF IInv, Progress
    <3>2. ~(at' <= at) /\ Matches(at')
      BY <1>3, <2>2, <2>3
    <3>3. /\ at' \in DOMAIN Old \ Kept /\ at' \in UsedSlots(work, t) /\ File[at'].row = Old[at']
      BY <1>0, <1>1, <2>3, <3>1, <3>2, MatchesMeans
    <3>4. ASSUME NEW i \in DOMAIN File, i # at'
          PROVE  IsAs(i, IF i <= at' THEN Meaning(means) ELSE Old)
      <4>0. i \in Nat
        BY <1>2
      <4>1. CASE i <= at
        <5>1. i <= at'
          BY <1>0, <2>3, <3>2, <4>0, <4>1
        <5> QED BY <1>0, <3>1, <4>1, <5>1 DEF Scanning
      <4>2. CASE ~(i <= at) /\ i <= at'
        <5>1. ~Matches(i)
          BY <1>3, <2>2, <2>3, <3>4, <4>0, <4>2
        <5> QED BY <1>0, <1>1, <3>1, <4>2, <5>1, MatchesMeans
      <4>3. CASE ~(i <= at')
        <5>1. ~(i <= at)
          BY <1>0, <2>3, <3>2, <4>0, <4>3
        <5> QED BY <1>0, <3>1, <4>3, <5>1 DEF Scanning
      <4> QED BY <4>1, <4>2, <4>3
    <3>5. \A i \in DOMAIN File' :
            i # at' => IsAs(i, IF i <= at THEN Meaning(means) ELSE Old)'
      BY <1>4, <1>6, <3>4 DEF IsAs
    <3>6. DOMAIN Old' \subseteq DOMAIN File' /\ at' \in 0 .. Len(File')
      BY <1>2, <1>6, <2>3, <3>1 DEF Scanning
    <3>7. at' \in DOMAIN Old' \ Kept' /\ at' \in UsedSlots(work', means'.tbl)
      BY <1>4, <1>6, <3>3
    <3>8. means.op = "delete" => Deleting'
      BY <2>4 DEF Deleting
    <3>9. means.op = "modify" => Modifying'
      BY <1>4, <1>6, <2>4, <3>3 DEF Modifying
    <3> HIDE DEF t
    <3> QED BY <1>4, <2>1, <3>5, <3>6, <3>7, <3>8, <3>9 DEF Scanning
  <2>7. Progress'
    <3> HIDE DEF t
    <3> QED BY <1>0, <1>1, <1>4, <2>1, <2>6 DEF IInv, Progress, AsExpected
  <2> QED BY <1>5, <2>5, <2>7 DEF IInv
<1> QED BY <1>7, <1>8

-----------------------------------------------------------------------------
(* The steps at a row.                                                     *)
RowStepped ==
  /\ status = "row" /\ left' = Tail(left) /\ trail' = Append(trail, work)
  /\ WorldOK(work') /\ AtLeast(work', work)
  /\ \A g \in Files : g # means.tbl => SameRows(work', work, g)
  /\ DOMAIN File' = DOMAIN File
  /\ \A j \in DOMAIN File : j # at => File'[j] = File[j]
  /\ status' \in {StepDone, "failed", "dies", "hangs"}
  /\ UNCHANGED <<stmt, means, at, mIsNew, disk, basic, expected, spoilt>>

LEMMA AtRow ==
  ASSUME IInv, status = "row"
  PROVE  /\ stmt # None /\ Says(stmt, means) /\ stmt.op \in Changing /\ stmt.op = means.op
         /\ stmt.tbl = means.tbl /\ means.tbl \in Tables /\ means.tbl \in Files
         /\ at \in DOMAIN File /\ IsSeq(left) /\ left # <<>>
         /\ Len(left) \in Nat \ {0} /\ Head(left) = left[1]
         /\ IsSeq(Tail(left)) /\ Len(Tail(left)) = Len(left) - 1
         /\ \A i \in 1 .. Len(Tail(left)) : Tail(left)[i] = left[i + 1]
         /\ Tail(left) # <<>> <=> Len(left) > 1
         /\ StepDone = "row" <=> Len(left) > 1
         /\ StepDone = "commit" <=> Len(left) = 1 /\ means.op = "insert"
         /\ StepDone = "next" <=> Len(left) = 1 /\ means.op \in {"delete", "modify"}
         /\ StepDone \in {"row", "commit", "next"}
<1>1. /\ stmt # None /\ Says(stmt, means) /\ stmt.op \in Changing
      /\ at \in DOMAIN File /\ IsSeq(left) /\ left # <<>>
  BY DEF IInv, Place
<1>2. stmt.op = means.op /\ stmt.tbl = means.tbl /\ means.tbl \in Tables
  <2>1. stmt.op = means.op
    BY <1>1 DEF Says, Changing
  <2> QED BY <1>1, <2>1 DEF Says, Changing
<1>3. /\ Len(left) \in Nat \ {0} /\ Head(left) = left[1]
      /\ IsSeq(Tail(left)) /\ Len(Tail(left)) = Len(left) - 1
      /\ \A i \in 1 .. Len(Tail(left)) : Tail(left)[i] = left[i + 1]
      /\ Tail(left) # <<>> <=> Len(left) > 1
  BY <1>1, SeqTail
<1>4. /\ StepDone = "row" <=> Tail(left) # <<>>
      /\ StepDone = "commit" <=> Tail(left) = <<>> /\ stmt.op = "insert"
      /\ StepDone = "next" <=> Tail(left) = <<>> /\ stmt.op # "insert"
      /\ StepDone \in {"row", "commit", "next"}
  BY Zenon DEF StepDone
<1>5. Len(left) = 1 <=> ~(Len(left) > 1)
  BY <1>3
<1>6. means.op # "insert" <=> means.op \in {"delete", "modify"}
  BY <1>1, <1>2 DEF Changing
<1> QED BY <1>1, <1>2, <1>3, <1>4, <1>5, <1>6 DEF Files

(* Whatever the step does, what is left of the invariant is the progress.  *)
LEMMA RowStepIInv ==
  ASSUME IInv, RowStepped,
         spoilt = "no" /\ status' = StepDone /\ means.op = "insert" => Inserting',
         spoilt = "no" /\ status' = StepDone /\ means.op \in {"delete", "modify"} => Scanning'
  PROVE  IInv'
<1>1. status = "row"
  BY DEF RowStepped
<1>2. Worlds' /\ AtLeast(work, disk)' /\ trail' # <<>> /\ Committed'
  BY WorldStep, CommittedStays DEF IInv, RowStepped
<1>3. Place'
  <2>1. at' \in DOMAIN File' /\ at' = at
    BY <1>1, AtRow DEF RowStepped
  <2>2. CASE status' \in {"failed", "dies", "hangs"}
    BY <1>1, <1>2, <2>2, AtRow DEF IInv, Place, Places, RowStepped
  <2>3. CASE status' = "row"
    <3>1. IsSeq(left') /\ left' # <<>>
      BY <1>1, <2>3, AtRow DEF RowStepped
    <3> QED BY <1>1, <1>2, <2>1, <2>3, <3>1, AtRow DEF IInv, Place, Places, Running, RowStepped
  <2>4. CASE status' \in {"next", "commit"}
    <3>1. left' = <<>> /\ (status' = "next" => stmt.op \in {"delete", "modify"})
      BY <1>1, <2>4, AtRow DEF RowStepped
    <3> QED BY <1>1, <1>2, <2>4, <3>1, AtRow DEF IInv, Place, Places, Running, RowStepped
  <2> QED BY <1>1, <2>2, <2>3, <2>4, AtRow DEF RowStepped
<1>4. ASSUME spoilt = "no", NEW g \in Tables, g # means.tbl
      PROVE  Rows(work', g) = expected'[g]
  <2>1. Rows(work, g) = expected[g]
    BY <1>1, <1>4 DEF IInv, Progress, AsExpected
  <2>2. SameRows(work', work, g)
    BY <1>4 DEF RowStepped, Files
  <2> QED BY <2>1, <2>2, SameRowsAre DEF RowStepped
<1>5. Progress'
  <2>1. means' = means /\ spoilt' = spoilt /\ means.op \in Changing
    BY <1>1, AtRow DEF RowStepped
  <2>2. \A g \in Tables : spoilt = "no" => g = means.tbl \/ AsExpected(g)'
    BY <1>4 DEF AsExpected
  <2>3. status' \notin {"down", "making", "idle", "begin", "indexes"}
    BY <1>1, AtRow DEF RowStepped
  <2>4. status' \in {"next", "row", "commit"} => status' = StepDone
    BY <1>1, AtRow DEF RowStepped
  <2> QED BY <2>1, <2>2, <2>3, <2>4 DEF Progress
<1> QED BY <1>2, <1>3, <1>5 DEF IInv

(* Away from the slot nothing changes.                                     *)
LEMMA ElsewhereAs ==
  ASSUME IInv, RowStepped, NEW rows, NEW j \in DOMAIN File, j # at, IsAs(j, rows)
  PROVE  /\ j \in UsedSlots(work', means.tbl) <=> j \in DOMAIN rows
         /\ j \in DOMAIN rows => work'.files[means.tbl][j].row = rows[j]
<1>1. /\ DOMAIN work'.files[means.tbl] = DOMAIN work.files[means.tbl]
      /\ work'.files[means.tbl][j] = work.files[means.tbl][j]
  BY DEF RowStepped, File
<1> QED BY <1>1 DEF IsAs, UsedSlots, File

(* An insert goes on: a field that was to be set is set, the others stay.  *)
LEMMA InsertGoesOn ==
  ASSUME IInv, RowStepped, spoilt = "no", means.op = "insert",
         at \in UsedSlots(work', means.tbl),
         \A fld \in DOMAIN means.row \cap ToSet(Schema[means.tbl]) :
           File'[at].row[fld] = IF Head(left) = Set(fld, means.row[fld])
                                THEN means.row[fld] ELSE File[at].row[fld]
  PROVE  Inserting'
<1>1. status = "row" /\ Inserting
  BY DEF RowStepped, IInv, Progress
<1>2. /\ Len(left) \in Nat \ {0} /\ Head(left) = left[1] /\ left' = Tail(left)
      /\ Len(left') = Len(left) - 1 /\ \A i \in 1 .. Len(left') : left'[i] = left[i + 1]
  BY <1>1, AtRow DEF RowStepped
<1>3. Old' = Old /\ means' = means /\ at' = at /\ DOMAIN File' = DOMAIN File
  BY DEF RowStepped, Old
<1>4. \A i \in DOMAIN File' : i # at' => IsAs(i, Old)'
  BY <1>1, <1>3, ElsewhereAs DEF Inserting, IsAs
<1>5. ASSUME NEW fld \in DOMAIN means.row \cap ToSet(Schema[means.tbl])
      PROVE  \/ File'[at].row[fld] = means.row[fld]
             \/ \E k \in 1 .. Len(left') : left'[k] = Set(fld, means.row[fld])
  <2>1. CASE Head(left) = Set(fld, means.row[fld]) \/ File[at].row[fld] = means.row[fld]
    BY <2>1
  <2>2. CASE ~(Head(left) = Set(fld, means.row[fld]) \/ File[at].row[fld] = means.row[fld])
    <3>1. PICK k \in 1 .. Len(left) : left[k] = Set(fld, means.row[fld])
      BY <1>1, <2>2 DEF Inserting
    <3>2. k # 1
      BY <1>2, <2>2, <3>1
    <3>3. k - 1 \in 1 .. Len(left') /\ left'[k - 1] = left[k]
      BY <1>2, <3>1, <3>2
    <3> QED BY <3>1, <3>3
  <2> QED BY <2>1, <2>2
<1>6. \A k \in 1 .. Len(left') :
        \/ left'[k].do = "enter"
        \/ /\ left'[k].fld \in DOMAIN means.row
           /\ left'[k] = Set(left'[k].fld, means.row[left'[k].fld])
  <2> SUFFICES ASSUME NEW k \in 1 .. Len(left')
               PROVE  \/ left'[k].do = "enter"
                      \/ /\ left'[k].fld \in DOMAIN means.row
                         /\ left'[k] = Set(left'[k].fld, means.row[left'[k].fld])
    OBVIOUS
  <2>1. k + 1 \in 1 .. Len(left) /\ left'[k] = left[k + 1]
    BY <1>2
  <2>2. \/ left[k + 1].do = "enter"
        \/ /\ left[k + 1].fld \in DOMAIN means.row
           /\ left[k + 1] = Set(left[k + 1].fld, means.row[left[k + 1].fld])
    BY <1>1, <2>1 DEF Inserting
  <2> QED BY <2>1, <2>2
<1>7. /\ DOMAIN Old' \subseteq DOMAIN File' /\ at' \in DOMAIN File' \ DOMAIN Old'
      /\ at' \in UsedSlots(work', means'.tbl)
  BY <1>1, <1>3 DEF Inserting
<1> QED BY <1>3, <1>4, <1>5, <1>6, <1>7 DEF Inserting

(* A scan goes on: at its row, or past it when the row is as it should be. *)
LEMMA ScanGoesOn ==
  ASSUME IInv, RowStepped, spoilt = "no", means.op \in {"delete", "modify"}, status' = StepDone,
         Len(left) > 1 => /\ at \in UsedSlots(work', means.tbl)
                          /\ means.op = "delete" => Deleting'
                          /\ means.op = "modify" => Modifying',
         Len(left) = 1 => /\ at \in UsedSlots(work', means.tbl) <=> at \in DOMAIN Meaning(means)
                          /\ at \in DOMAIN Meaning(means) => File'[at].row = Meaning(means)[at]
  PROVE  Scanning'
<1>1. status = "row" /\ Scanning
  BY DEF RowStepped, IInv, Progress
<1>2. /\ status' = "row" <=> Len(left) > 1
      /\ status' = "next" <=> Len(left) = 1
      /\ status' \in {"row", "next"} /\ Len(left) \in Nat \ {0}
  BY <1>1, AtRow
<1>3. /\ Old' = Old /\ Kept' = Kept /\ Meaning(means)' = Meaning(means)
      /\ means' = means /\ at' = at /\ DOMAIN File' = DOMAIN File
  BY MeaningStays DEF RowStepped
<1>4. at \in DOMAIN File /\ DOMAIN File = 1 .. Len(File) /\ Len(File) \in Nat
  BY <1>1, AtRow, SeqIn DEF IInv, Worlds, WorldOK, FileOK, IsSeq, File
<1>5. Len(File') \in Nat /\ DOMAIN File' = 1 .. Len(File')
  BY <1>1, AtRow, SeqIn DEF RowStepped, WorldOK, FileOK, IsSeq, File
<1>6. at' \in 0 .. Len(File')
  BY <1>3, <1>4, <1>5
<1>7. \A i \in DOMAIN File : i # at => IsAs(i, IF i <= at THEN Meaning(means) ELSE Old)
  BY <1>1 DEF Scanning
<1>8. \A i \in DOMAIN File : i # at =>
        LET rows == IF i <= at THEN Meaning(means) ELSE Old
        IN /\ i \in UsedSlots(work', means.tbl) <=> i \in DOMAIN rows
           /\ i \in DOMAIN rows => work'.files[means.tbl][i].row = rows[i]
  BY <1>7, ElsewhereAs
<1>9. \A i \in DOMAIN File' : (status' = "row" => i # at') =>
        IsAs(i, IF status = "commit" \/ i <= at THEN Meaning(means) ELSE Old)'
  <2> SUFFICES ASSUME NEW i \in DOMAIN File, status' = "row" => i # at
               PROVE  IsAs(i, IF i <= at THEN Meaning(means) ELSE Old)'
    BY <1>2, <1>3
  <2>1. CASE i # at
    BY <1>3, <1>8, <2>1 DEF IsAs
  <2>2. CASE i = at
    <3>1. i <= at /\ Len(left) = 1
      BY <1>2, <1>4, <2>2
    <3> QED BY <1>3, <2>2, <3>1 DEF IsAs, File
  <2> QED BY <2>1, <2>2
<1>10. /\ DOMAIN Old' \subseteq DOMAIN File'
       /\ status' = "row" => at' \in DOMAIN Old' \ Kept'
  BY <1>1, <1>3 DEF Scanning
<1> QED BY <1>2, <1>3, <1>6, <1>9, <1>10 DEF Scanning

(* The same of an index that is opened first.                              *)
LEMMA IndexOperations ==
  ASSUME NEW ix, NEW key, NEW id
  PROVE  /\ IndexOK(ix) => /\ IndexGrown(index_insert(open(ix), key, id).ix, ix)
                           /\ IndexGrown(index_remove(open(ix), key, id).ix, ix)
         /\ index_insert(open(ix), key, id).got \in Endings
         /\ index_remove(open(ix), key, id).got \in Endings
<1> DEFINE o == open(ix)
<1>1. ASSUME IndexOK(ix)
      PROVE  /\ IndexGrown(index_insert(o, key, id).ix, ix)
             /\ IndexGrown(index_remove(o, key, id).ix, ix)
  <2>1. IndexGrown(o, ix)
    BY <1>1, OpenGrows
  <2> HIDE DEF o
  <2>2. /\ IndexGrown(index_insert(o, key, id).ix, o)
        /\ IndexGrown(index_remove(o, key, id).ix, o)
    BY <2>1, IndexInsertGrows, IndexRemoveGrows DEF IndexGrown
  <2>3. Len(ix.leaf) \in Nat
    BY <1>1 DEF IndexOK, IsSeq
  <2> QED BY <2>1, <2>2, <2>3, GrownTwice DEF IndexGrown
<1> HIDE DEF o
<1>2. index_insert(o, key, id).got \in Endings /\ index_remove(o, key, id).got \in Endings
  BY IndexInsertGrows, IndexRemoveGrows
<1> QED BY <1>1, <1>2 DEF o

LEMMA IndexStepDoes ==
  ASSUME Worlds, NEW i, NEW r, NEW to, IndexStep(i, r, to), r.got \in Endings,
         i \in DOMAIN Indexes => IndexGrown(r.ix, work.idx[i])
  PROVE  /\ WorldOK(work') /\ AtLeast(work', work) /\ work'.files = work.files
         /\ trail' = Append(trail, work) /\ status' \in {to, "failed", "dies", "hangs"}
         /\ UNCHANGED <<mIsNew, disk, basic, expected, spoilt>>
<1>1. /\ work' = PutIndex(work, i, r.ix) /\ trail' = Append(trail, work)
      /\ status' \in {to, "failed", "dies", "hangs"}
      /\ UNCHANGED <<mIsNew, disk, basic, expected, spoilt>>
  <2>1. CASE r.got = "ok"
    BY <2>1 DEF IndexStep, Changes, Goes, Unmoved, ghosts, PutIndex
  <2>2. CASE r.got = "throws"
    BY <2>2 DEF IndexStep, Changes, Goes, Unmoved, ghosts, PutIndex
  <2>3. CASE r.got \in {"dies", "hangs"}
    BY <2>3 DEF IndexStep, Changes, Goes, Unmoved, ghosts, PutIndex
  <2> QED BY <2>1, <2>2, <2>3 DEF Endings
<1>2. /\ WorldOK(PutIndex(work, i, r.ix)) /\ AtLeast(PutIndex(work, i, r.ix), work)
      /\ PutIndex(work, i, r.ix).files = work.files
  BY WithIndex DEF Worlds
<1> QED BY <1>1, <1>2

(* A step at an index leaves the rows as they are.                         *)
LEMMA IndexRowStep ==
  ASSUME IInv, NEW step \in {"enter", "remove"}, Do(step), NEW i, NEW r, IndexStep(i, r, StepDone),
         r.got \in Endings, i \in DOMAIN Indexes => IndexGrown(r.ix, work.idx[i])
  PROVE  IInv'
<1>1. /\ status = "row" /\ Head(left).do = step /\ left' = Tail(left)
      /\ UNCHANGED <<stmt, means, at>>
  BY DEF Do
<1>2. /\ WorldOK(work') /\ AtLeast(work', work) /\ work'.files = work.files
      /\ trail' = Append(trail, work) /\ status' \in {StepDone, "failed", "dies", "hangs"}
      /\ UNCHANGED <<mIsNew, disk, basic, expected, spoilt>>
  BY IndexStepDoes DEF IInv
<1>3. File' = File /\ \A f : UsedSlots(work', f) = UsedSlots(work, f)
  BY <1>1, <1>2 DEF File, UsedSlots
<1>4. RowStepped
  BY <1>1, <1>2, <1>3 DEF RowStepped, SameRows
<1>5. /\ Len(left) \in Nat \ {0} /\ Head(left) = left[1] /\ Len(left') = Len(left) - 1
      /\ \A k \in 1 .. Len(left') : left'[k] = left[k + 1]
  BY <1>1, AtRow
<1>6. ASSUME spoilt = "no", means.op = "insert" PROVE Inserting'
  <2>1. \A fld : Head(left) # Set(fld, means.row[fld])
    BY <1>1 DEF Set
  <2>2. at \in UsedSlots(work', means.tbl)
    BY <1>1, <1>3, <1>6 DEF IInv, Progress, Inserting
  <2> QED BY <1>3, <1>4, <1>6, <2>1, <2>2, InsertGoesOn
<1>7. ASSUME spoilt = "no", status' = StepDone, means.op \in {"delete", "modify"} PROVE Scanning'
  <2>1. Scanning /\ at \in DOMAIN Old \ Kept /\ at \in UsedSlots(work, means.tbl)
    BY <1>1, <1>7 DEF IInv, Progress, Scanning
  <2>2. CASE means.op = "delete"
    <3>1. Deleting
      BY <1>1, <2>1, <2>2 DEF Scanning
    <3>2. Len(left) > 1
      BY <1>1, <1>5, <3>1 DEF Deleting, DeleteRow
    <3>3. Deleting'
      <4>1. Len(left') \in 1 .. Len(left') /\ Len(left') + 1 = Len(left)
        BY <1>5, <3>2
      <4>2. left'[Len(left')] = DeleteRow
        BY <1>5, <3>1, <4>1 DEF Deleting
      <4>3. \A k \in 1 .. Len(left') - 1 : left'[k].do = "remove"
        BY <1>5, <3>1, <4>1 DEF Deleting
      <4> QED BY <4>2, <4>3 DEF Deleting
    <3> QED BY <1>3, <1>4, <1>5, <1>7, <2>1, <2>2, <3>2, <3>3, ScanGoesOn
  <2>3. CASE means.op = "modify"
    <3>1. Modifying
      BY <1>1, <2>1, <2>3 DEF Scanning
    <3>2. File[at].row = Meaning(means)[at]
      BY <1>1, <1>5, <3>1 DEF Modifying, Set
    <3>3. at \in DOMAIN Meaning(means) /\ Meaning(means)' = Meaning(means)
      BY <1>4, <2>1, <2>3, MeaningSlots, MeaningStays DEF RowStepped
    <3>4. Len(left) > 1 => Modifying'
      <4> SUFFICES ASSUME Len(left) > 1 PROVE Modifying'
        OBVIOUS
      <4>1. \A k \in 1 .. Len(left') : left'[k].do \in {"remove", "enter"}
        BY <1>5, <3>1 DEF Modifying
      <4>2. 1 \in 1 .. Len(left')
        BY <1>5
      <4>3. File'[at'].row = (Meaning(means)[at])'
        BY <1>1, <1>3, <3>2, <3>3
      <4>4. \A k \in 2 .. Len(left') : left'[k].do \in {"remove", "enter"}
        BY <1>5, <4>1
      <4> QED BY <4>1, <4>2, <4>3, <4>4 DEF Modifying
    <3> QED BY <1>3, <1>4, <1>7, <2>1, <2>3, <3>2, <3>3, <3>4, ScanGoesOn
  <2> QED BY <1>7, <2>2, <2>3
<1> QED BY <1>4, <1>6, <1>7, RowStepIInv

LEMMA EnterIInv ==
  ASSUME IInv, enter
  PROVE  IInv'
<1> DEFINE i == indexes[Head(left).fld]
           r == index_insert(open(work.idx[i]), Head(left).key, rid)
<1>1. Do("enter") /\ IndexStep(i, r, StepDone)
  BY DEF enter
<1>2. r.got \in Endings /\ (i \in DOMAIN Indexes => IndexGrown(r.ix, work.idx[i]))
  BY IndexOperations DEF IInv, Worlds, WorldOK
<1> HIDE DEF i, r
<1> QED BY <1>1, <1>2, IndexRowStep

LEMMA TakeOutIInv ==
  ASSUME IInv, take_out
  PROVE  IInv'
<1> DEFINE i == indexes[Head(left).fld]
           r == index_remove(open(work.idx[i]), Head(left).key, rid)
<1>1. Do("remove") /\ IndexStep(i, r, StepDone)
  BY DEF take_out
<1>2. r.got \in Endings /\ (i \in DOMAIN Indexes => IndexGrown(r.ix, work.idx[i]))
  BY IndexOperations DEF IInv, Worlds, WorldOK
<1> HIDE DEF i, r
<1> QED BY <1>1, <1>2, IndexRowStep

(* A step at a slot leaves the other slots, and the other files, alone.    *)
LEMMA SlotStepped ==
  ASSUME IInv, status = "row", left' = Tail(left), trail' = Append(trail, work),
         SlotSet(work', work, means.tbl, at), status' = StepDone,
         UNCHANGED <<stmt, means, at, mIsNew, disk, basic, expected, spoilt>>
  PROVE  RowStepped
BY DEF RowStepped, SlotSet, File

LEMMA SetFieldIInv ==
  ASSUME IInv, set_field
  PROVE  IInv'
<1> DEFINE t == means.tbl
           fld0 == Head(left).fld
           val0 == Head(left).val
           w == PutField(work, t, at, fld0, val0)
<1>1. /\ status = "row" /\ Head(left).do = "set" /\ left' = Tail(left)
      /\ UNCHANGED <<stmt, means, at>>
  BY DEF set_field, Do
<1>2. stmt.tbl = t /\ t \in Tables /\ t \in Files /\ at \in DOMAIN File
  BY <1>1, AtRow
<1>3. /\ work' = w /\ trail' = Append(trail, work) /\ status' = StepDone
      /\ UNCHANGED <<mIsNew, disk, basic, expected, spoilt>>
  BY <1>2 DEF set_field, Changes, Goes, Unmoved, ghosts, PutField
<1>4. /\ SlotSet(w, work, t, at) /\ UsedSlots(w, t) = UsedSlots(work, t)
      /\ w.files[t][at].row = WithField(work.files[t][at].row, fld0, val0)
  <2>1. WorldOK(work) /\ at \in DOMAIN work.files[t]
    BY <1>2 DEF IInv, Worlds, File
  <2>2. w = PutField(work, t, at, fld0, val0)
    OBVIOUS
  <2> HIDE DEF t, fld0, val0, w
  <2> QED BY <1>2, <2>1, <2>2, SetField
<1> HIDE DEF w
<1>5. RowStepped
  BY <1>1, <1>3, <1>4, SlotStepped
<1>6. File'[at].row = [File[at].row EXCEPT ![fld0] = val0]
  BY <1>1, <1>3, <1>4 DEF File, WithField
<1>7. DOMAIN File[at].row = ToSet(Schema[t])
  <2>1. FieldsOf(t) = Schema[t]
    BY <1>2, EngineAssumption DEF FieldsOf
  <2>2. SlotOK(t, File[at])
    BY <1>2, SeqIn DEF IInv, Worlds, WorldOK, FileOK, File
  <2> QED BY <2>1, <2>2 DEF SlotOK
<1>8. /\ Len(left) \in Nat \ {0} /\ Head(left) = left[1] /\ Len(left') = Len(left) - 1
      /\ \A k \in 1 .. Len(left') : left'[k] = left[k + 1]
  BY <1>1, AtRow
<1>9. ASSUME spoilt = "no", means.op = "insert" PROVE Inserting'
  <2>1. Inserting
    BY <1>1, <1>9 DEF IInv, Progress
  <2>2. fld0 \in DOMAIN means.row /\ Head(left) = Set(fld0, means.row[fld0])
    BY <1>1, <1>8, <2>1 DEF Inserting
  <2>3. val0 = means.row[fld0] /\ \A fld : Head(left) = Set(fld, means.row[fld]) => fld = fld0
    BY <2>2 DEF Set
  <2>4. \A fld \in ToSet(Schema[t]) :
          File'[at].row[fld] = IF fld = fld0 THEN val0 ELSE File[at].row[fld]
    BY <1>6, <1>7
  <2>5. \A fld \in DOMAIN means.row \cap ToSet(Schema[t]) :
          File'[at].row[fld] = IF Head(left) = Set(fld, means.row[fld])
                               THEN means.row[fld] ELSE File[at].row[fld]
    <3> HIDE DEF fld0, val0, t
    <3> QED BY <2>2, <2>3, <2>4
  <2>6. at \in UsedSlots(work', t)
    BY <1>3, <1>4, <2>1 DEF Inserting
  <2> QED BY <1>5, <1>9, <2>5, <2>6, InsertGoesOn
<1>10. ASSUME spoilt = "no", means.op \in {"delete", "modify"} PROVE Scanning'
  <2>1. Scanning /\ at \in DOMAIN Old \ Kept /\ at \in UsedSlots(work, t)
    BY <1>1, <1>10 DEF IInv, Progress, Scanning
  <2>2. means.op = "modify"
    <3> SUFFICES ASSUME means.op = "delete" PROVE FALSE
      BY <1>10
    <3>1. Deleting
      BY <1>1, <2>1 DEF Scanning
    <3> QED BY <1>1, <1>8, <3>1 DEF Deleting, DeleteRow
  <2>3. Modifying
    BY <1>1, <2>1, <2>2 DEF Scanning
  <2>4. left[1] = Set(means.fld, means.val) /\ File[at].row = Old[at]
    BY <1>1, <1>8, <2>3 DEF Modifying
  <2>5. fld0 = means.fld /\ val0 = means.val
    BY <1>8, <2>4 DEF Set
  <2>6. File'[at].row = Meaning(means)[at] /\ at \in DOMAIN Meaning(means)
    BY <1>6, <2>1, <2>2, <2>4, <2>5, MeaningSlots
  <2>7. at \in UsedSlots(work', t)
    BY <1>3, <1>4, <2>1
  <2>8. Len(left) > 1 => Modifying'
    <3> SUFFICES ASSUME Len(left) > 1 PROVE Modifying'
      OBVIOUS
    <3>1. \A k \in 1 .. Len(left') : left'[k].do \in {"remove", "enter"}
      BY <1>8, <2>3 DEF Modifying
    <3>2. 1 \in 1 .. Len(left') /\ \A k \in 2 .. Len(left') : k \in 1 .. Len(left')
      BY <1>8
    <3>3. Meaning(means)' = Meaning(means)
      BY <1>5, <2>2, MeaningStays DEF RowStepped
    <3>4. File'[at'].row = (Meaning(means)[at])'
      BY <1>1, <2>6, <3>3
    <3> QED BY <3>1, <3>2, <3>4 DEF Modifying
  <2> QED BY <1>3, <1>5, <1>10, <2>2, <2>6, <2>7, <2>8, ScanGoesOn
<1> QED BY <1>5, <1>9, <1>10, RowStepIInv

LEMMA DeleteRowIInv ==
  ASSUME IInv, delete_row
  PROVE  IInv'
<1> DEFINE t == means.tbl
           x(b) == PutUsed(work, t, at, b)
           w == x(FALSE)
<1>1. /\ status = "row" /\ Head(left).do = "delete" /\ left' = Tail(left)
      /\ UNCHANGED <<stmt, means, at>>
  BY DEF delete_row, Do
<1>2. stmt.tbl = t /\ t \in Files /\ at \in DOMAIN File
  BY <1>1, AtRow
<1>3. /\ work' = w /\ trail' = Append(trail, work) /\ status' = StepDone
      /\ UNCHANGED <<mIsNew, disk, basic, expected, spoilt>>
  BY <1>2 DEF delete_row, Changes, Goes, Unmoved, ghosts, PutUsed
<1>4. SlotSet(w, work, t, at) /\ UsedSlots(w, t) = UsedSlots(work, t) \ {at}
  <2>1. ASSUME NEW b \in BOOLEAN
        PROVE  /\ SlotSet(x(b), work, t, at)
               /\ UsedSlots(x(b), t) = IF b THEN UsedSlots(work, t) \cup {at} ELSE UsedSlots(work, t) \ {at}
    <3>1. WorldOK(work) /\ at \in DOMAIN work.files[t]
      BY <1>2 DEF IInv, Worlds, File
    <3> HIDE DEF t
    <3> QED BY <1>2, <3>1, SetUsed
  <2> HIDE DEF x
  <2> QED BY <2>1
<1> HIDE DEF x, w
<1>5. RowStepped
  BY <1>1, <1>3, <1>4, SlotStepped
<1>6. /\ Len(left) \in Nat \ {0} /\ Head(left) = left[1]
  BY <1>1, AtRow
<1>7. spoilt = "no" => means.op # "insert"
  <2> SUFFICES ASSUME spoilt = "no", means.op = "insert" PROVE FALSE
    OBVIOUS
  <2>1. Inserting
    BY <1>1 DEF IInv, Progress
  <2>2. 1 \in 1 .. Len(left)
    BY <1>6
  <2>3. left[1].do = "enter" \/ left[1] = Set(left[1].fld, means.row[left[1].fld])
    BY <1>1, <2>1, <2>2 DEF Inserting
  <2>4. left[1].do \in {"enter", "set"}
    BY <2>3 DEF Set
  <2> QED BY <1>1, <1>6, <2>4
<1>8. ASSUME spoilt = "no", means.op \in {"delete", "modify"} PROVE Scanning'
  <2>1. Scanning /\ at \in DOMAIN Old \ Kept
    BY <1>1, <1>8 DEF IInv, Progress, Scanning
  <2>2. means.op = "delete"
    <3> SUFFICES ASSUME means.op = "modify" PROVE FALSE
      BY <1>8
    <3>1. Modifying
      BY <1>1, <2>1 DEF Scanning
    <3> QED BY <1>1, <1>6, <3>1 DEF Modifying, Set
  <2>3. Deleting
    BY <1>1, <2>1, <2>2 DEF Scanning
  <2>4. Len(left) = 1
    <3>1. Len(left) > 1 => left[1].do = "remove"
      <4>1. Len(left) > 1 => 1 \in 1 .. Len(left) - 1
        BY <1>6
      <4>2. \A k \in 1 .. Len(left) - 1 : left[k].do = "remove"
        BY <2>3 DEF Deleting
      <4> QED BY <4>1, <4>2
    <3>2. left[1].do = "delete"
      BY <1>1, <1>6, Zenon
    <3>3. ~(Len(left) > 1)
      BY <3>1, <3>2
    <3> QED BY <1>6, <3>3
  <2>5. at \notin DOMAIN Meaning(means) /\ at \notin UsedSlots(work', t)
    BY <1>3, <1>4, <2>1, <2>2, MeaningSlots
  <2> QED BY <1>3, <1>5, <1>8, <2>4, <2>5, ScanGoesOn
<1> QED BY <1>5, <1>7, <1>8, RowStepIInv

-----------------------------------------------------------------------------
(* A query.                                                                *)
LEMMA QueryStepIInv ==
  ASSUME IInv, status = "begin", stmt.op = "query", UNCHANGED statement,
         status' \in {"commit", "failed", "dies", "hangs"},
         UNCHANGED <<mIsNew, disk, basic, expected, spoilt>>,
         Worlds', AtLeast(work, disk)', work'.files = work.files,
         UNCHANGED <<work, trail>> \/ trail' # <<>>
  PROVE  IInv'
<1>1. stmt # None /\ left = <<>> /\ means.op \notin Changing
  BY DEF IInv, Place, Says, Changing
<1>2. UNCHANGED <<stmt, means, at, left>>
  BY DEF statement
<1>3. Place'
  BY <1>1, <1>2 DEF IInv, Place, Places, Running
<1>4. \A t \in Tables : spoilt = "no" => AsExpected(t)'
  BY DEF IInv, Progress, AsExpected, Rows, UsedSlots
<1>5. Progress'
  BY <1>1, <1>2, <1>4 DEF Progress, Changing
<1> QED BY <1>3, <1>5, CommittedStays DEF IInv

LEMMA SelectIInv ==
  ASSUME IInv, select
  PROVE  IInv'
<1>0. status = "begin" /\ stmt.op = "query"
  BY DEF select, Begins
<1> DEFINE info(tbl) == get_index_info(work, tbl)
           fld == stmt.pred[1].lhs.of
           key == stmt.pred[1].rhs.of
           ix(tbl) == open(work.idx[info(tbl)[fld]])
           got(tbl) == CASE search(ix(tbl).dir, key) < 0 -> "throws"
                         [] search(ix(tbl).dir, key) >= 0 /\ ~LookUp(ix(tbl), key).ends -> "hangs"
                         [] OTHER -> "ok"
           plain == Goes("commit") /\ UNCHANGED <<work, trail>> /\ Unmoved
           looks(tbl) == IndexStep(info(tbl)[fld], Index(ix(tbl), got(tbl)), "commit")
<1>1. PICK tbl : \/ Fails("table") \/ Fails("catalog")
                 \/ UNCHANGED statement /\ (plain \/ looks(tbl))
  <2>1. PICK tbl \in stmt.tables :
          CASE ~HasLayout(work, tbl) -> Fails("table")
            [] HasLayout(work, tbl) /\ IndexInfoThrows(work, tbl) -> Fails("catalog")
            [] OTHER -> /\ UNCHANGED statement
                        /\ IF fld \in DOMAIN info(tbl) THEN looks(tbl) ELSE plain
    BY Zenon DEF select
  <2> HIDE DEF info, fld, key, ix, got, plain, looks
  <2> QED BY <2>1, Zenon
<1>2. CASE Fails("table") \/ Fails("catalog")
  BY <1>2, FailsIInv
<1>3. CASE UNCHANGED statement /\ plain
  <2>1. /\ status' = "commit" /\ UNCHANGED <<work, trail, mIsNew, disk, basic, expected, spoilt>>
    BY <1>3 DEF Goes, Unmoved, ghosts
  <2>2. Worlds' /\ AtLeast(work, disk)'
    BY <2>1, WorldStays DEF IInv
  <2> QED BY <1>0, <1>3, <2>1, <2>2, QueryStepIInv
<1>4. CASE UNCHANGED statement /\ looks(tbl)
  <2> DEFINE i == info(tbl)[fld]
             r == Index(ix(tbl), got(tbl))
  <2>1. r.got \in Endings
    BY DEF Index, Endings
  <2>2. i \in DOMAIN Indexes => IndexGrown(r.ix, work.idx[i])
    <3>1. r.ix = open(work.idx[i])
      BY DEF Index
    <3> HIDE DEF i, r
    <3> QED BY <3>1, OpenGrows DEF IInv, Worlds, WorldOK
  <2>3. IndexStep(i, r, "commit")
    BY <1>4
  <2> HIDE DEF i, r, info, ix, got
  <2>4. /\ WorldOK(work') /\ AtLeast(work', work) /\ work'.files = work.files
        /\ trail' = Append(trail, work) /\ status' \in {"commit", "failed", "dies", "hangs"}
        /\ UNCHANGED <<mIsNew, disk, basic, expected, spoilt>>
    BY <2>1, <2>2, <2>3, IndexStepDoes DEF IInv
  <2>5. Worlds' /\ AtLeast(work, disk)' /\ trail' # <<>>
    BY <2>4, WorldStep DEF IInv
  <2> QED BY <1>0, <1>4, <2>4, <2>5, QueryStepIInv
<1> QED BY <1>1, <1>2, <1>3, <1>4

-----------------------------------------------------------------------------
(* The invariant holds throughout.                                         *)
LEMMA NextIInv ==
  ASSUME IInv, [Next]_vars
  PROVE  IInv'
<1>1. CASE simpledb \/ simpledb_throws \/ metadata_manager \/ commit
  BY <1>1, SimpledbIInv, SimpledbThrowsIInv, MetadataIInv, CommitIInv
<1>2. CASE \E s \in Statements : execute_update(s)
  BY <1>2, UpdateIInv
<1>3. CASE execute_create
  BY <1>3, CreateIInv
<1>4. CASE execute_insert \/ insert_indexes
  BY <1>4, InsertIInv, InsertIndexesIInv
<1>5. CASE execute_delete_or_modify \/ next_row
  BY <1>5, DeleteOrModifyIInv, NextRowIInv
<1>6. CASE set_field \/ delete_row
  BY <1>6, SetFieldIInv, DeleteRowIInv
<1>7. CASE enter \/ take_out
  BY <1>7, EnterIInv, TakeOutIInv
<1>8. CASE select
  BY <1>8, SelectIInv
<1>9. CASE throw \/ rollback \/ rollback_throws \/ crash
  BY <1>9, ThrowIInv, RollbackIInv, RollbackThrowsIInv, CrashIInv
<1>10. CASE AtBounds \/ UNCHANGED vars
  BY <1>10, StutterIInv DEF AtBounds
<1> QED BY <1>1, <1>2, <1>3, <1>4, <1>5, <1>6, <1>7, <1>8, <1>9, <1>10 DEF Next

(* In every reachable state the files have their shape, the committed      *)
(* tables are what the statements mean, and a running statement is as far  *)
(* as its steps say: the slots behind its scan as it means, those ahead of *)
(* it as before (insertplanner, deleteplanner and modifyplanner under      *)
(* index_update_planner and basic_update_planner).                         *)
THEOREM EngineInvariant == Spec => []IInv
<1>1. Init => IInv
  BY InitIInv
<1>2. IInv /\ [Next]_vars => IInv'
  BY NextIInv
<1> QED BY <1>1, <1>2, PTL DEF Spec

LEMMA WholeBlocks ==
  ASSUME NEW k \in Nat, NEW n \in Nat \ {0}
  PROVE  (k * n) % n = 0
<1> DEFINE q == (k * n) \div n
           r == (k * n) % n
<1>1. k * n \in Nat
  OBVIOUS
<1>2. q \in Int /\ r \in 0 .. n - 1 /\ k * n = n * q + r
  BY <1>1
<1> HIDE DEF q, r
<1>3. n * (k - q) = r
  BY <1>2
<1>4. CASE k - q >= 1
  <2>1. n * (k - q) >= n
    BY <1>2, <1>4
  <2> QED BY <1>2, <1>3, <2>1
<1>5. CASE k - q <= -1
  <2>1. n * (k - q) < 0
    BY <1>2, <1>5
  <2> QED BY <1>2, <1>3, <2>1
<1>6. CASE k - q = 0
  BY <1>2, <1>3, <1>6 DEF r
<1> QED BY <1>2, <1>4, <1>5, <1>6

(* The type invariant, for every value of the constants: whatever throws   *)
(* and whenever the process ends, the files of records stay whole blocks   *)
(* of slots of their shape, and no file shrinks.                           *)
THEOREM TypeCorrect == Spec => []TypeOK
<1>1. IInv => TypeOK
  <2> SUFFICES ASSUME IInv PROVE TypeOK
    OBVIOUS
  <2>1. mIsNew \in BOOLEAN /\ basic \in BOOLEAN
    BY DEF IInv, Place
  <2>2. ASSUME NEW f \in Files
        PROVE  /\ Len(work.files[f]) >= Len(disk.files[f]) /\ Len(work.files[f]) % RecsPerBlock = 0
               /\ \A i \in DOMAIN work.files[f] : DOMAIN work.files[f][i].row = ToSet(FieldsOf(f))
    <3>1. Len(work.files[f]) >= Len(disk.files[f])
      BY DEF IInv, AtLeast
    <3>2. FileOK(f, work.files[f]) /\ DOMAIN work.files[f] = 1 .. Len(work.files[f])
      BY SeqIn DEF IInv, Worlds, WorldOK, FileOK
    <3>3. Len(work.files[f]) % RecsPerBlock = 0
      <4>1. PICK k \in Nat : Len(work.files[f]) = k * RecsPerBlock
        BY <3>2 DEF FileOK
      <4>2. RecsPerBlock \in Nat \ {0}
        BY EngineAssumption
      <4>3. (k * RecsPerBlock) % RecsPerBlock = 0
        BY <4>1, <4>2, WholeBlocks, Zenon
      <4> QED BY <4>1, <4>3
    <3>4. \A i \in DOMAIN work.files[f] : DOMAIN work.files[f][i].row = ToSet(FieldsOf(f))
      BY <3>2 DEF FileOK, SlotOK
    <3> QED BY <3>1, <3>3, <3>4
  <2>3. \A i \in DOMAIN Indexes : Len(work.idx[i].leaf) >= Len(disk.idx[i].leaf)
    BY DEF IInv, AtLeast
  <2>4. status \in Running \cup {"down", "making", "idle", "failed", "dies", "hangs"}
    BY DEF IInv, Place, Places
  <2>5. (status \in Running \cup {"making", "dies", "hangs"}) => stmt # None
    BY StatementsAssumption DEF IInv, Place, Running
  <2>6. (status = "row") = (left # <<>> /\ status \notin {"making", "failed", "dies", "hangs"})
    BY <2>4 DEF IInv, Place, Running
  <2>7. (work # disk) => trail # <<>>
    BY DEF IInv, Place
  <2>8. spoilt \in {"no", "half undone", "committed"}
    BY DEF IInv, Place
  <2> QED BY <2>1, <2>2, <2>3, <2>4, <2>5, <2>6, <2>7, <2>8 DEF TypeOK, Files
<1> QED BY <1>1, EngineInvariant, PTL

(* Whatever throws and whenever the process ends, each statement changes   *)
(* its table as its SQL means or not at all, for every value of the        *)
(* constants: any tables, block size, statements, and number of failures.  *)
(* The exception is a statement after a rollback that threw                *)
(* (embeddedstatement.cpp:28).                                             *)
THEOREM TablesAreExact == Spec => []TablesExact
<1>1. IInv => TablesExact
  BY DEF IInv, Committed, TablesExact
<1> QED BY <1>1, EngineInvariant, PTL
=============================================================================
