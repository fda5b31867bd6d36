-------------------------------- MODULE BTree --------------------------------
(***************************************************************************)
(* A B-tree index as the code keeps it: a file of leaves and a file of     *)
(* directory blocks.  The operators take the value of an index and return  *)
(* what an operation of bt_page, btree_leaf, btree_dir or btree_index      *)
(* makes of it.                                                            *)
(*                                                                         *)
(* A block is [lt, born, flag, n, recs]: its layout, the flag it was       *)
(* formatted with, the flag and the number of records in its first eight   *)
(* bytes, and its slots, those past the last record included: removed      *)
(* records stay there and are read.  Block b of a file is file[b + 1].     *)
(* Keys are integers; "" is 0, and so is the key of an empty slot.         *)
(***************************************************************************)
EXTENDS Integers, SequencesExt

CONSTANTS
  BlockSize,   \* bytes of a block
  IntMin       \* the least int, below every key

ASSUME BTreeAssumption == BlockSize \in Nat /\ IntMin < 0

NoEntry == [null |-> TRUE]
dir_entry(val, blk) == [null |-> FALSE, dataval |-> val, block |-> blk]

-----------------------------------------------------------------------------
(* Layouts.  keySize is what the dataval field takes: four bytes for an    *)
(* int, the length and the characters for a string.                        *)

create_idx_layout(keySize) == [fields |-> <<"block", "id", "dataval">>, keySize |-> keySize]
mDirLayout(leafLayout) == [fields |-> <<"block", "dataval">>, keySize |-> leafLayout.keySize]

slot_size(lt) == 4 * Len(lt.fields) + lt.keySize
slot_pos(lt, slot) == 8 + slot * slot_size(lt)
fld_pos(lt, slot, f) == slot_pos(lt, slot) + 4 * (CHOOSE i \in DOMAIN lt.fields : lt.fields[i] = f)

(* The slots of a block: those that fit, and one that may fit in part.     *)
Slots(lt) == 0 .. (BlockSize - 8) \div slot_size(lt)
Readable(lt, slot, f) == fld_pos(lt, slot, f) + 4 <= BlockSize
Writable(lt, slot, f) ==
  /\ slot \in Slots(lt)
  /\ fld_pos(lt, slot, f) + (IF f = "dataval" THEN lt.keySize ELSE 4) <= BlockSize

-----------------------------------------------------------------------------
(* bt_page.  Writing past the end of a block throws: the block is then bad, *)
(* and the operation that wrote it does not return.                        *)

format(lt, flag) ==
  [lt |-> lt, born |-> flag, flag |-> flag, n |-> 0, bad |-> FALSE,
   recs |-> [s \in Slots(lt) |-> [f \in ToSet(lt.fields) |-> 0]]]

get_data_val(p, slot) == p.recs[slot].dataval

find_slot_before(p, key) ==
  LET NotBefore == {s \in 0 .. p.n - 1 : get_data_val(p, s) >= key}
  IN IF NotBefore # {} THEN Min(NotBefore) - 1
     ELSE IF p.n > 0 THEN p.n - 1 ELSE -1

is_full(p) == slot_pos(p.lt, p.n + 1) >= BlockSize

set_val(p, slot, f, val) ==
  IF Writable(p.lt, slot, f) THEN [p EXCEPT !.recs[slot][f] = val]
  ELSE [p EXCEPT !.bad = TRUE]

insert(p, slot) ==
  [p EXCEPT !.n = @ + 1,
            !.recs = [s \in DOMAIN p.recs |->
                        IF slot < s /\ s <= p.n THEN p.recs[s - 1] ELSE p.recs[s]]]

insert_rec(p, slot, rec) ==
  FoldLeft(LAMBDA q, f : set_val(q, slot, f, rec[f]), insert(p, slot), p.lt.fields)

remove(p, slot) ==
  [p EXCEPT !.n = @ - 1,
            !.recs = [s \in DOMAIN p.recs |->
                        IF slot <= s /\ s < p.n - 1 THEN p.recs[s + 1] ELSE p.recs[s]]]

(* remove and destSlot++ stand inside the loop over the fields: each field *)
(* of a new record comes from another record and goes to another slot.     *)
transfer_recs(src, slot, dest, destSlot) ==
  LET Move(m, f) ==
        [src |-> remove(m.src, slot),
         dest |-> set_val(m.dest, m.to, f, m.src.recs[slot][f]),
         to |-> m.to + 1]
      Fields == Len(src.lt.fields)
      rounds == IF slot >= src.n THEN 0 ELSE (src.n - slot + Fields - 1) \div Fields
      after[k \in 0 .. rounds] ==
        IF k = 0 THEN [src |-> src, dest |-> dest, to |-> destSlot]
        ELSE LET m == after[k - 1]
             IN FoldLeft(Move, [m EXCEPT !.dest = insert(@, m.to)], src.lt.fields)
  IN after[rounds]

(* split of block b: the file with the new block, which is its last.       *)
split(file, b, slot, flag) ==
  LET p == file[b + 1]
      m == transfer_recs(p, slot, format(p.lt, flag), 0)
  IN Append([file EXCEPT ![b + 1] = m.src], [m.dest EXCEPT !.flag = flag])
LastBlock(file) == Len(file) - 1

-----------------------------------------------------------------------------
(* btree_leaf: a cursor in a leaf.                                         *)

btree_leaf(file, b, key) == [b |-> b, slot |-> find_slot_before(file[b + 1], key), found |-> FALSE]

(* In the next block of an overflow chain every record counts as found.    *)
try_overflow(file, key, at) ==
  LET p == file[at.b + 1]
  IN IF get_data_val(p, 0) # key \/ p.flag < 0 THEN [at EXCEPT !.found = FALSE]
     ELSE [b |-> p.flag, slot |-> 0, found |-> TRUE]

leaf_next(file, key, at) ==
  LET p == file[at.b + 1]
      next == [at EXCEPT !.slot = @ + 1, !.found = TRUE]
  IN IF next.slot < p.n /\ get_data_val(p, next.slot) = key THEN next
     ELSE try_overflow(file, key, next)

get_data_rid(file, at) ==
  LET rec == file[at.b + 1].recs[at.slot] IN <<rec.block, rec.id>>

(* The cursors at which next returns true, in order.  A chain that leads   *)
(* back to a cursor seen before never ends.                                *)
Cursor == [b : Int, slot : Int, found : BOOLEAN]
Found(file, key, start) ==
  LET from[seen \in Seq(Cursor)] ==
        LET next == leaf_next(file, key, IF seen = <<>> THEN start ELSE Last(seen))
        IN IF ~next.found THEN [all |-> seen, ends |-> TRUE]
           ELSE IF Contains(seen, next) THEN [all |-> seen, ends |-> FALSE]
           ELSE from[Append(seen, next)]
  IN from[<<>>]

(* What an operation does: got says how it ended.                          *)
Ended(file, got) == [file |-> file, got |-> got, entry |-> NoEntry]

leaf_remove(file, b, key, rid) ==
  LET found == Found(file, key, btree_leaf(file, b, key))
      At == {i \in 1 .. Len(found.all) : get_data_rid(file, found.all[i]) = rid}
  IN CASE At # {} ->
            LET at == found.all[Min(At)]
            IN Ended([file EXCEPT ![at.b + 1] = remove(@, at.slot)], "ok")
       [] At = {} /\ found.ends -> Ended(file, "ok")
       [] OTHER -> Ended(file, "hangs")

(* Where a full leaf with several keys is cut.  To the right the loop stops *)
(* one after the record it looks for.                                      *)
SplitPos(p) ==
  LET half == p.n \div 2
      key == get_data_val(p, half)
      Other == {s \in 1 .. p.n : get_data_val(p, s - 1) # key}
  IN IF key = get_data_val(p, 0) THEN Min({s \in Other : s >= half})
     ELSE Max({s \in Other : s <= half})

leaf_insert(file, b, key, rid) ==
  LET p == file[b + 1]
      first == get_data_val(p, 0)
      rec == [block |-> rid[1], id |-> rid[2], dataval |-> key]
      q == insert_rec(p, btree_leaf(file, b, key).slot + 1, rec)
      with == [file EXCEPT ![b + 1] = q]
  IN CASE p.flag >= 0 /\ first > key ->
            LET cut == split(file, b, 0, p.flag)
            IN [Ended([cut EXCEPT ![b + 1] = insert_rec([@ EXCEPT !.flag = -1], 0, rec)], "ok")
                  EXCEPT !.entry = dir_entry(first, LastBlock(cut))]
       [] ~(p.flag >= 0 /\ first > key) /\ ~is_full(q) -> Ended(with, "ok")
       [] ~(p.flag >= 0 /\ first > key) /\ is_full(q)
          /\ get_data_val(q, 0) = get_data_val(q, q.n - 1) ->
            LET cut == split(with, b, 1, q.flag)
            IN Ended([cut EXCEPT ![b + 1].flag = LastBlock(cut)], "ok")
       [] OTHER ->
            IF ~Readable(q.lt, SplitPos(q), "dataval") THEN Ended(with, "throws")
            ELSE LET cut == split(with, b, SplitPos(q), -1)
                 IN [Ended(cut, "ok")
                       EXCEPT !.entry = dir_entry(get_data_val(q, SplitPos(q)), LastBlock(cut))]

-----------------------------------------------------------------------------
(* btree_dir.                                                              *)

(* Slot -1 of a directory block is in front of its records: with an int key *)
(* the block field of that slot is the flag, with a string it is in front  *)
(* of the block, which throws: the result is -1 then.                      *)
find_child_block(p, key) ==
  LET before == find_slot_before(p, key)
      slot == IF get_data_val(p, before + 1) = key THEN before + 1 ELSE before
  IN CASE slot >= 0 -> p.recs[slot].block
       [] slot < 0 /\ fld_pos(p.lt, slot, "block") = 0 -> p.flag
       [] OTHER -> -1

search(dir, key) ==
  LET from[b \in Int] ==
        LET child == find_child_block(dir[b + 1], key)
        IN IF dir[b + 1].flag > 0 /\ child >= 0 THEN from[child] ELSE child
  IN from[0]

insert_entry(dir, b, e) ==
  LET p == insert_rec(dir[b + 1], find_slot_before(dir[b + 1], e.dataval) + 1, e)
      with == [dir EXCEPT ![b + 1] = p]
  IN IF ~is_full(p) THEN Ended(with, "ok")
     ELSE LET cut == split(with, b, p.n \div 2, p.flag)
          IN [Ended(cut, "ok")
                EXCEPT !.entry = dir_entry(get_data_val(p, p.n \div 2), LastBlock(cut))]

dir_insert(dir, e) ==
  LET into[b \in Int] ==
        IF dir[b + 1].flag = 0 THEN insert_entry(dir, b, e)
        ELSE LET child == find_child_block(dir[b + 1], e.dataval)
                 below == into[child]
             IN IF child < 0 THEN Ended(dir, "throws")
                ELSE IF below.got # "ok" \/ below.entry.null THEN below
                ELSE insert_entry(below.file, b, below.entry)
  IN into[0]

(* It is called when there is no entry to insert: the null constant of that *)
(* entry is dereferenced, and the process is gone.                         *)
make_new_root(dir) == Ended(dir, "dies")

-----------------------------------------------------------------------------
(* btree_index.                                                            *)

Index(ix, got) == [ix |-> ix, got |-> got]
Unopened(keySize) == [lt |-> create_idx_layout(keySize), leaf |-> <<>>, dir |-> <<>>]

minVal(lt) == IF lt.keySize = 4 THEN IntMin ELSE 0
NewRoot(lt) ==
  insert_rec(format(mDirLayout(lt), 0), 0, [dataval |-> minVal(lt), block |-> 0])

(* The constructor: a file of no blocks is begun.                          *)
open(ix) ==
  [ix EXCEPT !.leaf = IF @ = <<>> THEN <<format(ix.lt, -1)>> ELSE @,
             !.dir = IF @ = <<>> THEN <<NewRoot(ix.lt)>> ELSE @]

Bad(file) == \E i \in DOMAIN file : file[i].bad

(* insert and remove, on an index that is open.                            *)
index_insert(ix, key, rid) ==
  LET b == search(ix.dir, key)
      l == leaf_insert(ix.leaf, b, key, rid)
      with == [ix EXCEPT !.leaf = l.file]
      d == dir_insert(ix.dir, l.entry)
  IN CASE b < 0 -> Index(ix, "throws")
       [] b >= 0 /\ (l.got # "ok" \/ Bad(l.file)) -> Index(with, "throws")
       [] b >= 0 /\ l.got = "ok" /\ ~Bad(l.file) /\ l.entry.null -> Index(with, "ok")
       [] OTHER ->
            IF d.got # "ok" \/ Bad(d.file) THEN Index(with, "throws")
            ELSE IF d.entry.null THEN Index(with, make_new_root(d.file).got)
            ELSE Index([with EXCEPT !.dir = d.file], "ok")

index_remove(ix, key, rid) ==
  LET b == search(ix.dir, key)
      l == leaf_remove(ix.leaf, b, key, rid)
  IN IF b < 0 THEN Index(ix, "throws") ELSE Index([ix EXCEPT !.leaf = l.file], l.got)

(* The records an index returns for a key, if it ever ends.                  *)
LookUp(ix, key) ==
  LET found == Found(ix.leaf, key, btree_leaf(ix.leaf, search(ix.dir, key), key))
  IN [rids |-> [i \in DOMAIN found.all |-> get_data_rid(ix.leaf, found.all[i])],
      ends |-> found.ends]

-----------------------------------------------------------------------------
(* What is left of an index when the changes since before are undone.      *)
(* Appended blocks stay, and so does their format, which is not logged; of *)
(* those in lost the format had not reached the file when the system       *)
(* crashed, and they are zeros.                                            *)
UndoneFile(before, now, lost) ==
  [i \in DOMAIN now |->
     IF i \in DOMAIN before THEN before[i]
     ELSE format(now[i].lt, IF i \in lost THEN 0 ELSE now[i].born)]

Undone(before, now, lost) ==
  [now EXCEPT !.leaf = UndoneFile(before.leaf, @, lost),
              !.dir = UndoneFile(before.dir, @, {})]
=============================================================================
