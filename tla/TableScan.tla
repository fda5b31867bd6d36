------------------------------ MODULE TableScan ------------------------------
(***************************************************************************)
(* table_scan and record_page: transactions that read and change one table *)
(* file through scans, several of them at a time.                          *)
(*                                                                         *)
(* The file is a sequence of blocks of slots; a slot is a flag and the     *)
(* fields of a record, one value here.  The loops of next and insert, and  *)
(* the constructor, are sequences of steps, one for each lock they ask the *)
(* transaction for: another transaction may get its lock in between.       *)
(* Locks are those of LockSpec; a request that is refused waits until it   *)
(* is granted or throws.  The log is what a rollback reads of TxSystem's.  *)
(* Pages, their writes and crashes are left to TxSystem.                   *)
(***************************************************************************)
EXTENDS Integers, Sequences, FiniteSets, FiniteSetsExt

CONSTANTS
  Txs,         \* connections, each with one transaction at a time
  Scans,       \* table_scan objects that may exist at a time
  Vals,
  Blank,       \* the value that format gives: 0 or ""
  None,        \* no transaction, no scan, no record
  NumSlots,    \* slots of a block
  MaxBlocks,   \* blocks the disk has room for
  InitFiles,   \* the table at first: for each block the slots in use
  MaxLog,      \* bound: no change beyond this number of undo records
  MaxTxs       \* bound: how many transactions begin

ASSUME TableAssumption ==
  /\ IsFiniteSet(Txs) /\ IsFiniteSet(Scans)
  /\ Blank \in Vals
  /\ None \notin Txs /\ None \notin Scans /\ None \notin Vals
  /\ InitFiles \subseteq Seq(SUBSET (0 .. NumSlots - 1))
  /\ \A f \in InitFiles : Len(f) <= MaxBlocks
  /\ NumSlots \in Nat \ {0} /\ MaxBlocks \in Nat \ {0} /\ MaxLog \in Nat /\ MaxTxs \in Nat

mEndOfFile == -1
Slots == 0 .. NumSlots - 1
BlockNums == 0 .. MaxBlocks - 1
Rids == BlockNums \X Slots
Lockable == BlockNums \cup {mEndOfFile}
empty == 0
used == 1

VARIABLES
  file,     \* file[b + 1][k]: flag and value of slot k of block b
  locks,    \* locks[t][b] of each transaction, "none", "s" or "x"
  pins,     \* pins[t][b]: how often buffer_list::mPins has the block
  log,      \* what a rollback of the transaction would undo
  call,     \* the call each transaction's thread is in, and where in it
  scan,     \* each table_scan: its transaction, mRP's block, mCurrentSlot
  begun,    \* how many transactions have begun
  pass      \* ghost: what the scan's caller has learnt in this pass

vars == <<file, locks, pins, log, call, scan, begun, pass>>

NoLocks == [b \in Lockable |-> "none"]
NoPins == [b \in BlockNums |-> 0]
NoScan == [tx |-> None, blk |-> 0, slot |-> -1]
NoPass == [tx |-> None, known |-> {}, ended |-> FALSE, twice |-> FALSE]
Idle == [op |-> "none", scan |-> None, at |-> "return"]
Failed == [Idle EXCEPT !.op = "failed"]

(* record_page::format of a block; also what a block of zeros reads as.    *)
Formatted == [k \in Slots |-> [flag |-> empty, val |-> Blank]]

(* The table as earlier transactions have left it.                         *)
Left(U) == [k \in Slots |-> [flag |-> IF k \in U THEN used ELSE empty, val |-> Blank]]

Init ==
  /\ \E f \in InitFiles : file = [i \in 1 .. Len(f) |-> Left(f[i])]
  /\ locks = [t \in Txs |-> NoLocks]
  /\ pins = [t \in Txs |-> NoPins]
  /\ log = [t \in Txs |-> <<>>]
  /\ call = [t \in Txs |-> Idle]
  /\ scan = [s \in Scans |-> NoScan]
  /\ begun = 0
  /\ pass = [s \in Scans |-> NoPass]

-----------------------------------------------------------------------------
(* The transaction: locks, pins, the log.                                  *)

MayShare(t, b) == \A u \in Txs \ {t} : locks[u][b] # "x"
MayOwn(t, b) == \A u \in Txs \ {t} : locks[u][b] = "none"

\* Mutant: size() does not lock the end of the file.
slock_blocks_only(t, b) ==
  /\ MayShare(t, b)
  /\ locks' = IF b = mEndOfFile THEN locks
              ELSE [locks EXCEPT ![t][b] = IF @ = "x" THEN "x" ELSE "s"]

slock(t, b) ==
  /\ MayShare(t, b)
  /\ locks' = [locks EXCEPT ![t][b] = IF @ = "x" THEN "x" ELSE "s"]

xlock(t, B) ==
  /\ \A b \in B : MayOwn(t, b)
  /\ locks' = [locks EXCEPT ![t] = [b \in Lockable |-> IF b \in B THEN "x" ELSE @[b]]]

(* buffer_list::pin and unpin.  A block that nobody has pinned may find no *)
(* free buffer: other tables use the pool too.                             *)
Pinned(p, t, b) == [p EXCEPT ![t][b] = @ + 1]
Unpinned(p, t, b) == [p EXCEPT ![t][b] = @ - 1]
MayLackBuffer(p, b) == \A t \in Txs : p[t][b] = 0

(* transaction::set_int or set_string of a field of slot r, logged.        *)
NumBlocks == Len(file)
At(r) == file[r[1] + 1][r[2]]
InUse == {r \in Rids : r[1] < NumBlocks /\ At(r).flag = used}
SetField(t, r, fld, v) ==
  /\ file' = [file EXCEPT ![r[1] + 1][r[2]][fld] = v]
  /\ log' = [log EXCEPT ![t] = Append(@, [rid |-> r, fld |-> fld, old |-> At(r)[fld]])]

Begun(t) == locks[t] # NoLocks
Mine(t, s) == call[t] = Idle /\ scan[s].tx = t
OnRecord(t, s) == Mine(t, s) /\ scan[s].slot >= 0
RoomToLog == Cardinality(UNION {{t} \X DOMAIN log[t] : t \in Txs}) < MaxLog

Rid(s) == <<scan[s].blk, scan[s].slot>>
AtLastBlock(s) == scan[s].blk = NumBlocks - 1

(* Where the thread of t is in its code.                                   *)
In(t, s, op, pc) == call[t] = [op |-> op, scan |-> s, at |-> pc]
Goto(t, s, op, pc) == call' = [call EXCEPT ![t] = [op |-> op, scan |-> s, at |-> pc]]
Return(t) == call' = [call EXCEPT ![t] = Idle]
Throw(t) == call' = [call EXCEPT ![t] = Failed] /\ UNCHANGED <<scan, pass>>

-----------------------------------------------------------------------------
(* The ghost.  A pass starts at before_first or in the constructor; known  *)
(* are the records next has returned since, less those the transaction has *)
(* removed and with those it has put behind the scan.                      *)

(* The slots the scan has left behind.  mCurrentSlot is -1 before the      *)
(* first slot of a block and after its last one.                           *)
Behind(s) ==
  LET t == scan[s].tx
      through == t # None /\ In(t, s, "next", "last")
  IN {r \in Rids : \/ pass[s].ended
                   \/ r[1] < scan[s].blk
                   \/ r[1] = scan[s].blk /\ (through \/ r[2] <= scan[s].slot)}

NewPass(t) == [NoPass EXCEPT !.tx = t]
Broken(s) == [pass EXCEPT ![s] = NoPass]
Returned(s, r) == [pass EXCEPT ![s].known = @ \cup {r},
                               ![s].twice = @ \/ r \in pass[s].known]
Inserted(t, r) ==
  [s \in Scans |-> IF pass[s].tx = t /\ r \in Behind(s)
                   THEN [pass[s] EXCEPT !.known = @ \cup {r}] ELSE pass[s]]
Removed(t, r) ==
  [s \in Scans |-> IF pass[s].tx = t
                   THEN [pass[s] EXCEPT !.known = @ \ {r}] ELSE pass[s]]
Forgotten(t) == [s \in Scans |-> IF pass[s].tx = t THEN NoPass ELSE pass[s]]

-----------------------------------------------------------------------------
(* Moving a scan: record_page() pins the block of r.  p is pins after the  *)
(* close() of the old block.  If the pin throws, the scan keeps its old    *)
(* record_page, the block of which it has unpinned.                        *)
MoveTo(t, s, p, r) ==
  /\ pins' = Pinned(p, t, r[1])
  /\ scan' = [scan EXCEPT ![s] = [tx |-> t, blk |-> r[1], slot |-> r[2]]]

PinThrows(t, p, b) ==
  /\ MayLackBuffer(p, b)
  /\ pins' = p
  /\ Throw(t)

\* Mutant: a move that leaves the old block pinned.
ClosedNot(t, s) == pins

Closed(t, s) == Unpinned(pins, t, scan[s].blk)
FirstOf(b) == <<b, -1>>

(* The constructor.                                                        *)
Open(t, s) ==
  /\ IF Begun(t) THEN UNCHANGED begun ELSE begun < MaxTxs /\ begun' = begun + 1
  /\ call[t] = Idle /\ scan[s].tx = None /\ \A u \in Txs : call[u].scan # s
  /\ slock(t, mEndOfFile)
  /\ IF NumBlocks = 0
     THEN /\ Goto(t, s, "open", "append")
          /\ pass' = Broken(s)
          /\ UNCHANGED <<pins, scan>>
     ELSE \/ /\ MoveTo(t, s, pins, FirstOf(0))
             /\ pass' = [pass EXCEPT ![s] = NewPass(t)]
             /\ UNCHANGED call
          \/ PinThrows(t, pins, 0)
  /\ UNCHANGED <<file, log>>

before_first(t, s) ==
  /\ Mine(t, s)
  /\ \/ /\ MoveTo(t, s, Closed(t, s), FirstOf(0))
        /\ pass' = [pass EXCEPT ![s] = NewPass(t)]
        /\ UNCHANGED call
     \/ PinThrows(t, Closed(t, s), 0)
  /\ UNCHANGED <<file, locks, log, begun>>

(* r comes from an index: the rid of a record.                             *)
move_to_rid(t, s, r) ==
  /\ Mine(t, s) /\ r \in InUse
  /\ \/ /\ MoveTo(t, s, Closed(t, s), r)
        /\ pass' = Broken(s)
        /\ UNCHANGED call
     \/ PinThrows(t, Closed(t, s), r[1])
  /\ UNCHANGED <<file, locks, log, begun>>

(* search_after: the slots of the block after the current one.             *)
Candidates(s, flag) ==
  {k \in Slots : k > scan[s].slot /\ file[scan[s].blk + 1][k].flag = flag}
FirstSlot(K) == IF K = {} THEN -1 ELSE Min(K)

(* next, from its start or from the head of its loop.                      *)
next_after(t, s) ==
  /\ Mine(t, s) \/ In(t, s, "next", "search")
  /\ slock(t, scan[s].blk)
  /\ LET k == FirstSlot(Candidates(s, used))
     IN /\ scan' = [scan EXCEPT ![s].slot = k]
        /\ IF k < 0 THEN Goto(t, s, "next", "last") ELSE Return(t)
        /\ pass' = IF pass[s].tx = None \/ pass[s].ended THEN Broken(s)
                   ELSE IF k < 0 THEN pass ELSE Returned(s, <<scan[s].blk, k>>)
  /\ UNCHANGED <<file, pins, log, begun>>

(* insert, likewise.  The slot found is taken when the block can be locked *)
(* exclusively.                                                            *)
insert_after(t, s) ==
  /\ (Mine(t, s) /\ RoomToLog) \/ In(t, s, "insert", "search")
  /\ slock(t, scan[s].blk)
  /\ IF Candidates(s, empty) = {}
     THEN /\ scan' = [scan EXCEPT ![s].slot = -1]
          /\ Goto(t, s, "insert", "last")
     ELSE /\ Goto(t, s, "insert", "flag")
          /\ UNCHANGED scan
  /\ pass' = Broken(s)
  /\ UNCHANGED <<file, pins, log, begun>>

(* set_flag of the slot found: the record keeps the values left there.     *)
set_flag(t, s) ==
  /\ In(t, s, "insert", "flag")
  /\ xlock(t, {scan[s].blk})
  /\ LET k == FirstSlot(Candidates(s, empty))
     IN /\ SetField(t, <<scan[s].blk, k>>, "flag", used)
        /\ scan' = [scan EXCEPT ![s].slot = k]
        /\ pass' = Inserted(t, <<scan[s].blk, k>>)
  /\ Return(t)
  /\ UNCHANGED <<pins, begun>>

(* at_last_block and what follows: next returns false, insert goes on to   *)
(* move_to_new_block, or the scan moves to the next block.                 *)
at_last_block(t, s, op) ==
  /\ In(t, s, op, "last")
  /\ slock(t, mEndOfFile)
  /\ CASE AtLastBlock(s) /\ op = "next" ->
            /\ Return(t)
            /\ pass' = [pass EXCEPT ![s].ended = pass[s].tx # None]
            /\ UNCHANGED <<pins, scan>>
       [] AtLastBlock(s) /\ op = "insert" ->
            /\ Goto(t, s, op, "append")
            /\ pins' = Closed(t, s)
            /\ UNCHANGED <<scan, pass>>
       [] OTHER ->
            \/ /\ MoveTo(t, s, Closed(t, s), FirstOf(scan[s].blk + 1))
               /\ Goto(t, s, op, "search")
               /\ UNCHANGED pass
            \/ PinThrows(t, Closed(t, s), scan[s].blk + 1)
  /\ UNCHANGED <<file, log, begun>>

(* transaction::append, record_page() and format, not logged.  The file    *)
(* grows at once and stays so, by a block of zeros if the pin throws.      *)
append(t, s, op) ==
  /\ In(t, s, op, "append")
  /\ NumBlocks < MaxBlocks
  /\ file' = Append(file, Formatted)
  /\ \/ /\ xlock(t, {mEndOfFile, NumBlocks})
        /\ MoveTo(t, s, pins, FirstOf(NumBlocks))
        /\ IF op = "insert" THEN Goto(t, s, op, "search") ELSE Return(t)
        /\ pass' = IF op = "insert" THEN pass ELSE [pass EXCEPT ![s] = NewPass(t)]
     \/ /\ xlock(t, {mEndOfFile})
        /\ PinThrows(t, pins, NumBlocks)
  /\ UNCHANGED <<log, begun>>

(* get_int, get_string, get_val of the current record.                     *)
get_val(t, s) ==
  /\ OnRecord(t, s)
  /\ slock(t, scan[s].blk)
  /\ UNCHANGED <<file, pins, log, call, scan, pass, begun>>

set_val(t, s, v) ==
  /\ OnRecord(t, s) /\ RoomToLog
  /\ xlock(t, {scan[s].blk})
  /\ SetField(t, Rid(s), "val", v)
  /\ UNCHANGED <<pins, call, scan, pass, begun>>

remove(t, s) ==
  /\ OnRecord(t, s) /\ RoomToLog
  /\ xlock(t, {scan[s].blk})
  /\ SetField(t, Rid(s), "flag", empty)
  /\ pass' = Removed(t, Rid(s))
  /\ UNCHANGED <<pins, call, scan, begun>>

\* Mutant: the closed scan is used, and closed, again.
close_and_reuse(t, s) ==
  /\ Mine(t, s)
  /\ pins' = Closed(t, s)
  /\ UNCHANGED <<file, locks, log, call, scan, pass, begun>>

(* close() by the caller, which then drops the scan.                       *)
close(t, s) ==
  /\ Mine(t, s)
  /\ pins' = Closed(t, s)
  /\ scan' = [scan EXCEPT ![s] = NoScan]
  /\ pass' = IF pass[s].ended THEN pass ELSE Broken(s)
  /\ UNCHANGED <<file, locks, log, call, begun>>

-----------------------------------------------------------------------------
(* A call that throws: a lock refused until the wait times out, or a full  *)
(* disk.  EmbeddedStatement and EmbeddedResultSet roll back on every       *)
(* exception.                                                              *)
Refused(t) ==
  LET s == call[t].scan
      at == call[t].at
  IN \/ at = "last" /\ ~MayShare(t, mEndOfFile)
     \/ at = "append" /\ (~MayOwn(t, mEndOfFile) \/ NumBlocks = MaxBlocks)
     \/ at = "search" /\ ~MayShare(t, scan[s].blk)
     \/ at = "flag" /\ ~MayOwn(t, scan[s].blk)

GiveUp(t) ==
  /\ Refused(t)
  /\ Throw(t)
  /\ UNCHANGED <<file, locks, pins, log, begun>>

(* What commit and rollback leave: locks released, unpin_all, and scans    *)
(* that nobody uses any more.                                              *)
End(t) ==
  /\ locks' = [locks EXCEPT ![t] = NoLocks]
  /\ pins' = [pins EXCEPT ![t] = NoPins]
  /\ log' = [log EXCEPT ![t] = <<>>]
  /\ call' = [call EXCEPT ![t] = Idle]
  /\ scan' = [s \in Scans |-> IF scan[s].tx = t THEN NoScan ELSE scan[s]]
  /\ pass' = Forgotten(t)
  /\ UNCHANGED <<file, begun>>

commit(t) == call[t] = Idle /\ Begun(t) /\ End(t)

(* A client rolls back when a call has thrown, or when it wishes to: so it *)
(* may also give up on a lock that get_val, set_val or remove waits for.   *)
rollback(t) ==
  /\ (call[t] = Idle /\ Begun(t)) \/ call[t].op = "failed"
  /\ call' = [call EXCEPT ![t] = [Idle EXCEPT !.op = "rollback"]]
  /\ UNCHANGED <<file, locks, pins, log, scan, pass, begun>>

\* Mutant: the first record not yet undone.
undo_oldest(t) ==
  /\ call[t].op = "rollback" /\ log[t] # <<>>
  /\ LET e == log[t][1]
     IN file' = [file EXCEPT ![e.rid[1] + 1][e.rid[2]][e.fld] = e.old]
  /\ log' = [log EXCEPT ![t] = Tail(@)]
  /\ UNCHANGED <<locks, pins, call, scan, pass, begun>>

(* One record of do_rollback: the last one not yet undone.                 *)
undo(t) ==
  /\ call[t].op = "rollback" /\ log[t] # <<>>
  /\ LET e == log[t][Len(log[t])]
     IN file' = [file EXCEPT ![e.rid[1] + 1][e.rid[2]][e.fld] = e.old]
  /\ log' = [log EXCEPT ![t] = SubSeq(@, 1, Len(@) - 1)]
  /\ UNCHANGED <<locks, pins, call, scan, pass, begun>>

EndRollback(t) ==
  /\ call[t].op = "rollback" /\ log[t] = <<>>
  /\ End(t)

-----------------------------------------------------------------------------
(* What transaction t may do next.                                         *)
Act(t) ==
  \/ \E s \in Scans :
       \/ Open(t, s) \/ before_first(t, s) \/ close(t, s)
       \/ next_after(t, s) \/ insert_after(t, s) \/ set_flag(t, s)
       \/ \E op \in {"next", "insert"} : at_last_block(t, s, op)
       \/ \E op \in {"open", "insert"} : append(t, s, op)
       \/ get_val(t, s) \/ remove(t, s)
       \/ \E v \in Vals : set_val(t, s, v)
       \/ \E r \in Rids : move_to_rid(t, s, r)
  \/ GiveUp(t) \/ commit(t) \/ rollback(t) \/ undo(t) \/ EndRollback(t)

(* The end of a behaviour at the bound MaxTxs.                             *)
AtBounds ==
  /\ begun = MaxTxs /\ \A t \in Txs : call[t] = Idle /\ ~Begun(t)
  /\ UNCHANGED vars

Next == (\E t \in Txs : Act(t)) \/ AtBounds

Spec == Init /\ [][Next]_vars

-----------------------------------------------------------------------------
(* Properties.                                                             *)

Running(t) == call[t].op \notin {"failed", "rollback"}

TypeOK ==
  /\ \E n \in 0 .. MaxBlocks :
       file \in [1 .. n -> [Slots -> [flag : {empty, used}, val : Vals]]]
  /\ locks \in [Txs -> [Lockable -> {"none", "s", "x"}]]
  /\ pins \in [Txs -> [BlockNums -> Nat]]
  /\ \A t \in Txs : /\ Len(log[t]) <= MaxLog
                    /\ \A i \in 1 .. Len(log[t]) :
                         log[t][i] \in [rid : Rids, fld : {"flag", "val"},
                                        old : {empty, used} \cup Vals]
  /\ call \in [Txs -> [op : {"none", "open", "next", "insert", "failed", "rollback"},
                       scan : Scans \cup {None},
                       at : {"return", "search", "flag", "last", "append"}]]
  /\ scan \in [Scans -> [tx : Txs \cup {None}, blk : BlockNums, slot : Slots \cup {-1}]]
  /\ pass \in [Scans -> [tx : Txs \cup {None}, known : SUBSET Rids, ended : BOOLEAN,
                         twice : BOOLEAN]]

(* A scan returns every record once: at each moment the records its caller *)
(* has seen in this pass are exactly those in the part of the file the     *)
(* scan has left behind, although other scans insert and remove, files     *)
(* grow and other transactions commit in the meantime.  Once next has      *)
(* returned false the caller knows the whole table, and this stays so      *)
(* until its transaction ends: there are no phantoms, because every block  *)
(* visited and the end of the file stay locked (tablescan.cpp:26-36,       *)
(* transaction.cpp:82-92).                                                 *)
PassExact ==
  \A s \in Scans :
    LET t == pass[s].tx IN
    t # None /\ Running(t) =>
      /\ pass[s].known = InUse \cap Behind(s)
      /\ ~pass[s].twice

(* Each open scan holds one pin, on the block it is at, and the            *)
(* transaction holds no other, however often the scan changed blocks; a    *)
(* scan in the middle of a change holds none (tablescan.cpp:96-117).       *)
PinsMatchScans ==
  \A t \in Txs : Running(t) =>
    \A b \in BlockNums :
      pins[t][b] = Cardinality({s \in Scans :
                     /\ scan[s].tx = t /\ scan[s].blk = b
                     /\ ~In(t, s, "insert", "append")})

(* The file keeps the promise of RecordSpec: commits and rollbacks of      *)
(* transactions that insert, modify and remove in the same blocks, with    *)
(* slots used again and blocks added (neither of which is undone).         *)
Touched(t) == {log[t][i].rid : i \in 1 .. Len(log[t])}
Logged(t, r, fld) == {i \in 1 .. Len(log[t]) : log[t][i].rid = r /\ log[t][i].fld = fld}
Work == [r \in Rids |-> IF r \in InUse THEN At(r).val ELSE None]
FirstOld(r, fld) ==
  IF \E t \in Txs : Logged(t, r, fld) # {}
  THEN LET t == CHOOSE u \in Txs : Logged(u, r, fld) # {}
       IN log[t][Min(Logged(t, r, fld))].old
  ELSE At(r)[fld]
Base == [r \in Rids |-> IF r[1] < NumBlocks /\ FirstOld(r, "flag") = used
                        THEN FirstOld(r, "val") ELSE None]

Records == INSTANCE RecordSpec WITH
  Absent <- None, base <- Base, work <- Work, touched <- [t \in Txs |-> Touched(t)],
  aborting <- {t \in Txs : call[t].op = "rollback"}

ImplementsRecords == Records!Spec

=============================================================================
