--------------------------- MODULE TableScanProofs ---------------------------
(***************************************************************************)
(* What holds of scans, their pins and locks, for any number of            *)
(* transactions, scans and blocks: a pass returns each record once, and    *)
(* the table keeps the promise of RecordSpec.                              *)
(***************************************************************************)
EXTENDS TableScan, SequenceLemmas, FiniteSetTheorems

-----------------------------------------------------------------------------
(* What the invariant says.                                                *)

(* What the variables hold.                                                *)
Slot == [flag : {empty, used}, val : Vals]
Block == [Slots -> Slot]
UndoRec == [rid : Rids, fld : {"flag"}, old : {empty, used}]
           \cup [rid : Rids, fld : {"val"}, old : Vals]
RollingBack == [Idle EXCEPT !.op = "rollback"]
CallState ==
  {Idle, Failed, RollingBack}
    \cup [op : {"next", "insert"}, scan : Scans, at : {"search", "last"}]
    \cup [op : {"insert"}, scan : Scans, at : {"flag"}]
    \cup [op : {"open", "insert"}, scan : Scans, at : {"append"}]
ScanState == [tx : Txs \cup {None}, blk : BlockNums, slot : Slots \cup {-1}]
PassState == [tx : Txs \cup {None}, known : SUBSET Rids, ended : BOOLEAN, twice : BOOLEAN]

Types ==
  /\ file \in Seq(Block) /\ Len(file) <= MaxBlocks
  /\ locks \in [Txs -> [Lockable -> {"none", "s", "x"}]]
  /\ pins \in [Txs -> [BlockNums -> Nat]]
  /\ log \in [Txs -> Seq(UndoRec)]
  /\ call \in [Txs -> CallState]
  /\ scan \in [Scans -> ScanState]
  /\ pass \in [Scans -> PassState]

(* A lock held exclusively is held by one transaction.                     *)
Exclusion ==
  \A t \in Txs, u \in Txs, b \in Lockable :
    t # u /\ locks[t][b] = "x" => locks[u][b] = "none"

(* What a rollback would undo is in blocks the transaction has to itself,  *)
(* and there was room to log it.                                           *)
LogOf(t) ==
  /\ Len(log[t]) <= MaxLog
  /\ call[t].op = "insert" => Len(log[t]) < MaxLog
  /\ \A i \in 1 .. Len(log[t]) :
       log[t][i].rid[1] < NumBlocks /\ locks[t][log[t][i].rid[1]] = "x"
Logs == \A t \in Txs : LogOf(t)

(* A call works on a scan of its transaction, no two calls on the same.    *)
CallOf(t) ==
  \A s \in Scans :
    call[t].scan = s =>
      /\ \A u \in Txs : call[u].scan = s => u = t
      /\ call[t].op = "open" =>
           scan[s].tx = None /\ NumBlocks = 0 /\ locks[t][mEndOfFile] # "none"
      /\ call[t].op # "open" => scan[s].tx = t
      /\ call[t].op # "next" => pass[s].tx = None
      /\ call[t].at = "flag" =>
           Candidates(s, empty) # {} /\ locks[t][scan[s].blk] # "none"
Calls == \A t \in Txs : CallOf(t)

(* A scan is at a block of the file, and a pass is one of its scan unless  *)
(* it has come to its end.                                                 *)
ScanOf(s) ==
  /\ scan[s].tx # None => scan[s].blk < NumBlocks
  /\ pass[s].tx # None /\ ~pass[s].ended => scan[s].tx = pass[s].tx
Positions == \A s \in Scans : ScanOf(s)

(* What a pass has left behind stays locked, and so does the end of the    *)
(* file once the scan has come to it.                                      *)
PassOf(s) ==
  LET t == pass[s].tx IN
  t # None /\ Running(t) =>
    /\ \A r \in Behind(s) : r[1] < NumBlocks => locks[t][r[1]] # "none"
    /\ pass[s].ended => locks[t][mEndOfFile] # "none"
    /\ pass[s].known = InUse \cap Behind(s)
    /\ ~pass[s].twice
Passes == \A s \in Scans : PassOf(s)

IInv == Types /\ Exclusion /\ Logs /\ Calls /\ Positions /\ Passes /\ PinsMatchScans

-----------------------------------------------------------------------------
(* Sets and sequences.                                                     *)

(* FirstSlot is the least of some slots.                                   *)
LEMMA LeastSlot ==
  ASSUME NEW K, K \subseteq Slots
  PROVE  IF K = {} THEN FirstSlot(K) = -1
         ELSE FirstSlot(K) \in K /\ \A k \in K : FirstSlot(K) <= k
<1>1. K \subseteq Nat
  BY DEF Slots
<1> QED BY <1>1, LeastNumber DEF FirstSlot

(* Two sets that differ in nothing but s.                                  *)
LEMMA CountOne ==
  ASSUME NEW S, NEW T, NEW s, IsFiniteSet(S), T \ {s} = S \ {s}
  PROVE  /\ IsFiniteSet(T) /\ Cardinality(S) \in Nat /\ Cardinality(T) \in Nat
         /\ Cardinality(T) = Cardinality(S) + (IF s \in T THEN 1 ELSE 0)
                                            - (IF s \in S THEN 1 ELSE 0)
<1> DEFINE C == S \ {s}
<1>1. IsFiniteSet(C) /\ Cardinality(C) \in Nat
  BY FS_Subset, FS_CardinalityType
<1>2. IsFiniteSet(C \cup {s}) /\ Cardinality(C \cup {s}) = Cardinality(C) + 1
  <2> s \notin C
    OBVIOUS
  <2> HIDE DEF C
  <2> QED BY <1>1, FS_AddElement
<1>3. S = IF s \in S THEN C \cup {s} ELSE C
  OBVIOUS
<1>4. T = IF s \in T THEN C \cup {s} ELSE C
  OBVIOUS
<1> HIDE DEF C
<1>5. /\ IsFiniteSet(T) /\ Cardinality(T) \in Nat
      /\ Cardinality(T) = Cardinality(C) + (IF s \in T THEN 1 ELSE 0)
  <2>1. CASE s \in T
    <3>1. T = C \cup {s}
      BY <1>4, <2>1
    <3> QED BY <1>1, <1>2, <3>1, <2>1
  <2>2. CASE s \notin T
    <3>1. T = C
      BY <1>4, <2>2
    <3> QED BY <1>1, <3>1, <2>2
  <2> QED BY <2>1, <2>2
<1>6. /\ Cardinality(S) \in Nat
      /\ Cardinality(S) = Cardinality(C) + (IF s \in S THEN 1 ELSE 0)
  <2>1. CASE s \in S
    <3>1. S = C \cup {s}
      BY <1>3, <2>1
    <3> QED BY <1>1, <1>2, <3>1, <2>1
  <2>2. CASE s \notin S
    <3>1. S = C
      BY <1>3, <2>2
    <3> QED BY <1>1, <3>1, <2>2
  <2> QED BY <2>1, <2>2
<1> QED BY <1>1, <1>5, <1>6

(* A change of a field of a slot.                                          *)
FileWith(r, fld, v) == [file EXCEPT ![r[1] + 1][r[2]][fld] = v]
With(x, fld, v) == [x EXCEPT ![fld] = v]

(* No other slot changes with it, and no other block.                      *)
LEMMA FieldSet ==
  ASSUME file \in Seq(Block), Len(file) <= MaxBlocks,
         NEW r \in Rids, r[1] < NumBlocks, NEW fld \in {"flag", "val"}, NEW v,
         v \in (IF fld = "flag" THEN {empty, used} ELSE Vals),
         file' = FileWith(r, fld, v)
  PROVE  /\ file' \in Seq(Block) /\ NumBlocks' = NumBlocks
         /\ \A q \in Rids : q[1] < NumBlocks =>
              At(q)' = IF q = r THEN With(At(q), fld, v) ELSE At(q)
         /\ \A b \in 1 .. Len(file) : b # r[1] + 1 => file'[b] = file[b]
<1> DEFINE b == r[1] + 1
           k == r[2]
           new == [file[b][k] EXCEPT ![fld] = v]
<1>1. b \in 1 .. Len(file) /\ k \in Slots /\ file[b] \in Block /\ file[b][k] \in Slot
  BY DEF Block, Rids, BlockNums, NumBlocks
<1>2. new \in Slot
  <2>1. CASE fld = "flag"
    BY <1>1, <2>1 DEF Slot
  <2>2. CASE fld = "val"
    BY <1>1, <2>2 DEF Slot
  <2> QED BY <2>1, <2>2
<1>3. file' = [file EXCEPT ![b] = [file[b] EXCEPT ![k] = new]]
  BY Zenon DEF FileWith
<1> HIDE DEF new, b, k
<1> DEFINE newBlk == [file[b] EXCEPT ![k] = new]
<1>4. newBlk \in Block
  BY <1>1, <1>2 DEF Block
<1>5. /\ file' \in Seq(Block) /\ NumBlocks' = NumBlocks
      /\ \A c \in 1 .. Len(file) :
           file'[c] = IF c = b THEN newBlk ELSE file[c]
  <2> HIDE DEF newBlk
  <2>0. file' = [file EXCEPT ![b] = newBlk]
    BY <1>3 DEF newBlk
  <2>1. file' \in Seq(Block)
    <3>1. [file EXCEPT ![b] = newBlk] \in Seq(Block)
      BY <1>1, <1>4, ExceptSeq
    <3> QED BY <3>1, <2>0
  <2>2. Len(file') = Len(file)
    BY <1>1, <1>4, <2>0, ExceptSeq
  <2>3. \A c \in 1 .. Len(file) :
          file'[c] = IF c = b THEN newBlk ELSE file[c]
    BY <1>1, <1>4, <2>0, ExceptSeq
  <2> QED BY <2>1, <2>2, <2>3 DEF NumBlocks
<1>6. \A q \in Rids : q[1] < NumBlocks =>
        At(q)' = IF q = r THEN With(At(q), fld, v) ELSE At(q)
  <2> SUFFICES ASSUME NEW q \in Rids, q[1] < NumBlocks
               PROVE  At(q)' = IF q = r THEN new ELSE At(q)
    BY Zenon DEF new, At, b, k, With
  <2>1. q[1] + 1 \in 1 .. Len(file) /\ q[2] \in Slots /\ (q = r <=> q[1] + 1 = b /\ q[2] = k)
    BY DEF Rids, BlockNums, NumBlocks, b, k
  <2> QED BY <1>1, <1>5, <2>1 DEF At, Block
<1> QED BY <1>5, <1>6 DEF b

(* If there is room for one more record, each log has room for it.         *)
LEMMA Room ==
  ASSUME TableAssumption, Types, RoomToLog, NEW t \in Txs
  PROVE  Len(log[t]) < MaxLog
<1> DEFINE P(u) == {u} \X DOMAIN log[u]
           U == UNION {P(u) : u \in Txs}
<1>1. \A u \in Txs : IsFiniteSet(P(u)) /\ Cardinality(P(u)) = Len(log[u])
  <2> SUFFICES ASSUME NEW u \in Txs
               PROVE  IsFiniteSet(P(u)) /\ Cardinality(P(u)) = Len(log[u])
    OBVIOUS
  <2>1. DOMAIN log[u] = 1 .. Len(log[u]) /\ Len(log[u]) \in Nat
    BY DEF Types
  <2>2. IsFiniteSet(DOMAIN log[u]) /\ Cardinality(DOMAIN log[u]) = Len(log[u])
    BY <2>1, FS_Interval
  <2>3. IsFiniteSet({u}) /\ Cardinality({u}) = 1
    BY FS_Singleton
  <2>4. IsFiniteSet(P(u)) /\ Cardinality(P(u)) = Cardinality({u}) * Cardinality(DOMAIN log[u])
    BY <2>2, <2>3, FS_Product
  <2> QED BY <2>1, <2>2, <2>3, <2>4
<1>2. IsFiniteSet({P(u) : u \in Txs})
  <2> DEFINE Q == {P(u) : u \in Txs}
             f == [u \in Txs |-> P(u)]
  <2>1. f \in Surjection(Txs, Q)
    <3> HIDE DEF P
    <3> QED BY DEF Surjection
  <2> HIDE DEF Q, f
  <2>2. IsFiniteSet(Q)
    BY <2>1, FS_Surjection DEF TableAssumption
  <2> QED BY <2>2 DEF Q
<1>3. IsFiniteSet(U)
  BY <1>1, <1>2, FS_UNION
<1>4. P(t) \subseteq U
  OBVIOUS
<1>5. Cardinality(P(t)) <= Cardinality(U) /\ Cardinality(U) \in Nat
  <2> HIDE DEF U, P
  <2> QED BY <1>3, <1>4, FS_Subset, FS_CardinalityType
<1>6. Cardinality(U) < MaxLog
  BY DEF RoomToLog
<1>7. Cardinality(P(t)) = Len(log[t])
  BY <1>1
<1>8. MaxLog \in Nat /\ Len(log[t]) \in Nat
  BY DEF TableAssumption, Types
<1> HIDE DEF U, P
<1> QED BY <1>5, <1>6, <1>7, <1>8

-----------------------------------------------------------------------------
(* Locks.                                                                  *)

(* t keeps the locks it has, those held exclusively as such.               *)
Grown(t) ==
  \A b \in Lockable : /\ locks[t][b] # "none" => locks'[t][b] # "none"
                      /\ locks[t][b] = "x" => locks'[t][b] = "x"

(* Only the locks of t change, and two transactions do not own a block.    *)
LocksOnly(t) ==
  /\ locks' \in [Txs -> [Lockable -> {"none", "s", "x"}]]
  /\ \A u \in Txs \ {t} : locks'[u] = locks[u]
  /\ Exclusion'

(* What slock and xlock do to the locks.                                   *)
LEMMA SharedLock ==
  ASSUME Types, Exclusion, NEW t \in Txs, NEW b \in Lockable, slock(t, b)
  PROVE  LocksOnly(t) /\ Grown(t) /\ locks'[t][b] # "none"
BY DEF Types, Exclusion, LocksOnly, Grown, slock, MayShare

(* Likewise, for the blocks of B.                                          *)
LEMMA ExclusiveLock ==
  ASSUME Types, Exclusion, NEW t \in Txs, NEW B \in SUBSET Lockable, xlock(t, B)
  PROVE  LocksOnly(t) /\ Grown(t) /\ \A b \in B : locks'[t][b] = "x"
BY DEF Types, Exclusion, LocksOnly, Grown, xlock, MayOwn

(* A step that asks for no lock.                                           *)
LEMMA SameLocks ==
  ASSUME Types, Exclusion, NEW t \in Txs, UNCHANGED locks
  PROVE  LocksOnly(t) /\ Grown(t)
BY DEF Types, Exclusion, LocksOnly, Grown

(* commit and rollback release all the locks.                              *)
LEMMA NoMoreLocks ==
  ASSUME Types, Exclusion, NEW t \in Txs, End(t)
  PROVE  LocksOnly(t) /\ \A b \in Lockable : locks'[t][b] = "none"
BY DEF Types, Exclusion, LocksOnly, End, NoLocks

(* The blocks that are locked.                                             *)
LEMMA Blocks ==
  ASSUME TableAssumption, Types
  PROVE  /\ mEndOfFile \in Lockable /\ BlockNums \subseteq Lockable
         /\ mEndOfFile \notin BlockNums
         /\ NumBlocks \in 0 .. MaxBlocks
         /\ \A s \in Scans : scan[s].blk \in BlockNums /\ scan[s].blk \in Lockable
         /\ NumBlocks < MaxBlocks => NumBlocks \in BlockNums /\ NumBlocks \in Lockable
BY DEF TableAssumption, Types, Lockable, BlockNums, mEndOfFile, ScanState, NumBlocks

(* The steps of a transaction on a scan of it.                             *)
ScanAct(t, s) ==
  \/ Open(t, s) \/ before_first(t, s) \/ close(t, s)
  \/ next_after(t, s) \/ insert_after(t, s) \/ set_flag(t, s)
  \/ \E op \in {"next", "insert"} : at_last_block(t, s, op)
  \/ \E op \in {"open", "insert"} : append(t, s, op)
  \/ get_val(t, s) \/ remove(t, s)
  \/ \E v \in Vals : set_val(t, s, v)
  \/ \E r \in Rids : move_to_rid(t, s, r)

(* Next, by the kind of the step.                                          *)
LEMMA ActCases ==
  ASSUME NEW t \in Txs, Act(t)
  PROVE  \/ \E s \in Scans : ScanAct(t, s)
         \/ GiveUp(t) \/ rollback(t) \/ undo(t)
         \/ (commit(t) \/ EndRollback(t)) /\ End(t)
BY DEF Act, ScanAct, commit, EndRollback

(* A step on a scan keeps the locks and their compatibility.               *)
LEMMA ScanLocks ==
  ASSUME TableAssumption, Types, Exclusion, NEW t \in Txs, NEW s \in Scans, ScanAct(t, s)
  PROVE  LocksOnly(t) /\ Grown(t)
<1> USE Blocks
<1>1. CASE Open(t, s)
  BY <1>1, SharedLock DEF Open
<1>2. CASE before_first(t, s) \/ close(t, s) \/ \E r \in Rids : move_to_rid(t, s, r)
  BY <1>2, SameLocks DEF before_first, close, move_to_rid
<1>3. CASE next_after(t, s) \/ insert_after(t, s) \/ get_val(t, s)
  BY <1>3, SharedLock DEF next_after, insert_after, get_val
<1>4. CASE set_flag(t, s) \/ remove(t, s) \/ \E v \in Vals : set_val(t, s, v)
  <2>1. {scan[s].blk} \in SUBSET Lockable /\ xlock(t, {scan[s].blk})
    BY <1>4 DEF set_flag, remove, set_val
  <2> QED BY <2>1, ExclusiveLock
<1>5. CASE \E op \in {"next", "insert"} : at_last_block(t, s, op)
  BY <1>5, SharedLock DEF at_last_block
<1>6. CASE \E op \in {"open", "insert"} : append(t, s, op)
  <2>1. \E B \in SUBSET Lockable : xlock(t, B)
    <3>1. NumBlocks < MaxBlocks
      BY <1>6 DEF append
    <3>2. {mEndOfFile, NumBlocks} \in SUBSET Lockable /\ {mEndOfFile} \in SUBSET Lockable
      BY <3>1
    <3>3. xlock(t, {mEndOfFile, NumBlocks}) \/ xlock(t, {mEndOfFile})
      BY <1>6 DEF append
    <3> QED BY <3>2, <3>3
  <2> QED BY <2>1, ExclusiveLock
<1> QED BY <1>1, <1>2, <1>3, <1>4, <1>5, <1>6 DEF ScanAct

-----------------------------------------------------------------------------
(* The file and the log.                                                   *)

(* A step of t leaves alone what t does not own.                           *)
FileOnly(t) ==
  /\ file' \in Seq(Block) /\ Len(file') <= MaxBlocks /\ NumBlocks <= NumBlocks'
  /\ \A b \in BlockNums : b < NumBlocks => file'[b + 1] = file[b + 1] \/ locks'[t][b] = "x"
  /\ NumBlocks' # NumBlocks => locks'[t][mEndOfFile] = "x"

LogOnly(t) ==
  /\ log' \in [Txs -> Seq(UndoRec)]
  /\ \A u \in Txs \ {t} : log'[u] = log[u]

(* A step that leaves the file alone.                                      *)
LEMMA SameFile ==
  ASSUME TableAssumption, Types, NEW t \in Txs, UNCHANGED file
  PROVE  FileOnly(t) /\ NumBlocks' = NumBlocks
BY DEF Types, FileOnly, NumBlocks

(* A step that logs nothing.                                               *)
LEMMA SameLog ==
  ASSUME Types, NEW t \in Txs, UNCHANGED log
  PROVE  LogOnly(t)
BY DEF Types, LogOnly

(* A field is set.                                                         *)
LEMMA SlotType ==
  ASSUME Types, NEW r \in Rids, r[1] < NumBlocks
  PROVE  At(r) \in Slot /\ r[1] \in BlockNums /\ r[2] \in Slots /\ r[1] + 1 \in 1 .. Len(file)
<1>1. r[1] \in BlockNums /\ r[2] \in Slots /\ r[1] + 1 \in 1 .. Len(file)
  BY DEF Rids, BlockNums, NumBlocks
<1>2. file[r[1] + 1] \in Block
  BY <1>1 DEF Types
<1> QED BY <1>1, <1>2 DEF At, Block

(* set_int and set_string change one field and log its old value.          *)
LEMMA FieldStep ==
  ASSUME TableAssumption, Types, NEW t \in Txs, NEW r \in Rids, r[1] < NumBlocks,
         NEW fld \in {"flag", "val"}, NEW v, v \in (IF fld = "flag" THEN {empty, used} ELSE Vals),
         SetField(t, r, fld, v), locks'[t][r[1]] = "x"
  PROVE  /\ FileOnly(t) /\ LogOnly(t) /\ NumBlocks' = NumBlocks
         /\ \A q \in Rids : q[1] < NumBlocks =>
              At(q)' = IF q = r THEN With(At(q), fld, v) ELSE At(q)
         /\ Len(log'[t]) = Len(log[t]) + 1
         /\ \A i \in 1 .. Len(log[t]) : log'[t][i] = log[t][i]
         /\ log'[t][Len(log[t]) + 1] = [rid |-> r, fld |-> fld, old |-> At(r)[fld]]
<1>1. /\ file' = FileWith(r, fld, v)
      /\ file \in Seq(Block) /\ Len(file) <= MaxBlocks
  BY DEF SetField, Types, FileWith
<1>2. /\ file' \in Seq(Block) /\ NumBlocks' = NumBlocks
      /\ \A q \in Rids : q[1] < NumBlocks =>
           At(q)' = IF q = r THEN With(At(q), fld, v) ELSE At(q)
      /\ \A b \in 1 .. Len(file) : b # r[1] + 1 => file'[b] = file[b]
  BY <1>1, FieldSet
<1>3. FileOnly(t)
  <2>1. \A b \in BlockNums : b < NumBlocks => file'[b + 1] = file[b + 1] \/ locks'[t][b] = "x"
    <3> SUFFICES ASSUME NEW b \in BlockNums, b < NumBlocks, b # r[1]
                 PROVE  file'[b + 1] = file[b + 1]
      OBVIOUS
    <3>1. b + 1 \in 1 .. Len(file) /\ r[1] \in Nat /\ b \in Nat
      BY SlotType DEF BlockNums, NumBlocks
    <3>2. b + 1 # r[1] + 1
      BY <3>1
    <3> QED BY <1>2, <3>1, <3>2
  <2> QED BY <1>1, <1>2, <2>1 DEF FileOnly, NumBlocks
<1> DEFINE e == [rid |-> r, fld |-> fld, old |-> At(r)[fld]]
<1>4. e \in UndoRec
  <2>1. At(r) \in Slot
    BY SlotType
  <2>2. CASE fld = "flag"
    BY <2>1, <2>2 DEF Slot, UndoRec
  <2>3. CASE fld = "val"
    BY <2>1, <2>3 DEF Slot, UndoRec
  <2> QED BY <2>2, <2>3
<1>5. log' = [log EXCEPT ![t] = Append(log[t], e)]
  BY DEF SetField
<1> HIDE DEF e
<1>6. log \in [Txs -> Seq(UndoRec)] /\ log[t] \in Seq(UndoRec)
  BY DEF Types
<1>7. LogOnly(t) /\ log'[t] = Append(log[t], e)
  BY <1>4, <1>5, <1>6 DEF LogOnly
<1>8. /\ Len(log'[t]) = Len(log[t]) + 1
      /\ \A i \in 1 .. Len(log[t]) : log'[t][i] = log[t][i]
      /\ log'[t][Len(log[t]) + 1] = e
  BY <1>4, <1>6, <1>7
<1> QED BY <1>2, <1>3, <1>7, <1>8 DEF e

(* A field is set again to what it was.                                    *)
LEMMA UndoStep ==
  ASSUME TableAssumption, Types, NEW t \in Txs, LogOf(t), undo(t)
  PROVE  LET e == log[t][Len(log[t])] IN
         /\ FileOnly(t) /\ LogOnly(t) /\ NumBlocks' = NumBlocks
         /\ Len(log[t]) \in 1 .. MaxLog /\ e \in UndoRec
         /\ e.rid \in Rids /\ e.rid[1] < NumBlocks /\ locks[t][e.rid[1]] = "x"
         /\ \A q \in Rids : q[1] < NumBlocks =>
              At(q)' = IF q = e.rid THEN With(At(q), e.fld, e.old) ELSE At(q)
         /\ Len(log'[t]) = Len(log[t]) - 1
         /\ \A i \in 1 .. Len(log'[t]) : log'[t][i] = log[t][i]
<1> DEFINE n == Len(log[t])
           e == log[t][n]
<1>1. log \in [Txs -> Seq(UndoRec)] /\ log[t] \in Seq(UndoRec) /\ n \in 1 .. MaxLog
  <2>1. log \in [Txs -> Seq(UndoRec)] /\ log[t] # <<>> /\ Len(log[t]) <= MaxLog
    BY DEF Types, undo, LogOf
  <2>2. log[t] \in Seq(UndoRec)
    BY <2>1
  <2>3. Len(log[t]) \in Nat /\ Len(log[t]) # 0
    BY <2>1, <2>2, EmptySeq
  <2> QED BY <2>1, <2>2, <2>3 DEF TableAssumption
<1>2. e \in UndoRec /\ e.rid[1] < NumBlocks /\ locks[t][e.rid[1]] = "x"
  BY <1>1 DEF LogOf
<1>3. /\ e.rid \in Rids /\ e.fld \in {"flag", "val"}
      /\ e.old \in (IF e.fld = "flag" THEN {empty, used} ELSE Vals)
  BY <1>2 DEF UndoRec
<1>4. file' = FileWith(e.rid, e.fld, e.old)
  BY DEF undo, FileWith
<1>5. log' = [log EXCEPT ![t] = SubSeq(log[t], 1, n - 1)] /\ UNCHANGED locks
  BY DEF undo
<1> HIDE DEF e, n
<1>6. /\ file' \in Seq(Block) /\ NumBlocks' = NumBlocks
      /\ \A q \in Rids : q[1] < NumBlocks =>
           At(q)' = IF q = e.rid THEN With(At(q), e.fld, e.old) ELSE At(q)
      /\ \A b \in 1 .. Len(file) : b # e.rid[1] + 1 => file'[b] = file[b]
  <2>1. file \in Seq(Block) /\ Len(file) <= MaxBlocks
    BY DEF Types
  <2> QED BY <1>2, <1>3, <1>4, <2>1, FieldSet
<1>7. FileOnly(t)
  <2>1. Len(file) <= MaxBlocks /\ Len(file) \in Nat
    BY DEF Types
  <2>2. \A b \in BlockNums : b < NumBlocks => file'[b + 1] = file[b + 1] \/ locks'[t][b] = "x"
    <3> SUFFICES ASSUME NEW b \in BlockNums, b < NumBlocks, b # e.rid[1]
                 PROVE  file'[b + 1] = file[b + 1]
      BY <1>2, <1>5
    <3>1. b + 1 \in 1 .. Len(file) /\ e.rid[1] \in Nat /\ b \in Nat
      BY <1>2, <1>3, SlotType DEF BlockNums, NumBlocks
    <3>2. b + 1 # e.rid[1] + 1
      BY <3>1
    <3> QED BY <1>6, <3>1, <3>2
  <2> QED BY <1>6, <2>1, <2>2 DEF FileOnly, NumBlocks
<1>8. /\ LogOnly(t) /\ Len(log'[t]) = n - 1
      /\ \A i \in 1 .. Len(log'[t]) : log'[t][i] = log[t][i]
  <2>1. n = Len(log[t])
    BY DEF n
  <2>2. SubSeq(log[t], 1, n - 1) \in Seq(UndoRec) /\ Len(SubSeq(log[t], 1, n - 1)) = n - 1
    BY <1>1, <2>1
  <2>3. \A i \in 1 .. n - 1 : SubSeq(log[t], 1, n - 1)[i] = log[t][i]
    BY <1>1, <2>1
  <2>4. log'[t] = SubSeq(log[t], 1, n - 1) /\ LogOnly(t)
    BY <1>1, <1>5, <2>2 DEF LogOnly
  <2> QED BY <2>2, <2>3, <2>4
<1> QED BY <1>1, <1>2, <1>3, <1>6, <1>7, <1>8 DEF e, n

(* set_flag.                                                               *)
LEMMA FlagStep ==
  ASSUME TableAssumption, Types, NEW t \in Txs, NEW r \in Rids, r[1] < NumBlocks,
         NEW v \in {empty, used}, SetField(t, r, "flag", v), locks'[t][r[1]] = "x"
  PROVE  /\ FileOnly(t) /\ LogOnly(t) /\ NumBlocks' = NumBlocks
         /\ \A q \in Rids : q[1] < NumBlocks =>
              At(q)' = IF q = r THEN With(At(q), "flag", v) ELSE At(q)
         /\ Len(log'[t]) = Len(log[t]) + 1
         /\ \A i \in 1 .. Len(log[t]) : log'[t][i] = log[t][i]
         /\ log'[t][Len(log[t]) + 1] = [rid |-> r, fld |-> "flag", old |-> At(r)["flag"]]
<1> DEFINE fld == "flag"
<1>1. fld \in {"flag", "val"} /\ v \in (IF fld = "flag" THEN {empty, used} ELSE Vals)
  OBVIOUS
<1>2. SetField(t, r, fld, v)
  OBVIOUS
<1>3. fld = "flag"
  OBVIOUS
<1> HIDE DEF fld
<1>4. /\ FileOnly(t) /\ LogOnly(t) /\ NumBlocks' = NumBlocks
      /\ \A q \in Rids : q[1] < NumBlocks =>
           At(q)' = IF q = r THEN With(At(q), fld, v) ELSE At(q)
      /\ Len(log'[t]) = Len(log[t]) + 1
      /\ \A i \in 1 .. Len(log[t]) : log'[t][i] = log[t][i]
      /\ log'[t][Len(log[t]) + 1] = [rid |-> r, fld |-> fld, old |-> At(r)[fld]]
  BY <1>1, <1>2, FieldStep
<1> QED BY <1>3, <1>4

(* set_val.                                                                *)
LEMMA ValStep ==
  ASSUME TableAssumption, Types, NEW t \in Txs, NEW r \in Rids, r[1] < NumBlocks,
         NEW v \in Vals, SetField(t, r, "val", v), locks'[t][r[1]] = "x"
  PROVE  /\ FileOnly(t) /\ LogOnly(t) /\ NumBlocks' = NumBlocks
         /\ \A q \in Rids : q[1] < NumBlocks =>
              At(q)' = IF q = r THEN With(At(q), "val", v) ELSE At(q)
         /\ Len(log'[t]) = Len(log[t]) + 1
         /\ \A i \in 1 .. Len(log[t]) : log'[t][i] = log[t][i]
         /\ log'[t][Len(log[t]) + 1] = [rid |-> r, fld |-> "val", old |-> At(r)["val"]]
<1> DEFINE fld == "val"
<1>1. fld \in {"flag", "val"} /\ v \in (IF fld = "flag" THEN {empty, used} ELSE Vals)
  OBVIOUS
<1>2. SetField(t, r, fld, v)
  OBVIOUS
<1>3. fld = "val"
  OBVIOUS
<1> HIDE DEF fld
<1>4. /\ FileOnly(t) /\ LogOnly(t) /\ NumBlocks' = NumBlocks
      /\ \A q \in Rids : q[1] < NumBlocks =>
           At(q)' = IF q = r THEN With(At(q), fld, v) ELSE At(q)
      /\ Len(log'[t]) = Len(log[t]) + 1
      /\ \A i \in 1 .. Len(log[t]) : log'[t][i] = log[t][i]
      /\ log'[t][Len(log[t]) + 1] = [rid |-> r, fld |-> fld, old |-> At(r)[fld]]
  BY <1>1, <1>2, FieldStep
<1> QED BY <1>3, <1>4

(* A block is appended.                                                    *)
LEMMA AppendStep ==
  ASSUME TableAssumption, Types, Exclusion, NEW t \in Txs, NEW s \in Scans, NEW op, append(t, s, op)
  PROVE  /\ FileOnly(t) /\ NumBlocks' = NumBlocks + 1 /\ NumBlocks < MaxBlocks
         /\ \A q \in Rids : q[1] < NumBlocks => At(q)' = At(q)
         /\ \A q \in Rids : q[1] = NumBlocks => At(q)' = [flag |-> empty, val |-> Blank]
         /\ InUse' = InUse
<1>1. file \in Seq(Block) /\ Len(file) < MaxBlocks /\ file' = Append(file, Formatted)
  BY DEF Types, append, NumBlocks
<1>2. Formatted \in Block
  BY DEF Formatted, Block, Slot, TableAssumption
<1>3. /\ file' \in Seq(Block) /\ Len(file') = Len(file) + 1
      /\ \A i \in 1 .. Len(file) : file'[i] = file[i]
      /\ file'[Len(file) + 1] = Formatted
  BY <1>1, <1>2
<1>4. locks'[t][mEndOfFile] = "x"
  <2>1. xlock(t, {mEndOfFile, NumBlocks}) \/ xlock(t, {mEndOfFile})
    BY DEF append
  <2>2. {mEndOfFile, NumBlocks} \in SUBSET Lockable /\ {mEndOfFile} \in SUBSET Lockable
    BY <1>1, Blocks DEF NumBlocks
  <2> QED BY <2>1, <2>2, ExclusiveLock
<1>5. FileOnly(t)
  BY <1>1, <1>3, <1>4 DEF FileOnly, NumBlocks, BlockNums
<1>6. \A q \in Rids : q[1] < NumBlocks => At(q)' = At(q)
  <2> SUFFICES ASSUME NEW q \in Rids, q[1] < NumBlocks PROVE At(q)' = At(q)
    OBVIOUS
  <2> QED BY <1>3, SlotType DEF At
<1>7. \A q \in Rids : q[1] = NumBlocks => At(q)' = [flag |-> empty, val |-> Blank]
  BY <1>3 DEF At, Formatted, NumBlocks, Rids
<1>8. InUse' = InUse
  <2>1. NumBlocks' = NumBlocks + 1 /\ NumBlocks \in Nat /\ \A q \in Rids : q[1] \in Nat
    BY <1>1, <1>3 DEF NumBlocks, Rids, BlockNums, TableAssumption
  <2>2. \A q \in Rids : (q[1] < NumBlocks' /\ At(q)'.flag = used) <=> (q[1] < NumBlocks /\ At(q).flag = used)
    <3> TAKE q \in Rids
    <3>1. CASE q[1] < NumBlocks
      BY <2>1, <1>6, <3>1
    <3>2. CASE q[1] = NumBlocks
      BY <2>1, <1>7, <3>2 DEF empty, used
    <3>3. CASE q[1] > NumBlocks
      BY <2>1, <3>3
    <3> QED BY <2>1, <3>1, <3>2, <3>3
  <2> QED BY <2>2 DEF InUse
<1> QED BY <1>1, <1>3, <1>5, <1>6, <1>7, <1>8 DEF NumBlocks

-----------------------------------------------------------------------------
(* Calls and scans.                                                        *)

(* The thread of t is in no call, or in one on s, a scan of t or one that  *)
(* it opens.                                                               *)
Works(t, s) ==
  /\ call[t] = Idle \/ call[t].scan = s
  /\ scan[s].tx = t \/ (scan[s].tx = None /\ \A u \in Txs \ {t} : call[u].scan # s)

(* A step of t on s leaves other calls and scans alone.                    *)
ScanOnly(t, s) ==
  /\ call' \in [Txs -> CallState] /\ scan' \in [Scans -> ScanState]
  /\ \A u \in Txs \ {t} : call'[u] = call[u]
  /\ \A q \in Scans \ {s} : scan'[q] = scan[q]
  /\ call'[t] \in {Idle, Failed} \/ call'[t].scan = s
  /\ scan'[s].tx \in {t, None}
  /\ scan'[s].tx = t => scan'[s].blk < NumBlocks'

(* The calls a thread without a scan is in.                                *)
LEMMA CallStates ==
  /\ Idle \in CallState /\ Failed \in CallState /\ RollingBack \in CallState
  /\ Idle = [op |-> "none", scan |-> None, at |-> "return"]
  /\ Failed = [op |-> "failed", scan |-> None, at |-> "return"]
  /\ RollingBack = [op |-> "rollback", scan |-> None, at |-> "return"]
BY DEF CallState, Idle, Failed, RollingBack

(* What op, scan and at may be together.                                   *)
LEMMA InCall ==
  ASSUME TableAssumption, Types, NEW t \in Txs
  PROVE  /\ call[t] \in CallState
         /\ call[t].scan \in Scans \cup {None}
         /\ call[t].scan = None <=> call[t] \in {Idle, Failed, RollingBack}
         /\ call[t].scan # None =>
              \/ call[t].op \in {"next", "insert"} /\ call[t].at \in {"search", "last"}
              \/ call[t].op = "insert" /\ call[t].at = "flag"
              \/ call[t].op \in {"open", "insert"} /\ call[t].at = "append"
         /\ call[t] = [op |-> call[t].op, scan |-> call[t].scan, at |-> call[t].at]
<1>1. call[t] \in CallState
  BY DEF Types
<1>2. None \notin Scans
  BY DEF TableAssumption
<1> QED BY <1>1, <1>2, CallStates DEF CallState

(* A thread in the middle of a call is in that call.                       *)
LEMMA InScan ==
  ASSUME TableAssumption, Types, NEW t \in Txs, NEW s \in Scans, NEW op, NEW pc, In(t, s, op, pc)
  PROVE  call[t].scan = s /\ call[t].op = op /\ call[t].at = pc
BY DEF In

(* Every step on a scan is by the thread that may use it.                  *)
LEMMA ScanWorks ==
  ASSUME TableAssumption, Types, Calls, NEW t \in Txs, NEW s \in Scans, ScanAct(t, s)
  PROVE  Works(t, s)
<1>1. CallOf(t)
  BY DEF Calls
<1>2. CASE Mine(t, s)
  BY <1>2 DEF Mine, Works
<1>3. CASE Open(t, s)
  BY <1>3 DEF Open, Works
<1>4. CASE \E op, pc : In(t, s, op, pc)
  <2>1. call[t].scan = s
    BY <1>4, InScan
  <2>2. scan[s].tx \in {t, None} /\ \A u \in Txs \ {t} : call[u].scan # s
    BY <1>1, <2>1 DEF CallOf
  <2> QED BY <2>1, <2>2 DEF Works
<1>5. Mine(t, s) \/ Open(t, s) \/ \E op, pc : In(t, s, op, pc)
  BY Zenon DEF ScanAct, before_first, close, next_after, insert_after, set_flag, at_last_block,
    append, get_val, remove, set_val, move_to_rid, OnRecord
<1> QED BY <1>2, <1>3, <1>4, <1>5

(* What the parts of a step do.                                            *)
CallsOnly(t) ==
  /\ call' \in [Txs -> CallState]
  /\ \A u \in Txs \ {t} : call'[u] = call[u]

ScansOnly(s) ==
  /\ scan' \in [Scans -> ScanState]
  /\ \A q \in Scans \ {s} : scan'[q] = scan[q]

(* move_to_block and move_to_rid put the scan at a slot of a block.        *)
LEMMA Moved ==
  ASSUME TableAssumption, Types, NEW t \in Txs, NEW s \in Scans, NEW p, NEW b \in BlockNums,
         NEW k \in Slots \cup {-1}, MoveTo(t, s, p, <<b, k>>)
  PROVE  ScansOnly(s) /\ scan'[s] = [tx |-> t, blk |-> b, slot |-> k] /\ pins' = Pinned(p, t, b)
BY DEF Types, MoveTo, ScansOnly, ScanState

(* The same, for a record id.                                              *)
LEMMA MovedTo ==
  ASSUME Types, NEW t \in Txs, NEW s \in Scans, NEW p, NEW r \in Rids,
         MoveTo(t, s, p, r)
  PROVE  ScansOnly(s) /\ scan'[s] = [tx |-> t, blk |-> r[1], slot |-> r[2]]
<1> DEFINE a == [tx |-> t, blk |-> r[1], slot |-> r[2]]
<1>1. scan \in [Scans -> ScanState] /\ scan' = [scan EXCEPT ![s] = a]
  BY DEF Types, MoveTo
<1>2. a \in ScanState
  BY DEF ScanState, Rids
<1> HIDE DEF a
<1>3. /\ scan' \in [Scans -> ScanState] /\ scan'[s] = a
      /\ \A q \in Scans \ {s} : scan'[q] = scan[q]
  BY <1>1, <1>2
<1> QED BY <1>3 DEF ScansOnly, a

(* The start of a block.                                                   *)
LEMMA MovedFirst ==
  ASSUME TableAssumption, Types, NEW t \in Txs, NEW s \in Scans, NEW p, NEW b \in BlockNums,
         MoveTo(t, s, p, FirstOf(b))
  PROVE  ScansOnly(s) /\ scan'[s] = [tx |-> t, blk |-> b, slot |-> -1] /\ pins' = Pinned(p, t, b)
BY Moved DEF FirstOf

(* next and insert set mCurrentSlot only.                                  *)
LEMMA SlotSet ==
  ASSUME Types, NEW s \in Scans, NEW k \in Slots \cup {-1}, scan' = [scan EXCEPT ![s].slot = k]
  PROVE  /\ ScansOnly(s) /\ scan'[s].tx = scan[s].tx /\ scan'[s].blk = scan[s].blk
         /\ scan'[s].slot = k
BY DEF Types, ScansOnly, ScanState

(* A step that moves no scan.                                              *)
LEMMA SameScans ==
  ASSUME Types, NEW s \in Scans, UNCHANGED scan
  PROVE  ScansOnly(s)
BY DEF Types, ScansOnly

(* close.                                                                  *)
LEMMA Dropped ==
  ASSUME TableAssumption, Types, NEW s \in Scans, scan' = [scan EXCEPT ![s] = NoScan]
  PROVE  ScansOnly(s) /\ scan'[s] = [tx |-> None, blk |-> 0, slot |-> -1]
BY DEF TableAssumption, Types, ScansOnly, ScanState, NoScan, BlockNums

(* The call goes on at its next lock.                                      *)
LEMMA Goes ==
  ASSUME TableAssumption, Types, NEW t \in Txs, NEW s \in Scans, NEW op, NEW pc, Goto(t, s, op, pc),
         \/ op \in {"next", "insert"} /\ pc \in {"search", "last"}
         \/ op = "insert" /\ pc = "flag"
         \/ op \in {"open", "insert"} /\ pc = "append"
  PROVE  CallsOnly(t) /\ call'[t] = [op |-> op, scan |-> s, at |-> pc]
<1>1. [op |-> op, scan |-> s, at |-> pc] \in CallState
  BY DEF CallState
<1> QED BY <1>1 DEF Types, Goto, CallsOnly

(* The call returns.                                                       *)
LEMMA Returns ==
  ASSUME Types, NEW t \in Txs, Return(t)
  PROVE  CallsOnly(t) /\ call'[t] = Idle
BY CallStates DEF Types, Return, CallsOnly

(* The call throws.                                                        *)
LEMMA Throws ==
  ASSUME Types, NEW t \in Txs, Throw(t)
  PROVE  CallsOnly(t) /\ call'[t] = Failed /\ UNCHANGED <<scan, pass>>
BY CallStates DEF Types, Throw, CallsOnly

(* A step within no call.                                                  *)
LEMMA SameCalls ==
  ASSUME Types, NEW t \in Txs, UNCHANGED call
  PROVE  CallsOnly(t) /\ call'[t] = call[t]
BY DEF Types, CallsOnly

(* What search_after finds.                                                *)
LEMMA CandidateSlots ==
  ASSUME Types, NEW s \in Scans, NEW flag
  PROVE  /\ Candidates(s, flag) \subseteq Slots
         /\ FirstSlot(Candidates(s, flag)) \in Slots \cup {-1}
         /\ Candidates(s, flag) = {} <=> FirstSlot(Candidates(s, flag)) < 0
         /\ Candidates(s, flag) # {} =>
              FirstSlot(Candidates(s, flag)) \in Candidates(s, flag) \cap Slots
         /\ \A k \in Candidates(s, flag) : FirstSlot(Candidates(s, flag)) <= k
<1>1. Candidates(s, flag) \subseteq Slots
  BY DEF Candidates
<1>2. \A k \in Slots : k \in Nat
  BY DEF Slots
<1> QED BY <1>1, <1>2, LeastSlot

(* A step on a scan changes that scan and that call only.                  *)
LEMMA ScanSteps ==
  ASSUME TableAssumption, Types, Calls, Positions, NEW t \in Txs, NEW s \in Scans, ScanAct(t, s),
         FileOnly(t)
  PROVE  ScanOnly(t, s)
<1> DEFINE Goal == /\ CallsOnly(t) /\ ScansOnly(s)
                   /\ call'[t] \in {Idle, Failed} \/ call'[t].scan = s
                   /\ scan'[s].tx \in {t, None}
                   /\ scan'[s].tx = t => scan'[s].blk < NumBlocks'
<1>1. SUFFICES Goal
  BY DEF ScanOnly, CallsOnly, ScansOnly
<1>2. /\ NumBlocks \in Nat /\ NumBlocks' \in Nat /\ NumBlocks <= NumBlocks'
      /\ scan[s].blk \in BlockNums
      /\ BlockNums = 0 .. MaxBlocks - 1 /\ MaxBlocks \in Nat /\ MaxBlocks > 0
      /\ NumBlocks <= MaxBlocks /\ NumBlocks' <= MaxBlocks
  <2>1. NumBlocks' = Len(file') /\ Len(file') \in Nat
    BY DEF FileOnly, NumBlocks
  <2> QED BY <2>1, Blocks DEF BlockNums, TableAssumption, FileOnly
<1>3. scan[s].tx # None => scan[s].blk < NumBlocks
  BY DEF Positions, ScanOf
<1>4. Works(t, s)
  BY ScanWorks
<1>5. scan[s].tx \in {t, None} /\ (call[t] = Idle \/ call[t].scan = s)
  BY <1>4 DEF Works
<1>6. t # None
  BY DEF TableAssumption
<1> DEFINE Calling == CallsOnly(t) /\ (call'[t] \in {Idle, Failed} \/ call'[t].scan = s)
           Scanning == /\ ScansOnly(s)
                       /\ scan'[s].tx \in {t, None}
                       /\ scan'[s].tx = t => scan'[s].blk < NumBlocks'
<1>7. ASSUME UNCHANGED scan PROVE Scanning
  BY <1>7, <1>2, <1>3, <1>5, <1>6, SameScans
<1>8. ASSUME UNCHANGED call PROVE Calling
  BY <1>8, <1>5, SameCalls
<1>9. ASSUME Return(t) PROVE Calling
  BY <1>9, Returns
<1>10. ASSUME Throw(t) PROVE Goal
  BY <1>10, <1>7, Throws
<1>11. ASSUME NEW p, NEW b, PinThrows(t, p, b) PROVE Goal
  BY <1>10, <1>11 DEF PinThrows
<1>12. ASSUME NEW p, NEW r \in Rids, MoveTo(t, s, p, r), r[1] < NumBlocks' PROVE Scanning
  <2>1. r = <<r[1], r[2]>> /\ r[1] \in BlockNums /\ r[2] \in Slots \cup {-1}
    BY DEF Rids
  <2>2. ScansOnly(s) /\ scan'[s] = [tx |-> t, blk |-> r[1], slot |-> r[2]]
    BY <1>12, MovedTo
  <2> QED BY <1>12, <2>1, <2>2
<1>13. ASSUME NEW p, NEW b \in BlockNums, MoveTo(t, s, p, FirstOf(b)), b < NumBlocks'
       PROVE  Scanning
  <2>1. ScansOnly(s) /\ scan'[s] = [tx |-> t, blk |-> b, slot |-> -1]
    BY <1>13, MovedFirst
  <2> QED BY <1>13, <2>1
<1>14. ASSUME NEW k \in Slots \cup {-1}, scan' = [scan EXCEPT ![s].slot = k] PROVE Scanning
  <2>1. ScansOnly(s) /\ scan'[s].tx = scan[s].tx /\ scan'[s].blk = scan[s].blk
    BY <1>14, SlotSet
  <2> QED BY <1>2, <1>3, <1>5, <1>6, <2>1
<1>15. ASSUME NEW op, NEW pc, Goto(t, s, op, pc),
              \/ op \in {"next", "insert"} /\ pc \in {"search", "last"}
              \/ op = "insert" /\ pc = "flag"
              \/ op \in {"open", "insert"} /\ pc = "append"
       PROVE  Calling
  <2>1. CallsOnly(t) /\ call'[t] = [op |-> op, scan |-> s, at |-> pc]
    BY <1>15, Goes
  <2> QED BY <2>1
<1>16. Calling /\ Scanning => Goal
  OBVIOUS
<1> HIDE DEF Goal, Calling, Scanning
<1>17. CASE Open(t, s)
  <2>1. CASE NumBlocks = 0
    <3>1. Goto(t, s, "open", "append") /\ UNCHANGED scan
      BY <1>17, <2>1 DEF Open
    <3> QED BY <3>1, <1>7, <1>15, <1>16
  <2>2. CASE NumBlocks # 0
    <3>1. 0 \in BlockNums /\ 0 < NumBlocks'
      BY <1>2, <2>2
    <3>2. (MoveTo(t, s, pins, FirstOf(0)) /\ UNCHANGED call) \/ PinThrows(t, pins, 0)
      BY <1>17, <2>2 DEF Open
    <3> QED BY <3>1, <3>2, <1>8, <1>11, <1>13, <1>16
  <2> QED BY <2>1, <2>2
<1>18. CASE before_first(t, s)
  <2>1. scan[s].tx # None
    BY <1>18, <1>6 DEF before_first, Mine
  <2>2. 0 \in BlockNums /\ 0 < NumBlocks'
    BY <1>2, <1>3, <2>1
  <2>3. \/ MoveTo(t, s, Closed(t, s), FirstOf(0)) /\ UNCHANGED call
        \/ PinThrows(t, Closed(t, s), 0)
    BY <1>18 DEF before_first
  <2> QED BY <2>2, <2>3, <1>8, <1>11, <1>13, <1>16
<1>19. CASE \E r \in Rids : move_to_rid(t, s, r)
  <2>1. PICK r \in Rids : move_to_rid(t, s, r)
    BY <1>19
  <2>2. r[1] < NumBlocks'
    <3>1. r[1] < NumBlocks /\ r[1] \in BlockNums
      BY <2>1 DEF move_to_rid, InUse, Rids
    <3> QED BY <1>2, <3>1
  <2>3. \/ MoveTo(t, s, Closed(t, s), r) /\ UNCHANGED call
        \/ PinThrows(t, Closed(t, s), r[1])
    BY <2>1 DEF move_to_rid
  <2> QED BY <2>2, <2>3, <1>8, <1>11, <1>12, <1>16
<1>20. CASE close(t, s)
  <2>1. scan' = [scan EXCEPT ![s] = NoScan] /\ UNCHANGED call
    BY <1>20 DEF close
  <2>2. ScansOnly(s) /\ scan'[s] = [tx |-> None, blk |-> 0, slot |-> -1]
    BY <2>1, Dropped
  <2>3. Scanning
    BY <2>2, <1>6 DEF Scanning
  <2> QED BY <2>1, <2>3, <1>8, <1>16
<1>21. CASE next_after(t, s)
  <2> DEFINE k == FirstSlot(Candidates(s, used))
  <2>1. k \in Slots \cup {-1}
    BY CandidateSlots
  <2>2. scan' = [scan EXCEPT ![s].slot = k] /\ (Goto(t, s, "next", "last") \/ Return(t))
    BY <1>21 DEF next_after
  <2> HIDE DEF k
  <2>3. Calling
    BY <2>2, <1>9, <1>15
  <2>4. Scanning
    BY <2>1, <2>2, <1>14
  <2> QED BY <2>3, <2>4, <1>16
<1>22. CASE insert_after(t, s)
  <2>1. CASE Candidates(s, empty) = {}
    <3>1. Goto(t, s, "insert", "last") /\ scan' = [scan EXCEPT ![s].slot = -1]
      BY <1>22, <2>1 DEF insert_after
    <3> QED BY <3>1, <1>14, <1>15, <1>16
  <2>2. CASE Candidates(s, empty) # {}
    <3>1. Goto(t, s, "insert", "flag") /\ UNCHANGED scan
      BY <1>22, <2>2 DEF insert_after
    <3> QED BY <3>1, <1>7, <1>15, <1>16
  <2> QED BY <2>1, <2>2
<1>23. CASE set_flag(t, s)
  <2> DEFINE k == FirstSlot(Candidates(s, empty))
  <2>1. k \in Slots \cup {-1}
    BY CandidateSlots
  <2>2. scan' = [scan EXCEPT ![s].slot = k] /\ Return(t)
    BY <1>23 DEF set_flag
  <2> HIDE DEF k
  <2>3. Scanning
    BY <2>1, <2>2, <1>14
  <2> QED BY <2>2, <2>3, <1>9, <1>16
<1>24. ASSUME NEW op \in {"next", "insert"}, at_last_block(t, s, op) PROVE Goal
  <2>1. CASE AtLastBlock(s) /\ op = "next"
    <3>1. Return(t) /\ UNCHANGED scan
      BY <1>24, <2>1 DEF at_last_block
    <3> QED BY <3>1, <1>7, <1>9, <1>16
  <2>2. CASE AtLastBlock(s) /\ op = "insert"
    <3>1. Goto(t, s, op, "append") /\ UNCHANGED scan
      BY <1>24, <2>2 DEF at_last_block
    <3> QED BY <3>1, <2>2, <1>7, <1>15, <1>16
  <2>3. CASE ~AtLastBlock(s)
    <3>1. \/ MoveTo(t, s, Closed(t, s), FirstOf(scan[s].blk + 1)) /\ Goto(t, s, op, "search")
          \/ PinThrows(t, Closed(t, s), scan[s].blk + 1)
      BY <1>24, <2>3 DEF at_last_block
    <3>2. scan[s].blk < NumBlocks /\ scan[s].blk # NumBlocks - 1
      <4>1. scan[s].tx # None
        BY <1>24, <1>6, InScan DEF at_last_block, Calls, CallOf
      <4> QED BY <4>1, <1>3, <2>3 DEF AtLastBlock
    <3>3. scan[s].blk + 1 \in BlockNums /\ scan[s].blk + 1 < NumBlocks'
      BY <1>2, <3>2
    <3> QED BY <3>1, <3>3, <1>11, <1>13, <1>15, <1>16
  <2> QED BY <2>1, <2>2, <2>3
<1>25. ASSUME NEW op \in {"open", "insert"}, append(t, s, op) PROVE Goal
  <2>1. NumBlocks \in BlockNums /\ NumBlocks < NumBlocks'
    <3>1. NumBlocks < MaxBlocks /\ file' = Append(file, Formatted)
      BY <1>25 DEF append
    <3>2. Len(file') = Len(file) + 1
      BY <3>1 DEF Types
    <3> QED BY <1>2, <3>1, <3>2 DEF NumBlocks
  <2>2. \/ /\ MoveTo(t, s, pins, FirstOf(NumBlocks))
           /\ (Goto(t, s, op, "search") /\ op = "insert") \/ Return(t)
        \/ PinThrows(t, pins, NumBlocks)
    BY <1>25 DEF append
  <2> QED BY <2>1, <2>2, <1>9, <1>11, <1>13, <1>15, <1>16
<1>26. CASE get_val(t, s) \/ remove(t, s) \/ \E v \in Vals : set_val(t, s, v)
  <2>1. UNCHANGED <<call, scan>>
    BY <1>26 DEF get_val, remove, set_val
  <2> QED BY <2>1, <1>7, <1>8, <1>16
<1> QED BY <1>17, <1>18, <1>19, <1>20, <1>21, <1>22, <1>23, <1>24, <1>25, <1>26 DEF ScanAct

-----------------------------------------------------------------------------
(* The other transactions.                                                 *)

(* A step of t leaves alone the calls, the scans and the passes of others. *)
Frame(t) ==
  /\ \A u \in Txs \ {t} : call'[u] = call[u] /\ pins'[u] = pins[u]
  /\ \A q \in Scans : scan'[q] # scan[q] => scan[q].tx \in {t, None} /\ scan'[q].tx \in {t, None}
  /\ \A q \in Scans : pass'[q] # pass[q] => pass'[q].tx \in {t, None}
  /\ \A q \in Scans, u \in Txs \ {t} :
       call[u].scan = q => /\ scan'[q] = scan[q] /\ call'[t].scan # q
                           /\ pass'[q].tx \in {pass[q].tx, None}

(* What is behind a scan.                                                  *)
Through(q) == scan[q].tx # None /\ In(scan[q].tx, q, "next", "last")

(* Behind, with the thread's position in one operator.                     *)
LEMMA BehindIs ==
  ASSUME NEW q \in Scans
  PROVE  Behind(q) = {r \in Rids : \/ pass[q].ended
                                   \/ r[1] < scan[q].blk
                                   \/ r[1] = scan[q].blk /\ (Through(q) \/ r[2] <= scan[q].slot)}
BY DEF Behind, Through

(* The same after the step.                                                *)
LEMMA BehindWas ==
  ASSUME NEW q \in Scans
  PROVE  Behind(q)' = {r \in Rids : \/ pass'[q].ended
                                    \/ r[1] < scan'[q].blk
                                    \/ r[1] = scan'[q].blk /\ (Through(q)' \/ r[2] <= scan'[q].slot)}
BY DEF Behind, Through

(* A scan that stays leaves the same records behind.                       *)
LEMMA SameBehind ==
  ASSUME NEW q \in Scans, pass'[q].ended = pass[q].ended,
         pass[q].ended \/ (scan'[q] = scan[q] /\ Through(q)' = Through(q))
  PROVE  Behind(q)' = Behind(q)
BY BehindIs, BehindWas

(* The records of a block that does not change.                            *)
LEMMA SameRecord ==
  ASSUME NEW r \in Rids, file'[r[1] + 1] = file[r[1] + 1]
  PROVE  At(r)' = At(r)
BY DEF At

(* The passes of other transactions: their locks keep what is behind them. *)
LEMMA OthersPasses ==
  ASSUME TableAssumption, Types, Types', Positions, Passes, NEW t \in Txs,
         LocksOnly(t), FileOnly(t), Frame(t), NEW q \in Scans, pass'[q].tx \notin {t, None}
  PROVE  PassOf(q)'
<1>1. pass'[q] = pass[q]
  BY DEF Frame
<1>2. PICK u \in Txs : u = pass[q].tx /\ u # t /\ u # None
  BY <1>1 DEF Types, PassState
<1>3. call'[u] = call[u] /\ locks'[u] = locks[u]
  BY <1>2 DEF Frame, LocksOnly
<1>4. ~pass[q].ended => scan[q].tx = u /\ scan'[q] = scan[q] /\ scan[q].blk < NumBlocks
  BY <1>2 DEF Positions, ScanOf, Frame
<1>5. ~pass[q].ended => Through(q)' = Through(q)
  <2>1. scan[q].tx = u /\ scan'[q].tx = u => (Through(q)' <=> Through(q))
    BY <1>2, <1>3, Zenon DEF Through, In
  <2> QED BY <1>4, <2>1 DEF Through
<1>6. Behind(q)' = Behind(q)
  BY <1>1, <1>4, <1>5, SameBehind
<1>7. SUFFICES ASSUME Running(u)'
               PROVE  /\ \A r \in Behind(q) : r[1] < NumBlocks' => locks[u][r[1]] # "none"
                      /\ pass[q].ended => locks[u][mEndOfFile] # "none"
                      /\ pass[q].known = InUse' \cap Behind(q)
                      /\ ~pass[q].twice
  <2>1. pass'[q].tx = u
    BY <1>1, <1>2
  <2> QED BY <1>1, <1>2, <1>3, <1>6, <2>1 DEF PassOf
<1>8. /\ \A r \in Behind(q) : r[1] < NumBlocks => locks[u][r[1]] # "none"
      /\ pass[q].ended => locks[u][mEndOfFile] # "none"
      /\ pass[q].known = InUse \cap Behind(q)
      /\ ~pass[q].twice
  <2>1. Running(u)
    BY <1>3, <1>7 DEF Running
  <2> QED BY <1>2, <2>1 DEF Passes, PassOf
<1>9. \A r \in Behind(q) : r \in Rids /\ r[1] \in BlockNums /\ r[1] \in Nat /\ r[1] \in Lockable
  BY Blocks DEF Behind, Rids, BlockNums
<1>10. \A b \in Lockable : locks[u][b] # "none" => locks'[t][b] # "x"
  BY <1>2, <1>3 DEF LocksOnly, Exclusion
<1>11. pass[q].ended => NumBlocks' = NumBlocks
  BY <1>8, <1>10, Blocks DEF FileOnly
<1>12. \A r \in Behind(q) : r[1] < NumBlocks' => r[1] < NumBlocks
  <2>1. CASE pass[q].ended
    BY <1>11, <2>1
  <2>2. CASE ~pass[q].ended
    <3>1. \A r \in Behind(q) : r[1] <= scan[q].blk
      BY <1>9, <2>2, BehindIs, Blocks DEF BlockNums
    <3>2. scan[q].blk \in Nat /\ NumBlocks \in Nat
      BY Blocks DEF BlockNums
    <3> QED BY <1>4, <1>9, <2>2, <3>1, <3>2
  <2> QED BY <2>1, <2>2
<1>13. \A r \in Behind(q) : r[1] < NumBlocks => At(r)' = At(r)
  <2> SUFFICES ASSUME NEW r \in Behind(q), r[1] < NumBlocks PROVE At(r)' = At(r)
    OBVIOUS
  <2>1. file'[r[1] + 1] = file[r[1] + 1]
    BY <1>8, <1>9, <1>10 DEF FileOnly
  <2> QED BY <1>9, <2>1, SameRecord
<1>14. \A r \in Behind(q) : r \in InUse' <=> r \in InUse
  <2>1. NumBlocks \in Nat /\ NumBlocks' \in Nat /\ NumBlocks <= NumBlocks'
    BY Blocks DEF FileOnly, NumBlocks
  <2>2. \A r \in Behind(q) : r[1] < NumBlocks' <=> r[1] < NumBlocks
    BY <1>9, <1>12, <2>1
  <2> QED BY <1>9, <1>13, <2>2 DEF InUse
<1> QED BY <1>8, <1>12, <1>14

(* The calls of other transactions: what they have found stays there.      *)
LEMMA OthersCalls ==
  ASSUME TableAssumption, Types, Calls, Positions, NEW t \in Txs,
         LocksOnly(t), FileOnly(t), Frame(t),
         NEW u \in Txs \ {t}
  PROVE  CallOf(u)'
<1> SUFFICES ASSUME NEW s \in Scans, call[u].scan = s
             PROVE  /\ \A v \in Txs : call'[v].scan = s => v = u
                    /\ call[u].op = "open" =>
                         scan[s].tx = None /\ NumBlocks' = 0 /\ locks[u][mEndOfFile] # "none"
                    /\ call[u].op # "open" => scan[s].tx = u
                    /\ call[u].op # "next" => pass'[s].tx = None
                    /\ call[u].at = "flag" =>
                         Candidates(s, empty)' # {} /\ locks[u][scan[s].blk] # "none"
  <2>1. call'[u] = call[u] /\ locks'[u] = locks[u]
    BY DEF Frame, LocksOnly
  <2>2. \A s \in Scans : call[u].scan = s => scan'[s] = scan[s]
    BY DEF Frame
  <2> QED BY <2>1, <2>2 DEF CallOf
<1>1. /\ \A v \in Txs : call[v].scan = s => v = u
      /\ call[u].op = "open" =>
           scan[s].tx = None /\ NumBlocks = 0 /\ locks[u][mEndOfFile] # "none"
      /\ call[u].op # "open" => scan[s].tx = u
      /\ call[u].op # "next" => pass[s].tx = None
      /\ call[u].at = "flag" =>
           Candidates(s, empty) # {} /\ locks[u][scan[s].blk] # "none"
  BY DEF Calls, CallOf
<1>2. scan'[s] = scan[s] /\ call'[t].scan # s /\ pass'[s].tx \in {pass[s].tx, None}
  BY DEF Frame
<1>3. \A b \in Lockable : locks[u][b] # "none" => locks'[t][b] # "x"
  BY DEF LocksOnly, Exclusion
<1>4. \A v \in Txs : call'[v].scan = s => v = u
  BY <1>1, <1>2 DEF Frame
<1>5. call[u].op = "open" => NumBlocks' = 0
  BY <1>1, <1>3, Blocks DEF FileOnly
<1>6. ASSUME call[u].at = "flag" PROVE Candidates(s, empty)' # {}
  <2>1. locks'[t][scan[s].blk] # "x"
    BY <1>1, <1>3, <1>6, Blocks
  <2>2. scan[s].tx # None
    <3>1. call[u].op # "open"
      BY <1>6, InCall DEF TableAssumption
    <3> QED BY <1>1, <3>1 DEF TableAssumption
  <2>3. scan[s].blk < NumBlocks /\ scan[s].blk \in BlockNums
    BY <2>2, Blocks DEF Positions, ScanOf
  <2>4. Candidates(s, empty)' = Candidates(s, empty)
    <3>1. file'[scan[s].blk + 1] = file[scan[s].blk + 1]
      BY <2>1, <2>3 DEF FileOnly
    <3> QED BY <1>2, <3>1 DEF Candidates
  <2> QED BY <1>1, <1>6, <2>4
<1> QED BY <1>1, <1>2, <1>4, <1>5, <1>6

(* Which scans count for the pins of t on block b.                         *)
PinnedScans(t, b) == {s \in Scans : /\ scan[s].tx = t /\ scan[s].blk = b
                                    /\ ~In(t, s, "insert", "append")}
PinsOf(t) == Running(t) => \A b \in BlockNums : pins[t][b] = Cardinality(PinnedScans(t, b))

(* The pins of other transactions.                                         *)
LEMMA OthersPins ==
  ASSUME TableAssumption, Types, NEW t \in Txs, Frame(t), NEW u \in Txs \ {t}, PinsOf(u)
  PROVE  PinsOf(u)'
<1>1. call'[u] = call[u] /\ pins'[u] = pins[u]
  BY DEF Frame
<1>2. u # t /\ u # None
  BY DEF TableAssumption
<1>3. \A b \in BlockNums : PinnedScans(u, b)' = PinnedScans(u, b)
  BY <1>1, <1>2 DEF PinnedScans, In, Frame
<1> QED BY <1>1, <1>3 DEF PinsOf, Running

(* The logs of other transactions.                                         *)
LEMMA OthersLogs ==
  ASSUME TableAssumption, Types, NEW t \in Txs, Frame(t), LocksOnly(t), LogOnly(t), FileOnly(t),
         NEW u \in Txs \ {t}, LogOf(u)
  PROVE  LogOf(u)'
<1>1. call'[u] = call[u] /\ log'[u] = log[u] /\ locks'[u] = locks[u]
  BY DEF Frame, LocksOnly, LogOnly
<1>2. NumBlocks \in Nat /\ NumBlocks' \in Nat /\ NumBlocks <= NumBlocks'
  BY Blocks DEF FileOnly, NumBlocks
<1>3. \A i \in 1 .. Len(log[u]) : log[u][i].rid[1] \in Nat
  BY DEF Types, UndoRec, Rids, BlockNums
<1> QED BY <1>1, <1>2, <1>3 DEF LogOf

(* Nobody else is in a call on the scan.                                   *)
LEMMA Alone ==
  ASSUME TableAssumption, Calls, NEW t \in Txs, NEW s \in Scans, Works(t, s)
  PROVE  \A u \in Txs \ {t} : call[u].scan # s
BY DEF TableAssumption, Works, Calls, CallOf

(* What a step of t on s does to the passes.                               *)
PassOnly(t, s) ==
  /\ pass' \in [Scans -> PassState]
  /\ \A q \in Scans \ {s} :
       /\ pass'[q].tx = pass[q].tx /\ pass'[q].ended = pass[q].ended
       /\ pass'[q].twice = pass[q].twice /\ (pass[q].tx # t => pass'[q] = pass[q])
  /\ pass'[s] = pass[s] \/ pass'[s].tx \in {t, None}

(* A step on a scan leaves the others' alone.                              *)
LEMMA ScanFrame ==
  ASSUME TableAssumption, Types, Calls, NEW t \in Txs, NEW s \in Scans,
         Works(t, s), ScanOnly(t, s), PassOnly(t, s),
         \A u \in Txs \ {t} : pins'[u] = pins[u]
  PROVE  Frame(t)
<1>1. \A u \in Txs \ {t} : call[u].scan # s
  BY Alone
<1>2. \A q \in Scans : q # None
  BY DEF TableAssumption
<1>3. \A u \in Txs \ {t}, q \in Scans :
        call[u].scan = q => /\ scan'[q] = scan[q] /\ call'[t].scan # q
                            /\ pass'[q].tx \in {pass[q].tx, None}
  BY <1>1, <1>2, CallStates DEF ScanOnly, PassOnly
<1>4. \A q \in Scans : scan'[q] # scan[q] => scan[q].tx \in {t, None} /\ scan'[q].tx \in {t, None}
  BY DEF Works, ScanOnly
<1>5. \A q \in Scans : pass'[q] # pass[q] => pass'[q].tx \in {t, None}
  BY DEF PassOnly
<1>6. \A u \in Txs \ {t} : call'[u] = call[u]
  BY DEF ScanOnly
<1> QED BY <1>3, <1>4, <1>5, <1>6 DEF Frame

(* A pass of t that stays as it is, or gains or loses the record that t    *)
(* inserts or removes.                                                     *)
LEMMA KeepsPass ==
  ASSUME TableAssumption, Types, Positions, Passes, NEW t \in Txs, FileOnly(t), Grown(t),
         Running(t), NEW q \in Scans,
         pass[q].tx = t, pass'[q].tx = t, pass'[q].ended = pass[q].ended,
         pass'[q].twice = pass[q].twice,
         pass[q].ended \/ scan'[q] = scan[q],
         call[t].scan # q, call'[t].scan # q,
         \A b \in BlockNums : NumBlocks <= b /\ b < NumBlocks' => locks'[t][b] # "none",
         pass[q].known = InUse \cap Behind(q) => pass'[q].known = InUse' \cap Behind(q)
  PROVE  PassOf(q)' /\ Behind(q)' = Behind(q)
<1>1. /\ \A r \in Behind(q) : r[1] < NumBlocks => locks[t][r[1]] # "none"
      /\ pass[q].ended => locks[t][mEndOfFile] # "none"
      /\ pass[q].known = InUse \cap Behind(q)
      /\ ~pass[q].twice
  BY DEF Passes, PassOf, TableAssumption
<1>2. ~pass[q].ended => Through(q) = FALSE /\ Through(q)' = FALSE
  <2>1. ~pass[q].ended => scan[q].tx = t /\ scan'[q].tx = t
    BY DEF Positions, ScanOf, TableAssumption
  <2>2. ~In(t, q, "next", "last") /\ ~In(t, q, "next", "last")'
    BY DEF In
  <2> QED BY <2>1, <2>2, Zenon DEF Through
<1>3. Behind(q)' = Behind(q)
  BY <1>2, SameBehind
<1>4. \A r \in Behind(q) : r[1] \in BlockNums /\ r[1] \in Lockable
  BY Blocks DEF Behind, Rids
<1>5. \A r \in Behind(q) : r[1] < NumBlocks' => locks'[t][r[1]] # "none"
  <2>1. NumBlocks \in Nat /\ NumBlocks' \in Nat /\ \A b \in BlockNums : b \in Nat
    BY Blocks DEF FileOnly, NumBlocks, BlockNums
  <2> QED BY <1>1, <1>4, <2>1 DEF Grown
<1>6. pass[q].ended => locks'[t][mEndOfFile] # "none"
  BY <1>1, Blocks DEF Grown
<1>7. pass'[q].known = InUse' \cap Behind(q) /\ ~pass'[q].twice
  BY <1>1
<1> QED BY <1>3, <1>5, <1>6, <1>7 DEF PassOf

(* A pass that starts.                                                     *)
LEMMA StartsPass ==
  ASSUME TableAssumption, NEW t \in Txs, NEW s \in Scans,
         pass'[s] = NewPass(t), scan'[s] = [tx |-> t, blk |-> 0, slot |-> -1],
         ~In(t, s, "next", "last")'
  PROVE  PassOf(s)'
<1>1. pass'[s] = [tx |-> t, known |-> {}, ended |-> FALSE, twice |-> FALSE]
  BY DEF NewPass, NoPass
<1>2. Through(s)' = FALSE
  <2>1. scan'[s].tx = t
    OBVIOUS
  <2> QED BY <2>1, Zenon DEF Through
<1>3. Behind(s)' = {}
  <2>1. \A r \in Rids : ~(r[1] < 0) /\ ~(r[2] <= -1)
    BY DEF Rids, BlockNums, Slots
  <2> QED BY <1>1, <1>2, <2>1, BehindWas
<1> QED BY <1>1, <1>3 DEF PassOf

-----------------------------------------------------------------------------
(* The scans, the passes and the call of the transaction that works.       *)

Inv == Types /\ Exclusion /\ Calls /\ Positions /\ Passes

(* What all steps of t on s have in common.                                *)
StepOn(t, s) ==
  /\ Works(t, s) /\ LocksOnly(t) /\ Grown(t) /\ FileOnly(t) /\ ScanOnly(t, s)

Own(t, s) ==
  /\ PassOnly(t, s) /\ ScanOf(s)' /\ CallOf(t)'
  /\ Running(t)' => \A q \in Scans : pass'[q].tx = t => PassOf(q)'

(* A thread that uses a scan is not in a rollback.                         *)
LEMMA WorksRuns ==
  ASSUME TableAssumption, Types, NEW t \in Txs, NEW s \in Scans, Works(t, s)
  PROVE  Running(t) /\ t # None /\ s # None
<1>1. t # None /\ s # None
  BY DEF TableAssumption
<1>2. CASE call[t] = Idle
  BY <1>1, <1>2, CallStates DEF Running
<1>3. CASE call[t].scan = s
  <2>1. call[t].op \in {"open", "next", "insert"}
    BY <1>1, <1>3, InCall
  <2> QED BY <1>1, <2>1 DEF Running
<1> QED BY <1>1, <1>2, <1>3 DEF Works

(* The records, if the file stays as it is.                                *)
LEMMA SameInUse ==
  ASSUME UNCHANGED file
  PROVE  InUse' = InUse /\ NumBlocks' = NumBlocks
BY DEF InUse, At, NumBlocks

(* A step that no pass notices.                                            *)
LEMMA PassSame ==
  ASSUME Types, NEW t, NEW s, UNCHANGED pass
  PROVE  PassOnly(t, s)
BY DEF Types, PassOnly

(* A step that ends the pass of s.                                         *)
LEMMA PassBroken ==
  ASSUME TableAssumption, Types, NEW t \in Txs, NEW s \in Scans, pass' = Broken(s)
  PROVE  /\ PassOnly(t, s) /\ pass'[s].tx = None
         /\ \A q \in Scans \ {s} : pass'[q] = pass[q]
<1>1. NoPass \in PassState /\ NoPass.tx = None
  BY DEF NoPass, PassState
<1> QED BY <1>1 DEF Types, PassOnly, Broken

(* A step that starts a pass of s.                                         *)
LEMMA PassNew ==
  ASSUME TableAssumption, Types, NEW t \in Txs, NEW s \in Scans,
         pass' = [pass EXCEPT ![s] = NewPass(t)]
  PROVE  /\ PassOnly(t, s) /\ pass'[s] = NewPass(t) /\ pass'[s].tx = t
         /\ \A q \in Scans \ {s} : pass'[q] = pass[q]
<1>1. NewPass(t) \in PassState /\ NewPass(t).tx = t
  BY DEF NewPass, NoPass, PassState
<1> QED BY <1>1 DEF Types, PassOnly

(* The passes of the other scans of t, if nothing is inserted or removed.  *)
LEMMA QuietPasses ==
  ASSUME TableAssumption, Inv, NEW t \in Txs, NEW s \in Scans, StepOn(t, s), InUse' = InUse,
         \A b \in BlockNums : NumBlocks <= b /\ b < NumBlocks' => locks'[t][b] # "none",
         \A q \in Scans \ {s} : pass'[q] = pass[q]
  PROVE  \A q \in Scans \ {s} : pass'[q].tx = t => PassOf(q)'
<1> SUFFICES ASSUME NEW q \in Scans \ {s}, pass'[q].tx = t PROVE PassOf(q)'
  OBVIOUS
<1>1. Types /\ Positions /\ Passes /\ FileOnly(t) /\ Grown(t) /\ Running(t)
  BY WorksRuns DEF Inv, StepOn
<1>2. scan'[q] = scan[q] /\ call[t].scan # q /\ call'[t].scan # q
  BY CallStates DEF StepOn, ScanOnly, Works, TableAssumption
<1> QED BY <1>1, <1>2, KeepsPass

(* The call of t after the step.                                           *)
LEMMA CallEnds ==
  ASSUME TableAssumption, NEW t \in Txs, call'[t].scan = None
  PROVE  CallOf(t)'
BY DEF TableAssumption, CallOf

(* The call goes on with its scan.                                         *)
LEMMA CallGoesOn ==
  ASSUME TableAssumption, Inv, NEW t \in Txs, NEW s \in Scans, StepOn(t, s),
         call'[t].scan = s, call'[t].op # "open", scan'[s].tx = t,
         call'[t].op = "next" \/ pass'[s].tx = None,
         call'[t].at # "flag"
  PROVE  CallOf(t)'
<1>1. \A u \in Txs \ {t} : call'[u].scan # s
  BY Alone DEF StepOn, ScanOnly, Inv
<1> QED BY <1>1 DEF CallOf

(* The scan after the step.                                                *)
LEMMA ScanStays ==
  ASSUME NEW t \in Txs, NEW s \in Scans, ScanOnly(t, s),
         pass'[s].tx \in {None, scan'[s].tx} \/ pass'[s].ended
  PROVE  ScanOf(s)'
BY DEF ScanOf, ScanOnly

(* A call that throws.                                                     *)
LEMMA OwnThrows ==
  ASSUME TableAssumption, Inv, NEW t \in Txs, NEW s \in Scans, StepOn(t, s), Throw(t)
  PROVE  Own(t, s)
<1>1. call'[t] = Failed /\ UNCHANGED <<scan, pass>>
  BY Throws DEF Inv
<1>2. PassOnly(t, s) /\ CallOf(t)' /\ ~Running(t)'
  BY <1>1, CallStates, CallEnds, PassSame DEF Inv, Running
<1>3. ScanOf(s)'
  BY <1>1, ScanStays DEF StepOn, Inv, Positions, ScanOf
<1> QED BY <1>2, <1>3 DEF Own

(* A pin that throws is a call that throws.                                *)
LEMMA PinThrown ==
  ASSUME NEW t, NEW p, NEW b, PinThrows(t, p, b)
  PROVE  Throw(t)
BY DEF PinThrows

(* A step that neither moves the scan nor touches a pass.                  *)
LEMMA OwnQuiet ==
  ASSUME TableAssumption, Inv, NEW t \in Txs, NEW s \in Scans, StepOn(t, s),
         InUse' = InUse, NumBlocks' = NumBlocks, UNCHANGED pass,
         scan'[s] = scan[s] \/ pass[s].ended, call[t] = Idle, UNCHANGED call
  PROVE  Own(t, s)
<1>1. call'[t].scan = None
  BY CallStates
<1>2. PassOnly(t, s) /\ CallOf(t)'
  BY <1>1, CallEnds, PassSame DEF Inv
<1>3. ScanOf(s)'
  BY ScanStays DEF StepOn, Inv, Positions, ScanOf
<1>4. \A b \in BlockNums : NumBlocks <= b /\ b < NumBlocks' => locks'[t][b] # "none"
  BY Blocks DEF Inv, BlockNums
<1>5. ASSUME NEW q \in Scans, pass'[q].tx = t PROVE PassOf(q)'
  <2>1. CASE q # s
    BY <1>4, <1>5, <2>1, QuietPasses
  <2>2. CASE q = s
    <3>1. Types /\ Positions /\ Passes /\ FileOnly(t) /\ Grown(t) /\ Running(t) /\ s # None
      BY WorksRuns DEF Inv, StepOn
    <3>2. call[t].scan # q /\ call'[t].scan # q
      BY <3>1, <2>2, <1>1
    <3> QED BY <1>4, <1>5, <2>2, <3>1, <3>2, KeepsPass
  <2> QED BY <2>1, <2>2
<1> QED BY <1>2, <1>3, <1>5 DEF Own

(* get_val.                                                                *)
LEMMA OwnGetVal ==
  ASSUME TableAssumption, Inv, NEW t \in Txs, NEW s \in Scans, StepOn(t, s), get_val(t, s)
  PROVE  Own(t, s)
<1>1. UNCHANGED <<file, call, scan, pass>> /\ call[t] = Idle
  BY DEF get_val, OnRecord, Mine
<1> QED BY <1>1, SameInUse, OwnQuiet

(* close: the caller of a pass that has ended may still use what it knows. *)
LEMMA OwnClose ==
  ASSUME TableAssumption, Inv, NEW t \in Txs, NEW s \in Scans, StepOn(t, s), close(t, s)
  PROVE  Own(t, s)
<1>1. UNCHANGED <<file, call>> /\ call[t] = Idle
  BY DEF close, Mine
<1>2. CASE pass[s].ended
  <2>1. UNCHANGED pass
    BY <1>2 DEF close
  <2> QED BY <1>1, <1>2, <2>1, SameInUse, OwnQuiet
<1>3. CASE ~pass[s].ended
  <2>1. PassOnly(t, s) /\ pass'[s].tx = None /\ \A q \in Scans \ {s} : pass'[q] = pass[q]
    BY <1>3, PassBroken DEF close, Inv
  <2>2. CallOf(t)'
    BY <1>1, CallStates, CallEnds
  <2>3. ScanOf(s)'
    BY <2>1, ScanStays DEF StepOn
  <2>4. \A b \in BlockNums : NumBlocks <= b /\ b < NumBlocks' => locks'[t][b] # "none"
    BY <1>1, SameInUse, Blocks DEF Inv, BlockNums
  <2>5. \A q \in Scans : pass'[q].tx = t => PassOf(q)'
    BY <1>1, <2>1, <2>4, SameInUse, QuietPasses DEF TableAssumption
  <2> QED BY <2>1, <2>2, <2>3, <2>5 DEF Own
<1> QED BY <1>2, <1>3

(* A scan put before the first record.                                     *)
LEMMA OwnRestart ==
  ASSUME TableAssumption, Inv, NEW t \in Txs, NEW s \in Scans, StepOn(t, s),
         UNCHANGED <<file, call>>, call[t] = Idle, NEW p, MoveTo(t, s, p, FirstOf(0)),
         pass' = [pass EXCEPT ![s] = NewPass(t)]
  PROVE  Own(t, s)
<1>1. /\ PassOnly(t, s) /\ pass'[s] = NewPass(t) /\ pass'[s].tx = t
      /\ \A q \in Scans \ {s} : pass'[q] = pass[q]
  BY PassNew DEF Inv
<1>2. scan'[s] = [tx |-> t, blk |-> 0, slot |-> -1]
  <2>1. 0 \in BlockNums
    BY DEF TableAssumption, BlockNums
  <2> QED BY <2>1, MovedFirst DEF Inv
<1>3. call'[t].scan = None /\ s # None
  BY CallStates DEF TableAssumption
<1>4. ScanOf(s)'
  BY <1>1, <1>2, ScanStays DEF StepOn
<1>5. \A b \in BlockNums : NumBlocks <= b /\ b < NumBlocks' => locks'[t][b] # "none"
  BY SameInUse, Blocks DEF Inv, BlockNums
<1>6. \A q \in Scans \ {s} : pass'[q].tx = t => PassOf(q)'
  BY <1>1, <1>5, SameInUse, QuietPasses
<1>7. PassOf(s)'
  <2>1. ~In(t, s, "next", "last")'
    BY <1>3 DEF In
  <2> QED BY <1>1, <1>2, <2>1, StartsPass
<1> QED BY <1>1, <1>3, <1>4, <1>6, <1>7, CallEnds DEF Own

(* before_first.                                                           *)
LEMMA OwnBeforeFirst ==
  ASSUME TableAssumption, Inv, NEW t \in Txs, NEW s \in Scans, StepOn(t, s), before_first(t, s)
  PROVE  Own(t, s)
<1>1. UNCHANGED file /\ call[t] = Idle
  BY DEF before_first, Mine
<1>2. \/ /\ MoveTo(t, s, Closed(t, s), FirstOf(0))
         /\ pass' = [pass EXCEPT ![s] = NewPass(t)] /\ UNCHANGED call
      \/ Throw(t)
  BY PinThrown DEF before_first
<1> QED BY <1>1, <1>2, OwnRestart, OwnThrows

(* A step that gives up the pass of the scan.                              *)
LEMMA OwnBroken ==
  ASSUME TableAssumption, Inv, NEW t \in Txs, NEW s \in Scans, StepOn(t, s),
         UNCHANGED file, pass' = Broken(s), CallOf(t)' \/ call'[t].scan = None
  PROVE  Own(t, s)
<1>1. PassOnly(t, s) /\ pass'[s].tx = None /\ \A q \in Scans \ {s} : pass'[q] = pass[q]
  BY PassBroken DEF Inv
<1>2. CallOf(t)'
  BY CallEnds
<1>3. ScanOf(s)'
  BY <1>1, ScanStays DEF StepOn
<1>4. \A b \in BlockNums : NumBlocks <= b /\ b < NumBlocks' => locks'[t][b] # "none"
  BY SameInUse, Blocks DEF Inv, BlockNums
<1>5. \A q \in Scans : pass'[q].tx = t => PassOf(q)'
  BY <1>1, <1>4, SameInUse, QuietPasses DEF TableAssumption
<1> QED BY <1>1, <1>2, <1>3, <1>5 DEF Own

(* move_to_rid.                                                            *)
LEMMA OwnMoveToRid ==
  ASSUME TableAssumption, Inv, NEW t \in Txs, NEW s \in Scans, StepOn(t, s),
         NEW r \in Rids, move_to_rid(t, s, r)
  PROVE  Own(t, s)
<1>1. UNCHANGED file /\ call[t] = Idle
  BY DEF move_to_rid, Mine
<1>2. (pass' = Broken(s) /\ UNCHANGED call) \/ Throw(t)
  BY PinThrown DEF move_to_rid
<1> QED BY <1>1, <1>2, OwnBroken, OwnThrows, CallStates

(* The constructor.                                                        *)
LEMMA OwnOpen ==
  ASSUME TableAssumption, Inv, NEW t \in Txs, NEW s \in Scans, StepOn(t, s), Open(t, s)
  PROVE  Own(t, s)
<1>1. UNCHANGED file /\ call[t] = Idle /\ scan[s].tx = None
  BY DEF Open
<1>2. CASE NumBlocks = 0
  <2>1. Goto(t, s, "open", "append") /\ pass' = Broken(s) /\ UNCHANGED scan
    BY <1>2 DEF Open
  <2>2. call'[t] = [op |-> "open", scan |-> s, at |-> "append"]
    BY <2>1, Goes DEF Inv
  <2>3. \A u \in Txs \ {t} : call'[u].scan # s
    BY Alone DEF StepOn, ScanOnly, Inv
  <2>4. locks'[t][mEndOfFile] # "none"
    BY SharedLock, Blocks DEF Inv, Open
  <2>5. pass'[s].tx = None
    BY <2>1, PassBroken DEF Inv
  <2>6. NumBlocks' = 0
    BY <1>1, <1>2, SameInUse
  <2>7. CallOf(t)'
    BY <1>1, <2>1, <2>2, <2>3, <2>4, <2>5, <2>6 DEF CallOf
  <2> QED BY <1>1, <2>1, <2>7, OwnBroken
<1>3. CASE NumBlocks # 0
  <2>1. \/ /\ MoveTo(t, s, pins, FirstOf(0))
           /\ pass' = [pass EXCEPT ![s] = NewPass(t)] /\ UNCHANGED call
        \/ Throw(t)
    BY <1>3, PinThrown DEF Open
  <2> QED BY <1>1, <2>1, OwnRestart, OwnThrows
<1> QED BY <1>2, <1>3

(* insert: the search for a slot.                                          *)
LEMMA OwnInsertAfter ==
  ASSUME TableAssumption, Inv, NEW t \in Txs, NEW s \in Scans, StepOn(t, s), insert_after(t, s)
  PROVE  Own(t, s)
<1>1. UNCHANGED file /\ pass' = Broken(s)
  BY DEF insert_after
<1>2. pass'[s].tx = None
  BY <1>1, PassBroken DEF Inv
<1>3. scan[s].tx = t
  <2>1. ASSUME In(t, s, "insert", "search") PROVE scan[s].tx = t
    BY <2>1, InScan DEF Inv, Calls, CallOf
  <2> QED BY <2>1 DEF insert_after, Mine
<1>4. CallOf(t)'
  <2>1. CASE Candidates(s, empty) = {}
    <3>1. Goto(t, s, "insert", "last") /\ scan' = [scan EXCEPT ![s].slot = -1]
      BY <2>1 DEF insert_after
    <3>2. call'[t] = [op |-> "insert", scan |-> s, at |-> "last"]
      BY <3>1, Goes DEF Inv
    <3>3. scan'[s].tx = t
      BY <1>3, <3>1, SlotSet DEF Inv
    <3> QED BY <1>2, <3>2, <3>3, CallGoesOn
  <2>2. CASE Candidates(s, empty) # {}
    <3>1. Goto(t, s, "insert", "flag") /\ UNCHANGED scan
      BY <2>2 DEF insert_after
    <3>2. call'[t] = [op |-> "insert", scan |-> s, at |-> "flag"]
      BY <3>1, Goes DEF Inv
    <3>3. \A u \in Txs \ {t} : call'[u].scan # s
      BY Alone DEF StepOn, ScanOnly, Inv
    <3>4. Candidates(s, empty)' = Candidates(s, empty)
      BY <1>1, <3>1 DEF Candidates
    <3>5. locks'[t][scan[s].blk] # "none"
      BY SharedLock, Blocks DEF Inv, insert_after
    <3> QED BY <1>2, <1>3, <2>2, <3>1, <3>2, <3>3, <3>4, <3>5 DEF CallOf
  <2> QED BY <2>1, <2>2
<1> QED BY <1>1, <1>4, OwnBroken

(* The slot that next finds ends what was behind the scan.                 *)
LEMMA OwnNextAfter ==
  ASSUME TableAssumption, Inv, NEW t \in Txs, NEW s \in Scans, StepOn(t, s), next_after(t, s)
  PROVE  Own(t, s)
<1> DEFINE K == Candidates(s, used)
           k == FirstSlot(K)
           b == scan[s].blk
<1>1. /\ UNCHANGED file /\ slock(t, b) /\ scan' = [scan EXCEPT ![s].slot = k]
      /\ IF k < 0 THEN Goto(t, s, "next", "last") ELSE Return(t)
      /\ pass' = IF pass[s].tx = None \/ pass[s].ended THEN Broken(s)
                 ELSE IF k < 0 THEN pass ELSE Returned(s, <<b, k>>)
  BY DEF next_after
<1>2. /\ k \in Slots \cup {-1} /\ (K = {} <=> k < 0) /\ (K # {} => k \in K)
      /\ \A j \in K : k <= j
  BY CandidateSlots DEF Inv
<1>3. scan[s].tx = t /\ ~In(t, s, "next", "last") /\ t # None /\ s # None
  <2>1. ASSUME In(t, s, "next", "search") PROVE scan[s].tx = t /\ ~In(t, s, "next", "last")
    BY <2>1, InScan DEF Inv, Calls, CallOf, In
  <2>2. ASSUME Mine(t, s) PROVE scan[s].tx = t /\ ~In(t, s, "next", "last")
    BY <2>2, CallStates DEF Mine, In, TableAssumption
  <2> QED BY <2>1, <2>2 DEF next_after, TableAssumption
<1>4. /\ b \in BlockNums /\ b \in Lockable /\ b < NumBlocks /\ NumBlocks' = NumBlocks
      /\ InUse' = InUse /\ locks'[t][b] # "none"
  BY <1>1, <1>3, Blocks, SharedLock, SameInUse DEF Inv, Positions, ScanOf
<1> HIDE DEF K, k, b
<1>5. /\ scan'[s].tx = t /\ scan'[s].blk = b /\ scan'[s].slot = k
  BY <1>1, <1>2, <1>3, SlotSet DEF Inv, b
<1>6. CallOf(t)' /\ (k < 0 <=> In(t, s, "next", "last")')
  <2>1. CASE k < 0
    <3>1. call'[t] = [op |-> "next", scan |-> s, at |-> "last"]
      BY <1>1, <2>1, Goes DEF Inv
    <3> QED BY <1>5, <2>1, <3>1, CallGoesOn DEF In
  <2>2. CASE ~(k < 0)
    <3>1. call'[t] = Idle
      BY <1>1, <2>2, Returns DEF Inv
    <3> QED BY <1>3, <2>2, <3>1, CallEnds, CallStates DEF In
  <2> QED BY <2>1, <2>2
<1>7. CASE pass[s].tx = None \/ pass[s].ended
  <2>1. pass' = Broken(s)
    BY <1>1, <1>7
  <2> QED BY <1>1, <1>6, <2>1, OwnBroken
<1>8. CASE pass[s].tx # None /\ ~pass[s].ended
  <2>1. pass' = IF k < 0 THEN pass ELSE Returned(s, <<b, k>>)
    BY <1>1, <1>8
  <2>2. pass[s].tx = t
    BY <1>3, <1>8 DEF Inv, Positions, ScanOf
  <2>3. pass \in [Scans -> PassState] /\ pass[s] \in PassState
    BY DEF Inv, Types
  <2>4. ~(k < 0) => <<b, k>> \in Rids
    BY <1>2, <1>4 DEF Rids, Slots
  <2>5. /\ PassOnly(t, s) /\ \A q \in Scans \ {s} : pass'[q] = pass[q]
        /\ pass'[s].tx = t /\ pass'[s].ended = FALSE
        /\ pass'[s].known = IF k < 0 THEN pass[s].known ELSE pass[s].known \cup {<<b, k>>}
        /\ pass'[s].twice = IF k < 0 THEN pass[s].twice
                            ELSE pass[s].twice \/ <<b, k>> \in pass[s].known
    BY <1>8, <2>1, <2>2, <2>3, <2>4 DEF PassOnly, Returned, PassState
  <2>6. ScanOf(s)'
    BY <1>5, <2>5, ScanStays DEF StepOn
  <2>7. \A q \in Scans \ {s} : pass'[q].tx = t => PassOf(q)'
    <3>1. \A c \in BlockNums : NumBlocks <= c /\ c < NumBlocks' => locks'[t][c] # "none"
      BY <1>4, Blocks DEF Inv, BlockNums
    <3> QED BY <1>4, <2>5, <3>1, QuietPasses
  <2>8. PassOf(s)'
    <3>1. /\ \A r \in Behind(s) : r[1] < NumBlocks => locks[t][r[1]] # "none"
          /\ pass[s].known = InUse \cap Behind(s) /\ ~pass[s].twice
      BY <1>3, <2>2, WorksRuns DEF Inv, Passes, PassOf, StepOn
    <3>2. ~Through(s) /\ (Through(s)' <=> k < 0)
      BY <1>3, <1>5, <1>6, Zenon DEF Through
    <3>3. \A r \in Rids : r \in Behind(s) <=> r[1] < b \/ (r[1] = b /\ r[2] <= scan[s].slot)
      <4>1. Behind(s) = {r \in Rids : \/ pass[s].ended
                                      \/ r[1] < scan[s].blk
                                      \/ r[1] = scan[s].blk /\ (Through(s) \/ r[2] <= scan[s].slot)}
        BY BehindIs
      <4> QED BY <1>8, <3>2, <4>1 DEF b
    <3>4. \A r \in Rids : r \in Behind(s)' <=> r[1] < b \/ (r[1] = b /\ (k < 0 \/ r[2] <= k))
      <4>1. Behind(s)' = {r \in Rids : \/ pass'[s].ended
                                       \/ r[1] < scan'[s].blk
                                       \/ r[1] = scan'[s].blk /\ (Through(s)' \/ r[2] <= scan'[s].slot)}
        BY BehindWas
      <4> QED BY <1>5, <2>5, <3>2, <4>1
    <3>0. Behind(s) \subseteq Rids /\ Behind(s)' \subseteq Rids
      BY DEF Behind
    <3>5. \A r \in Rids : r[1] = b => (r[2] \in K <=> r \in InUse /\ r[2] > scan[s].slot)
      BY <1>4 DEF K, Candidates, InUse, At, b, Rids
    <3>6. /\ \A r \in Rids : r[2] \in Nat /\ r[1] \in BlockNums /\ r[1] \in Lockable
          /\ scan[s].slot \in Int /\ k \in Int
          /\ k \in K => k > scan[s].slot
      BY <1>2, Blocks DEF Rids, Slots, Inv, Types, ScanState, K, Candidates
    <3>7. \A r \in Behind(s)' : r[1] < NumBlocks' => locks'[t][r[1]] # "none"
      <4> SUFFICES ASSUME NEW r \in Behind(s)', r[1] < NumBlocks, r[1] # b
                   PROVE  locks'[t][r[1]] # "none"
        BY <1>4
      <4>1. r \in Rids /\ r \in Behind(s)
        BY <3>0, <3>3, <3>4
      <4> QED BY <3>1, <3>6, <4>1 DEF StepOn, Grown
    <3>8. ~(k < 0) => <<b, k>> \in InUse /\ <<b, k>> \notin Behind(s)
      <4> SUFFICES ASSUME ~(k < 0) PROVE <<b, k>> \in InUse /\ <<b, k>> \notin Behind(s)
        OBVIOUS
      <4>1. <<b, k>>[1] = b /\ <<b, k>>[2] = k /\ k \in K /\ <<b, k>> \in Rids
        BY <1>2, <2>4
      <4>2. b \in Int /\ k > scan[s].slot
        BY <1>4, <3>6, <4>1 DEF BlockNums
      <4> QED BY <3>3, <3>5, <3>6, <4>1, <4>2
    <3>9. InUse \cap Behind(s)' = IF k < 0 THEN InUse \cap Behind(s)
                                  ELSE (InUse \cap Behind(s)) \cup {<<b, k>>}
      <4>1. CASE k < 0
        <5>1. \A r \in InUse : r \in Rids
          BY DEF InUse
        <5>2. \A r \in InUse : r \in Behind(s)' <=> r \in Behind(s)
          BY <1>2, <4>1, <5>1, <3>3, <3>4, <3>5, <3>6
        <5> QED BY <4>1, <5>2
      <4>2. CASE ~(k < 0)
        <5>1. \A r \in InUse : r \in Behind(s)' => r \in Behind(s) \/ r = <<b, k>>
          <6> SUFFICES ASSUME NEW r \in InUse, r \in Behind(s)', r \notin Behind(s)
                       PROVE  r = <<b, k>>
            OBVIOUS
          <6>1. r \in Rids
            BY DEF InUse
          <6>2. r[1] = b /\ r[2] <= k /\ r[2] > scan[s].slot
            BY <6>1, <4>2, <3>3, <3>4, <3>6
          <6>3. r[2] = k
            BY <6>1, <6>2, <3>5, <3>6, <1>2
          <6> QED BY <6>1, <6>2, <6>3 DEF Rids
        <5>2. <<b, k>> \in Behind(s)' /\ <<b, k>> \in InUse
          BY <4>2, <2>4, <3>4, <3>6, <3>8
        <5>3. Behind(s) \subseteq Behind(s)'
          BY <3>0, <3>3, <3>4, <3>6, <3>8, <4>2, <1>2
        <5> QED BY <4>2, <5>1, <5>2, <5>3
      <4> QED BY <4>1, <4>2
    <3> QED BY <1>4, <2>5, <3>1, <3>7, <3>8, <3>9 DEF PassOf
  <2> QED BY <1>6, <2>5, <2>6, <2>7, <2>8 DEF Own
<1> QED BY <1>7, <1>8

(* A field changes which slots are in use only if it is the flag.          *)
LEMMA InUseSet ==
  ASSUME NumBlocks' = NumBlocks, NEW r \in Rids, r[1] < NumBlocks, At(r) \in Slot,
         NEW fld \in {"flag", "val"}, NEW v,
         \A q \in Rids : q[1] < NumBlocks =>
           At(q)' = IF q = r THEN With(At(q), fld, v) ELSE At(q)
  PROVE  /\ fld = "val" => InUse' = InUse
         /\ fld = "flag" /\ v = used => InUse' = InUse \cup {r}
         /\ fld = "flag" /\ v = empty => InUse' = InUse \ {r}
<1>1. fld = "val" => With(At(r), fld, v).flag = At(r).flag
  BY DEF With, Slot
<1>2. fld = "flag" => With(At(r), fld, v).flag = v
  BY DEF With, Slot
<1>3. \A q \in Rids : q # r => (q \in InUse' <=> q \in InUse)
  BY DEF InUse
<1>4. /\ r \in InUse <=> At(r).flag = used
      /\ r \in InUse' <=> With(At(r), fld, v).flag = used
  BY DEF InUse
<1>5. InUse \subseteq Rids /\ InUse' \subseteq Rids /\ empty # used
  BY DEF InUse, empty, used
<1> QED BY <1>1, <1>2, <1>3, <1>4, <1>5

(* The record a scan is on.                                                *)
LEMMA CurrentRecord ==
  ASSUME TableAssumption, Inv, NEW t \in Txs, NEW s \in Scans, OnRecord(t, s)
  PROVE  /\ Rid(s) \in Rids /\ Rid(s)[1] = scan[s].blk /\ scan[s].blk < NumBlocks
         /\ call[t] = Idle /\ scan[s].tx = t
<1>1. scan[s].blk < NumBlocks /\ call[t] = Idle /\ scan[s].tx = t
  BY DEF OnRecord, Mine, Inv, Positions, ScanOf, TableAssumption
<1>2. scan[s].slot \in Slots /\ scan[s].blk \in BlockNums
  BY DEF OnRecord, Inv, Types, ScanState
<1> QED BY <1>1, <1>2 DEF Rid, Rids

(* set_val: the same records are in use.                                   *)
LEMMA OwnSetVal ==
  ASSUME TableAssumption, Inv, NEW t \in Txs, NEW s \in Scans, StepOn(t, s),
         NEW v \in Vals, set_val(t, s, v)
  PROVE  Own(t, s)
<1>1. /\ SetField(t, Rid(s), "val", v) /\ xlock(t, {scan[s].blk}) /\ OnRecord(t, s)
      /\ UNCHANGED <<call, scan, pass>>
  BY DEF set_val
<1>2. Rid(s) \in Rids /\ Rid(s)[1] = scan[s].blk /\ scan[s].blk < NumBlocks /\ call[t] = Idle
  BY <1>1, CurrentRecord
<1>3. locks'[t][Rid(s)[1]] = "x"
  BY <1>1, <1>2, ExclusiveLock, Blocks DEF Inv
<1>4. /\ NumBlocks' = NumBlocks
      /\ \A q \in Rids : q[1] < NumBlocks =>
           At(q)' = IF q = Rid(s) THEN With(At(q), "val", v) ELSE At(q)
  BY <1>1, <1>2, <1>3, ValStep DEF Inv
<1>5. InUse' = InUse
  BY <1>2, <1>4, InUseSet, SlotType DEF Inv
<1> QED BY <1>1, <1>2, <1>4, <1>5, OwnQuiet

(* remove: the passes of the transaction forget the record.                *)
LEMMA OwnRemove ==
  ASSUME TableAssumption, Inv, NEW t \in Txs, NEW s \in Scans, StepOn(t, s), remove(t, s)
  PROVE  Own(t, s)
<1> DEFINE r == Rid(s)
<1>1. /\ SetField(t, r, "flag", empty) /\ xlock(t, {scan[s].blk}) /\ OnRecord(t, s)
      /\ UNCHANGED <<call, scan>> /\ pass' = Removed(t, r)
  BY DEF remove
<1>2. /\ r \in Rids /\ r[1] = scan[s].blk /\ scan[s].blk < NumBlocks /\ call[t] = Idle
      /\ scan[s].tx = t
  BY <1>1, CurrentRecord
<1> HIDE DEF r
<1>3. locks'[t][r[1]] = "x"
  BY <1>1, <1>2, ExclusiveLock, Blocks DEF Inv
<1>4. /\ NumBlocks' = NumBlocks
      /\ \A q \in Rids : q[1] < NumBlocks =>
           At(q)' = IF q = r THEN With(At(q), "flag", empty) ELSE At(q)
  <2>1. empty \in {empty, used} /\ Types
    BY DEF Inv
  <2>2. SetField(t, r, "flag", empty) /\ r \in Rids /\ r[1] < NumBlocks
    BY <1>1, <1>2
  <2> QED BY <1>3, <2>1, <2>2, FlagStep, ZenonT(40)
<1>5. InUse' = InUse \ {r}
  BY <1>2, <1>4, InUseSet, SlotType DEF Inv
<1>6. pass \in [Scans -> PassState]
  BY DEF Inv, Types
<1>7. \A q \in Scans :
        /\ pass'[q] \in PassState
        /\ pass'[q].tx = pass[q].tx /\ pass'[q].ended = pass[q].ended
        /\ pass'[q].twice = pass[q].twice
        /\ pass'[q].known = IF pass[q].tx = t THEN pass[q].known \ {r} ELSE pass[q].known
        /\ pass[q].tx # t => pass'[q] = pass[q]
  BY <1>1, <1>6 DEF Removed, PassState
<1>8. PassOnly(t, s)
  <2>1. pass' = [q \in Scans |-> pass'[q]]
    BY <1>1 DEF Removed
  <2> QED BY <1>7, <2>1 DEF PassOnly
<1>9. CallOf(t)'
  BY <1>1, <1>2, CallEnds, CallStates
<1>10. ScanOf(s)'
  BY <1>1, <1>7, ScanStays, ZenonT(40) DEF StepOn, Inv, Positions, ScanOf
<1>11. ASSUME NEW q \in Scans, pass'[q].tx = t PROVE PassOf(q)'
  <2>1. pass[q].known = InUse \cap Behind(q) => pass'[q].known = InUse' \cap Behind(q)
    BY <1>5, <1>7, <1>11
  <2>2. call[t].scan # q /\ call'[t].scan # q
    BY <1>1, <1>2, CallStates DEF TableAssumption
  <2>3. \A b \in BlockNums : NumBlocks <= b /\ b < NumBlocks' => locks'[t][b] # "none"
    BY <1>4, Blocks DEF Inv, BlockNums
  <2>4. Types /\ Positions /\ Passes /\ FileOnly(t) /\ Grown(t) /\ Running(t)
    BY WorksRuns DEF Inv, StepOn
  <2> QED BY <1>1, <1>7, <1>11, <2>1, <2>2, <2>3, <2>4, KeepsPass
<1> QED BY <1>8, <1>9, <1>10, <1>11 DEF Own

(* The slot that insert takes.                                             *)
LEMMA SlotTaken ==
  ASSUME TableAssumption, Inv, NEW t \in Txs, NEW s \in Scans, set_flag(t, s)
  PROVE  LET k == FirstSlot(Candidates(s, empty))
             r == <<scan[s].blk, k>>
         IN /\ r \in Rids /\ r[1] = scan[s].blk /\ r[2] = k /\ scan[s].blk < NumBlocks
            /\ scan[s].tx = t /\ pass[s].tx = None /\ call[t].scan = s /\ call[t].op = "insert"
            /\ At(r).flag = empty /\ k > scan[s].slot
            /\ locks'[t][scan[s].blk] = "x"
<1>1. /\ call[t].scan = s /\ call[t].op = "insert" /\ call[t].at = "flag"
      /\ xlock(t, {scan[s].blk})
  BY InScan DEF set_flag, Inv
<1>2. scan[s].tx = t /\ pass[s].tx = None /\ Candidates(s, empty) # {}
  BY <1>1 DEF Inv, Calls, CallOf
<1>3. scan[s].blk < NumBlocks /\ scan[s].blk \in BlockNums
  BY <1>2, Blocks DEF Inv, Positions, ScanOf, TableAssumption
<1>4. FirstSlot(Candidates(s, empty)) \in Candidates(s, empty) \cap Slots
  BY <1>2, CandidateSlots DEF Inv
<1>5. locks'[t][scan[s].blk] = "x"
  BY <1>1, ExclusiveLock, Blocks DEF Inv
<1> QED BY <1>1, <1>2, <1>3, <1>4, <1>5 DEF Candidates, At, Rids

(* insert: the passes that have left the slot behind learn of the record.  *)
LEMMA OwnSetFlag ==
  ASSUME TableAssumption, Inv, NEW t \in Txs, NEW s \in Scans, StepOn(t, s), set_flag(t, s)
  PROVE  Own(t, s)
<1> DEFINE k == FirstSlot(Candidates(s, empty))
           r == <<scan[s].blk, k>>
<1>1. /\ SetField(t, r, "flag", used) /\ Return(t) /\ pass' = Inserted(t, r)
      /\ scan' = [scan EXCEPT ![s].slot = k]
  BY DEF set_flag
<1>2. /\ r \in Rids /\ r[1] = scan[s].blk /\ scan[s].blk < NumBlocks /\ scan[s].tx = t
      /\ pass[s].tx = None /\ call[t].scan = s /\ locks'[t][r[1]] = "x"
  BY SlotTaken
<1>3. k \in Slots \cup {-1}
  BY CandidateSlots DEF Inv
<1> HIDE DEF r, k
<1>4. /\ NumBlocks' = NumBlocks
      /\ \A q \in Rids : q[1] < NumBlocks =>
           At(q)' = IF q = r THEN With(At(q), "flag", used) ELSE At(q)
  BY <1>1, <1>2, FlagStep DEF Inv, empty, used
<1>5. InUse' = InUse \cup {r}
  BY <1>2, <1>4, InUseSet, SlotType DEF Inv
<1>6. pass \in [Scans -> PassState]
  BY DEF Inv, Types
<1>7. \A q \in Scans :
        /\ pass'[q] \in PassState
        /\ pass'[q].tx = pass[q].tx /\ pass'[q].ended = pass[q].ended
        /\ pass'[q].twice = pass[q].twice
        /\ pass'[q].known = IF pass[q].tx = t /\ r \in Behind(q)
                            THEN pass[q].known \cup {r} ELSE pass[q].known
        /\ pass[q].tx # t => pass'[q] = pass[q]
  BY <1>1, <1>2, <1>6 DEF Inserted, PassState
<1>8. PassOnly(t, s)
  <2>1. pass' = [q \in Scans |-> pass'[q]]
    BY <1>1 DEF Inserted
  <2> QED BY <1>7, <2>1 DEF PassOnly
<1>9. call'[t] = Idle
  BY <1>1, Returns DEF Inv
<1>10. CallOf(t)'
  BY <1>9, CallEnds, CallStates
<1>11. ScanOf(s)'
  BY <1>2, <1>7, ScanStays DEF StepOn
<1>12. ASSUME NEW q \in Scans, pass'[q].tx = t PROVE PassOf(q)'
  <2>1. q # s
    BY <1>2, <1>7, <1>12 DEF TableAssumption
  <2>2. pass[q].known = InUse \cap Behind(q) => pass'[q].known = InUse' \cap Behind(q)
    BY <1>5, <1>7, <1>12
  <2>3. call[t].scan # q /\ call'[t].scan # q
    BY <1>2, <1>9, <2>1, CallStates DEF TableAssumption
  <2>4. \A b \in BlockNums : NumBlocks <= b /\ b < NumBlocks' => locks'[t][b] # "none"
    BY <1>4, Blocks DEF Inv, BlockNums
  <2>5. Types /\ Positions /\ Passes /\ FileOnly(t) /\ Grown(t) /\ Running(t)
    BY WorksRuns DEF Inv, StepOn
  <2>6. scan'[q] = scan[q]
    BY <2>1 DEF StepOn, ScanOnly
  <2> QED BY <1>7, <1>12, <2>2, <2>3, <2>4, <2>5, <2>6, KeepsPass
<1> QED BY <1>8, <1>10, <1>11, <1>12 DEF Own

(* Once the scan has come to the end of the file, all of it is behind.     *)
LEMMA OwnEnds ==
  ASSUME TableAssumption, Inv, NEW t \in Txs, NEW s \in Scans, StepOn(t, s),
         at_last_block(t, s, "next"), AtLastBlock(s)
  PROVE  Own(t, s)
<1>1. /\ UNCHANGED <<file, scan>> /\ Return(t) /\ slock(t, mEndOfFile) /\ In(t, s, "next", "last")
      /\ pass' = [pass EXCEPT ![s].ended = pass[s].tx # None]
  BY DEF at_last_block
<1>2. call'[t] = Idle /\ call[t].scan = s /\ call[t].op = "next"
  BY <1>1, Returns, InScan DEF Inv
<1>3. scan[s].tx = t /\ t # None
  BY <1>2 DEF Inv, Calls, CallOf, TableAssumption
<1>4. pass \in [Scans -> PassState]
  BY DEF Inv, Types
<1>5. pass[s].tx # None /\ ~pass[s].ended => pass[s].tx = t
  BY <1>3 DEF Inv, Positions, ScanOf
<1>6. /\ pass' \in [Scans -> PassState] /\ \A q \in Scans \ {s} : pass'[q] = pass[q]
      /\ pass'[s].tx = pass[s].tx /\ pass'[s].known = pass[s].known
      /\ pass'[s].twice = pass[s].twice /\ pass'[s].ended = (pass[s].tx # None)
  BY <1>1, <1>4 DEF PassState
<1>7. pass[s].tx # None /\ pass[s].ended => pass'[s] = pass[s]
  BY <1>1, <1>4 DEF PassState
<1>8. PassOnly(t, s)
  BY <1>5, <1>6, <1>7 DEF PassOnly
<1>9. ScanOf(s)'
  BY <1>6, ScanStays DEF StepOn
<1>10. CallOf(t)'
  BY <1>2, CallEnds, CallStates
<1>11. NumBlocks' = NumBlocks /\ InUse' = InUse
  BY <1>1, SameInUse
<1>12. \A q \in Scans \ {s} : pass'[q].tx = t => PassOf(q)'
  <2>1. \A b \in BlockNums : NumBlocks <= b /\ b < NumBlocks' => locks'[t][b] # "none"
    BY <1>11, Blocks DEF Inv, BlockNums
  <2> QED BY <1>6, <1>11, <2>1, QuietPasses
<1>13. ASSUME pass'[s].tx = t PROVE PassOf(s)'
  <2>1. pass[s].tx = t /\ pass'[s].ended = TRUE
    BY <1>3, <1>6, <1>13
  <2>2. /\ \A r \in Behind(s) : r[1] < NumBlocks => locks[t][r[1]] # "none"
        /\ pass[s].known = InUse \cap Behind(s) /\ ~pass[s].twice
    BY <1>3, <2>1, WorksRuns DEF Inv, Passes, PassOf, StepOn
  <2>3. Through(s)
    BY <1>1, <1>3 DEF Through
  <2>4. \A r \in Rids : r[1] < NumBlocks => r \in Behind(s)
    <3> SUFFICES ASSUME NEW r \in Rids, r[1] < NumBlocks PROVE r \in Behind(s)
      OBVIOUS
    <3>1. r[1] \in Int /\ NumBlocks \in Int /\ scan[s].blk \in Int /\ scan[s].blk = NumBlocks - 1
      BY Blocks DEF Rids, BlockNums, Inv, AtLastBlock
    <3>2. Behind(s) = {q \in Rids : \/ pass[s].ended
                                    \/ q[1] < scan[s].blk
                                    \/ q[1] = scan[s].blk /\ (Through(s) \/ q[2] <= scan[s].slot)}
      BY BehindIs
    <3>3. r[1] < scan[s].blk \/ r[1] = scan[s].blk
      BY <3>1
    <3> QED BY <2>3, <3>2, <3>3
  <2>5. Behind(s)' = Rids
    BY <2>1, BehindWas
  <2>6. InUse \cap Behind(s) = InUse \cap Behind(s)'
    BY <2>4, <2>5 DEF InUse, Behind
  <2>7. locks'[t][mEndOfFile] # "none"
    BY <1>1, SharedLock, Blocks DEF Inv
  <2>8. \A r \in Rids : r[1] < NumBlocks' => locks'[t][r[1]] # "none"
    <3>1. \A r \in Rids : r[1] \in Lockable
      BY Blocks DEF Rids, Inv
    <3> QED BY <1>11, <2>2, <2>4, <3>1 DEF StepOn, Grown
  <2> QED BY <1>6, <1>11, <1>13, <2>2, <2>5, <2>6, <2>7, <2>8 DEF PassOf
<1> QED BY <1>8, <1>9, <1>10, <1>12, <1>13 DEF Own

(* The scan goes on in the next block.                                     *)
LEMMA OwnMoves ==
  ASSUME TableAssumption, Inv, NEW t \in Txs, NEW s \in Scans, StepOn(t, s),
         NEW op \in {"next", "insert"}, In(t, s, op, "last"), UNCHANGED <<file, pass>>,
         scan[s].blk + 1 \in BlockNums,
         MoveTo(t, s, Closed(t, s), FirstOf(scan[s].blk + 1)), Goto(t, s, op, "search")
  PROVE  Own(t, s)
<1> DEFINE b == scan[s].blk
<1>1. scan'[s] = [tx |-> t, blk |-> b + 1, slot |-> -1]
  <2>1. scan[s].blk + 1 \in BlockNums
    OBVIOUS
  <2> QED BY <2>1, MovedFirst DEF Inv
<1>2. call'[t] = [op |-> op, scan |-> s, at |-> "search"]
  BY Goes DEF Inv
<1>3. call[t].scan = s /\ call[t].op = op
  BY InScan DEF Inv
<1>4. scan[s].tx = t /\ (op # "next" => pass[s].tx = None) /\ t # None
  BY <1>3 DEF Inv, Calls, CallOf, TableAssumption
<1>5. PassOnly(t, s)
  BY PassSame DEF Inv
<1>6. ScanOf(s)'
  BY <1>1, <1>4, ScanStays DEF StepOn, Inv, Positions, ScanOf
<1>7. CallOf(t)'
  BY <1>1, <1>2, <1>4, CallGoesOn
<1>8. NumBlocks' = NumBlocks /\ InUse' = InUse
  BY SameInUse
<1>9. \A q \in Scans \ {s} : pass'[q].tx = t => PassOf(q)'
  <2>1. \A c \in BlockNums : NumBlocks <= c /\ c < NumBlocks' => locks'[t][c] # "none"
    BY <1>8, Blocks DEF Inv, BlockNums
  <2> QED BY <1>8, <2>1, QuietPasses
<1>10. ASSUME pass'[s].tx = t PROVE PassOf(s)'
  <2>1. pass[s].tx = t /\ op = "next"
    BY <1>4, <1>10
  <2>2. /\ \A r \in Behind(s) : r[1] < NumBlocks => locks[t][r[1]] # "none"
        /\ pass[s].ended => locks[t][mEndOfFile] # "none"
        /\ pass[s].known = InUse \cap Behind(s) /\ ~pass[s].twice
    BY <1>4, <2>1, WorksRuns DEF Inv, Passes, PassOf, StepOn
  <2>3. Through(s)
    BY <1>4, <2>1 DEF Through
  <2>4. ~Through(s)'
    BY <1>1, <1>2 DEF Through, In
  <2>5. Behind(s)' = Behind(s)
    <3>1. Behind(s) = {q \in Rids : \/ pass[s].ended
                                    \/ q[1] < b
                                    \/ q[1] = b /\ (Through(s) \/ q[2] <= scan[s].slot)}
      BY BehindIs
    <3>2. Behind(s)' = {q \in Rids : \/ pass'[s].ended
                                     \/ q[1] < b + 1
                                     \/ q[1] = b + 1 /\ (Through(s)' \/ q[2] <= -1)}
      BY <1>1, BehindWas
    <3>3. \A q \in Rids : q[1] \in Int /\ ~(q[2] <= -1) /\ b \in Int
      BY Blocks DEF Rids, BlockNums, Slots, Inv
    <3> HIDE DEF b
    <3>4. \A q \in Rids : q \in Behind(s)' <=> q \in Behind(s)
      BY <2>3, <2>4, <3>1, <3>2, <3>3
    <3> QED BY <3>1, <3>2, <3>4
  <2>6. \A r \in Rids : r[1] \in Lockable
    BY Blocks DEF Rids, Inv
  <2>7. \A r \in Behind(s)' : r[1] < NumBlocks' => locks'[t][r[1]] # "none"
    BY <1>8, <2>2, <2>5, <2>6 DEF StepOn, Grown, Behind
  <2>8. pass'[s].ended => locks'[t][mEndOfFile] # "none"
    BY <2>2, Blocks DEF StepOn, Grown, Inv
  <2> QED BY <1>8, <1>10, <2>2, <2>5, <2>7, <2>8 DEF PassOf
<1> QED BY <1>5, <1>6, <1>7, <1>9, <1>10 DEF Own

(* at_last_block and what follows.                                         *)
LEMMA OwnAtLastBlock ==
  ASSUME TableAssumption, Inv, NEW t \in Txs, NEW s \in Scans, StepOn(t, s),
         NEW op \in {"next", "insert"}, at_last_block(t, s, op)
  PROVE  Own(t, s)
<1>1. In(t, s, op, "last") /\ UNCHANGED file
  BY DEF at_last_block
<1>2. CASE AtLastBlock(s) /\ op = "next"
  BY <1>2, OwnEnds
<1>3. CASE AtLastBlock(s) /\ op = "insert"
  <2>1. Goto(t, s, op, "append") /\ UNCHANGED <<scan, pass>>
    BY <1>3 DEF at_last_block
  <2>2. call'[t] = [op |-> op, scan |-> s, at |-> "append"]
    BY <1>3, <2>1, Goes DEF Inv
  <2>3. call[t].scan = s /\ call[t].op = op
    BY <1>1, InScan DEF Inv
  <2>4. scan[s].tx = t /\ pass[s].tx = None
    BY <1>3, <2>3 DEF Inv, Calls, CallOf
  <2>5. CallOf(t)'
    BY <1>3, <2>1, <2>2, <2>4, CallGoesOn
  <2>6. PassOnly(t, s) /\ ScanOf(s)'
    BY <2>1, <2>4, PassSame, ScanStays DEF Inv, StepOn
  <2>7. \A q \in Scans : pass'[q].tx = t => PassOf(q)'
    <3>1. \A b \in BlockNums : NumBlocks <= b /\ b < NumBlocks' => locks'[t][b] # "none"
      BY <1>1, SameInUse, Blocks DEF Inv, BlockNums
    <3> QED BY <1>1, <2>1, <2>4, <3>1, SameInUse, QuietPasses DEF TableAssumption
  <2> QED BY <2>5, <2>6, <2>7 DEF Own
<1>4. CASE ~AtLastBlock(s)
  <2>1. \/ /\ MoveTo(t, s, Closed(t, s), FirstOf(scan[s].blk + 1)) /\ Goto(t, s, op, "search")
           /\ UNCHANGED pass
        \/ Throw(t)
    BY <1>4, PinThrown DEF at_last_block
  <2>2. scan[s].tx # None
    <3>1. call[t].scan = s /\ call[t].op = op
      BY <1>1, InScan DEF Inv
    <3> QED BY <3>1 DEF Inv, Calls, CallOf, TableAssumption
  <2>3. scan[s].blk + 1 \in BlockNums
    <3>1. scan[s].blk < NumBlocks /\ scan[s].blk # NumBlocks - 1
      BY <1>4, <2>2 DEF Inv, Positions, ScanOf, AtLastBlock
    <3>2. scan[s].blk \in 0 .. MaxBlocks - 1 /\ NumBlocks \in 0 .. MaxBlocks /\ MaxBlocks \in Nat
      BY Blocks DEF Inv, BlockNums, TableAssumption
    <3> QED BY <3>1, <3>2 DEF BlockNums
  <2> QED BY <1>1, <2>1, <2>3, OwnMoves, OwnThrows
<1> QED BY <1>2, <1>3, <1>4

(* append, by insert or by the constructor.                                *)
LEMMA OwnAppend ==
  ASSUME TableAssumption, Inv, NEW t \in Txs, NEW s \in Scans, StepOn(t, s),
         NEW op \in {"open", "insert"}, append(t, s, op)
  PROVE  Own(t, s)
<1>1. /\ NumBlocks' = NumBlocks + 1 /\ NumBlocks < MaxBlocks /\ InUse' = InUse
  BY AppendStep DEF Inv
<1>2. NumBlocks \in BlockNums /\ NumBlocks \in Lockable /\ NumBlocks \in Nat
  BY <1>1, Blocks DEF Inv
<1>3. call[t].scan = s /\ call[t].op = op
  BY InScan DEF append, Inv
<1>4. CASE Throw(t)
  BY <1>4, OwnThrows
<1>5. CASE /\ xlock(t, {mEndOfFile, NumBlocks})
           /\ MoveTo(t, s, pins, FirstOf(NumBlocks))
           /\ IF op = "insert" THEN Goto(t, s, op, "search") ELSE Return(t)
           /\ pass' = IF op = "insert" THEN pass ELSE [pass EXCEPT ![s] = NewPass(t)]
  <2>1. \A b \in BlockNums : NumBlocks <= b /\ b < NumBlocks' => locks'[t][b] # "none"
    <3>1. {mEndOfFile, NumBlocks} \in SUBSET Lockable
      BY <1>2, Blocks DEF Inv
    <3>2. locks'[t][NumBlocks] = "x"
      BY <1>5, <3>1, ExclusiveLock DEF Inv
    <3>3. \A b \in BlockNums : NumBlocks <= b /\ b < NumBlocks' => b = NumBlocks
      BY <1>1, <1>2 DEF BlockNums
    <3> QED BY <3>2, <3>3
  <2>2. scan'[s] = [tx |-> t, blk |-> NumBlocks, slot |-> -1]
    BY <1>2, <1>5, MovedFirst DEF Inv
  <2>3. CASE op = "insert"
    <3>1. call'[t] = [op |-> op, scan |-> s, at |-> "search"] /\ UNCHANGED pass
      BY <1>5, <2>3, Goes DEF Inv
    <3>2. pass[s].tx = None
      BY <1>3, <2>3 DEF Inv, Calls, CallOf
    <3>3. CallOf(t)'
      BY <2>2, <2>3, <3>1, <3>2, CallGoesOn
    <3>4. PassOnly(t, s) /\ ScanOf(s)'
      BY <3>1, <3>2, PassSame, ScanStays DEF Inv, StepOn
    <3>5. \A q \in Scans : pass'[q].tx = t => PassOf(q)'
      BY <1>1, <2>1, <3>1, <3>2, QuietPasses DEF TableAssumption
    <3> QED BY <3>3, <3>4, <3>5 DEF Own
  <2>4. CASE op = "open"
    <3>1. call'[t] = Idle /\ pass' = [pass EXCEPT ![s] = NewPass(t)]
      BY <1>5, <2>4, Returns DEF Inv
    <3>2. /\ PassOnly(t, s) /\ pass'[s] = NewPass(t) /\ pass'[s].tx = t
          /\ \A q \in Scans \ {s} : pass'[q] = pass[q]
      BY <3>1, PassNew DEF Inv
    <3>3. NumBlocks = 0
      BY <1>3, <2>4 DEF Inv, Calls, CallOf
    <3>4. CallOf(t)' /\ ScanOf(s)'
      BY <2>2, <3>1, <3>2, CallEnds, CallStates, ScanStays DEF StepOn
    <3>5. PassOf(s)'
      <4>1. ~In(t, s, "next", "last")'
        BY <3>1, CallStates DEF In
      <4> QED BY <2>2, <3>2, <3>3, <4>1, StartsPass
    <3>6. \A q \in Scans \ {s} : pass'[q].tx = t => PassOf(q)'
      BY <1>1, <2>1, <3>2, QuietPasses
    <3> QED BY <3>2, <3>4, <3>5, <3>6 DEF Own
  <2> QED BY <2>3, <2>4
<1> QED BY <1>4, <1>5, PinThrown DEF append

(* All steps on a scan.                                                    *)
LEMMA OwnStep ==
  ASSUME TableAssumption, Inv, NEW t \in Txs, NEW s \in Scans, StepOn(t, s), ScanAct(t, s)
  PROVE  Own(t, s)
BY OwnOpen, OwnBeforeFirst, OwnClose, OwnNextAfter, OwnInsertAfter, OwnSetFlag, OwnAtLastBlock,
   OwnAppend, OwnGetVal, OwnRemove, OwnSetVal, OwnMoveToRid DEF ScanAct

-----------------------------------------------------------------------------
(* The log of the transaction that works.                                  *)

(* A step that logs nothing keeps the log good.                            *)
LEMMA KeepsLog ==
  ASSUME TableAssumption, Types, NEW t \in Txs, LogOf(t), UNCHANGED log, FileOnly(t), Grown(t),
         call'[t].op = "insert" => call[t].op = "insert" \/ Len(log[t]) < MaxLog
  PROVE  LogOf(t)'
<1>1. NumBlocks \in Nat /\ NumBlocks' \in Nat /\ NumBlocks <= NumBlocks'
  BY Blocks DEF FileOnly, NumBlocks
<1>2. \A i \in 1 .. Len(log[t]) : log[t][i].rid[1] \in Nat /\ log[t][i].rid[1] \in Lockable
  <2>1. \A i \in 1 .. Len(log[t]) : log[t][i].rid[1] \in BlockNums
    BY DEF Types, UndoRec, Rids
  <2> QED BY <2>1, Blocks DEF BlockNums
<1> QED BY <1>1, <1>2 DEF LogOf, Grown

(* A record of a block that is locked exclusively is added to the log.     *)
LEMMA AddsLog ==
  ASSUME TableAssumption, Types, NEW t \in Txs, LogOf(t), Grown(t),
         NumBlocks' = NumBlocks, NEW r \in Rids, r[1] < NumBlocks, locks'[t][r[1]] = "x",
         NEW e, e.rid = r, Len(log[t]) < MaxLog, Len(log'[t]) = Len(log[t]) + 1,
         \A i \in 1 .. Len(log[t]) : log'[t][i] = log[t][i],
         log'[t][Len(log[t]) + 1] = e, call'[t].op # "insert"
  PROVE  LogOf(t)'
<1>1. Len(log[t]) \in Nat /\ MaxLog \in Nat
  BY DEF Types, TableAssumption
<1>2. \A i \in 1 .. Len(log[t]) : log[t][i].rid[1] \in Lockable
  <2> SUFFICES ASSUME NEW i \in 1 .. Len(log[t]) PROVE log[t][i].rid[1] \in Lockable
    OBVIOUS
  <2>1. log[t][i] \in UndoRec
    BY DEF Types
  <2>2. log[t][i].rid[1] \in BlockNums
    BY <2>1 DEF UndoRec, Rids
  <2> QED BY <2>2, Blocks
<1>3. \A i \in 1 .. Len(log'[t]) :
        log'[t][i].rid[1] < NumBlocks' /\ locks'[t][log'[t][i].rid[1]] = "x"
  <2> SUFFICES ASSUME NEW i \in 1 .. Len(log'[t])
               PROVE  log'[t][i].rid[1] < NumBlocks' /\ locks'[t][log'[t][i].rid[1]] = "x"
    OBVIOUS
  <2>1. CASE i \in 1 .. Len(log[t])
    BY <1>2, <2>1 DEF LogOf, Grown
  <2>2. CASE i = Len(log[t]) + 1
    BY <2>2
  <2> QED BY <1>1, <2>1, <2>2
<1> QED BY <1>1, <1>3 DEF LogOf

(* A step on a scan changes only blocks that its transaction owns.         *)
LEMMA ScanFiles ==
  ASSUME TableAssumption, Types, Exclusion, Calls, Positions, Passes, NEW t \in Txs, LogOf(t),
         NEW s \in Scans, Grown(t), ScanAct(t, s)
  PROVE  FileOnly(t) /\ LogOnly(t) /\ LogOf(t)'
<1> DEFINE Goal == FileOnly(t) /\ LogOnly(t) /\ LogOf(t)'
<1> SUFFICES Goal
  OBVIOUS
<1>0. Inv
  BY DEF Inv
<1>1. ASSUME UNCHANGED <<file, log>>,
             call'[t].op = "insert" => call[t].op = "insert" \/ Len(log[t]) < MaxLog
      PROVE  Goal
  BY <1>1, SameFile, SameLog, KeepsLog
<1>2. ASSUME Throw(t) PROVE call'[t].op # "insert"
  BY <1>2, Throws, CallStates
<1>3. ASSUME Return(t) PROVE call'[t].op # "insert"
  BY <1>3, Returns, CallStates
<1>4. ASSUME NEW op \in {"open", "next", "insert"}, NEW pc, Goto(t, s, op, pc) PROVE call'[t].op = op
  BY <1>4 DEF Goto, Types
<1>5. ASSUME call[t] = Idle, UNCHANGED call PROVE call'[t].op # "insert"
  BY <1>5, CallStates
<1> HIDE DEF Goal
<1>6. CASE Open(t, s)
  <2>1. UNCHANGED <<file, log>> /\ call[t] = Idle
        /\ (Goto(t, s, "open", "append") \/ UNCHANGED call \/ Throw(t))
    BY <1>6, PinThrown DEF Open
  <2> QED BY <2>1, <1>1, <1>2, <1>4, <1>5
<1>7. CASE before_first(t, s) \/ close(t, s) \/ \E r \in Rids : move_to_rid(t, s, r)
  <2>1. UNCHANGED <<file, log>> /\ call[t] = Idle /\ (UNCHANGED call \/ Throw(t))
    BY <1>7, PinThrown DEF before_first, close, move_to_rid, Mine
  <2> QED BY <2>1, <1>1, <1>2, <1>5
<1>8. CASE next_after(t, s)
  <2>1. UNCHANGED <<file, log>> /\ (Goto(t, s, "next", "last") \/ Return(t))
    BY <1>8 DEF next_after
  <2> QED BY <2>1, <1>1, <1>3, <1>4
<1>9. CASE insert_after(t, s)
  <2>1. UNCHANGED <<file, log>> /\ (RoomToLog \/ In(t, s, "insert", "search"))
    BY <1>9 DEF insert_after
  <2>2. call[t].op = "insert" \/ Len(log[t]) < MaxLog
    BY <2>1, Room, InScan
  <2> QED BY <2>1, <2>2, <1>1
<1>10. ASSUME NEW op \in {"next", "insert"}, at_last_block(t, s, op) PROVE Goal
  <2>1. UNCHANGED <<file, log>> /\ In(t, s, op, "last")
        /\ (Goto(t, s, op, "append") \/ Goto(t, s, op, "search") \/ Return(t) \/ Throw(t))
    BY <1>10, PinThrown DEF at_last_block
  <2>2. call[t].op = op
    BY <2>1, InScan
  <2>3. call'[t].op = "insert" => call[t].op = "insert"
    BY <2>1, <2>2, <1>2, <1>3, <1>4
  <2> QED BY <2>1, <2>3, <1>1
<1>11. ASSUME NEW op \in {"open", "insert"}, append(t, s, op) PROVE Goal
  <2>1. UNCHANGED log /\ In(t, s, op, "append")
        /\ ((Goto(t, s, op, "search") /\ op = "insert") \/ Return(t) \/ Throw(t))
    BY <1>11, PinThrown DEF append
  <2>2. call[t].op = op
    BY <2>1, InScan
  <2>3. call'[t].op = "insert" => call[t].op = "insert"
    BY <2>1, <2>2, <1>2, <1>3, <1>4
  <2>4. FileOnly(t)
    BY <1>11, AppendStep
  <2> QED BY <2>1, <2>3, <2>4, SameLog, KeepsLog DEF Goal
<1>12. CASE get_val(t, s)
  <2>1. UNCHANGED <<file, log, call>> /\ call[t] = Idle
    BY <1>12 DEF get_val, OnRecord, Mine
  <2> QED BY <2>1, <1>1, <1>5
<1>13. CASE remove(t, s)
  <2>1. /\ SetField(t, Rid(s), "flag", empty) /\ xlock(t, {scan[s].blk}) /\ OnRecord(t, s)
        /\ UNCHANGED call /\ RoomToLog
    BY <1>13 DEF remove
  <2>2. Rid(s) \in Rids /\ Rid(s)[1] = scan[s].blk /\ scan[s].blk < NumBlocks /\ call[t] = Idle
    BY <1>0, <2>1, CurrentRecord
  <2>3. locks'[t][Rid(s)[1]] = "x"
    BY <2>1, <2>2, ExclusiveLock, Blocks
  <2>4. empty \in {empty, used}
    OBVIOUS
  <2>5. /\ FileOnly(t) /\ LogOnly(t) /\ NumBlocks' = NumBlocks
        /\ Len(log'[t]) = Len(log[t]) + 1
        /\ \A i \in 1 .. Len(log[t]) : log'[t][i] = log[t][i]
        /\ log'[t][Len(log[t]) + 1] = [rid |-> Rid(s), fld |-> "flag", old |-> At(Rid(s))["flag"]]
    BY <2>1, <2>2, <2>3, <2>4, FlagStep
  <2>6. Len(log[t]) < MaxLog /\ call'[t].op # "insert"
    BY <2>1, <2>2, <1>5, Room
  <2>7. LogOf(t)'
    BY <2>2, <2>3, <2>5, <2>6, AddsLog
  <2> QED BY <2>5, <2>7 DEF Goal
<1>14. CASE \E v \in Vals : set_val(t, s, v)
  <2>0. PICK v \in Vals : set_val(t, s, v)
    BY <1>14
  <2>1. /\ SetField(t, Rid(s), "val", v) /\ xlock(t, {scan[s].blk}) /\ OnRecord(t, s)
        /\ UNCHANGED call /\ RoomToLog
    BY <2>0 DEF set_val
  <2>2. Rid(s) \in Rids /\ Rid(s)[1] = scan[s].blk /\ scan[s].blk < NumBlocks /\ call[t] = Idle
    BY <1>0, <2>1, CurrentRecord
  <2>3. locks'[t][Rid(s)[1]] = "x"
    BY <2>1, <2>2, ExclusiveLock, Blocks
  <2>5. /\ FileOnly(t) /\ LogOnly(t) /\ NumBlocks' = NumBlocks
        /\ Len(log'[t]) = Len(log[t]) + 1
        /\ \A i \in 1 .. Len(log[t]) : log'[t][i] = log[t][i]
        /\ log'[t][Len(log[t]) + 1] = [rid |-> Rid(s), fld |-> "val", old |-> At(Rid(s))["val"]]
    BY <2>1, <2>2, <2>3, ValStep
  <2>6. Len(log[t]) < MaxLog /\ call'[t].op # "insert"
    BY <2>1, <2>2, <1>5, Room
  <2>7. LogOf(t)'
    BY <2>2, <2>3, <2>5, <2>6, AddsLog
  <2> QED BY <2>5, <2>7 DEF Goal
<1>15. CASE set_flag(t, s)
  <2> DEFINE r == <<scan[s].blk, FirstSlot(Candidates(s, empty))>>
  <2>1. SetField(t, r, "flag", used) /\ Return(t)
    BY <1>15 DEF set_flag
  <2>2. /\ r \in Rids /\ r[1] < NumBlocks /\ call[t].op = "insert" /\ locks'[t][r[1]] = "x"
    BY <1>0, <1>15, SlotTaken
  <2> HIDE DEF r
  <2>4. used \in {empty, used}
    OBVIOUS
  <2>5. /\ FileOnly(t) /\ LogOnly(t) /\ NumBlocks' = NumBlocks
        /\ Len(log'[t]) = Len(log[t]) + 1
        /\ \A i \in 1 .. Len(log[t]) : log'[t][i] = log[t][i]
        /\ log'[t][Len(log[t]) + 1] = [rid |-> r, fld |-> "flag", old |-> At(r)["flag"]]
    BY <2>1, <2>2, <2>4, FlagStep
  <2>6. Len(log[t]) < MaxLog /\ call'[t].op # "insert"
    BY <2>1, <2>2, <1>3 DEF LogOf
  <2>7. LogOf(t)'
    BY <2>2, <2>5, <2>6, AddsLog
  <2> QED BY <2>5, <2>7 DEF Goal
<1> QED BY <1>6, <1>7, <1>8, <1>9, <1>10, <1>11, <1>12, <1>13, <1>14, <1>15 DEF ScanAct

-----------------------------------------------------------------------------
(* The pins of the transaction that works.                                 *)

PinsGood(t) ==
  /\ pins' \in [Txs -> [BlockNums -> Nat]]
  /\ \A u \in Txs \ {t} : pins'[u] = pins[u]
  /\ PinsOf(t)'

(* The pins change by what the scan gains or loses.                        *)
LEMMA PinCount ==
  ASSUME TableAssumption, Types, NEW t \in Txs, NEW s \in Scans, StepOn(t, s), PinsOf(t),
         \A b \in BlockNums :
           pins'[t][b] = pins[t][b] + (IF s \in PinnedScans(t, b)' THEN 1 ELSE 0)
                                    - (IF s \in PinnedScans(t, b) THEN 1 ELSE 0)
  PROVE  PinsOf(t)' /\ \A b \in BlockNums : pins'[t][b] \in Nat
<1> SUFFICES ASSUME NEW b \in BlockNums
             PROVE  pins'[t][b] = Cardinality(PinnedScans(t, b)') /\ pins'[t][b] \in Nat
  BY DEF PinsOf
<1>1. pins[t][b] = Cardinality(PinnedScans(t, b))
  BY WorksRuns DEF PinsOf, StepOn
<1>2. IsFiniteSet(PinnedScans(t, b))
  <2>1. PinnedScans(t, b) \in SUBSET Scans
    BY DEF PinnedScans
  <2> QED BY <2>1, FS_Subset DEF TableAssumption
<1>3. PinnedScans(t, b)' \ {s} = PinnedScans(t, b) \ {s}
  <2>1. \A q \in Scans \ {s} : /\ scan'[q] = scan[q]
                               /\ ~In(t, q, "insert", "append") /\ ~In(t, q, "insert", "append")'
    BY CallStates DEF StepOn, ScanOnly, Works, In, TableAssumption
  <2> QED BY <2>1 DEF PinnedScans
<1>4. /\ Cardinality(PinnedScans(t, b)) \in Nat /\ Cardinality(PinnedScans(t, b)') \in Nat
      /\ Cardinality(PinnedScans(t, b)') = Cardinality(PinnedScans(t, b))
           + (IF s \in PinnedScans(t, b)' THEN 1 ELSE 0) - (IF s \in PinnedScans(t, b) THEN 1 ELSE 0)
  BY <1>2, <1>3, CountOne
<1> QED BY <1>1, <1>4

(* A step that pins nothing.                                               *)
LEMMA PinsKept ==
  ASSUME TableAssumption, Types, NEW t \in Txs, NEW s \in Scans, StepOn(t, s), PinsOf(t),
         UNCHANGED pins,
         \A b \in BlockNums : s \in PinnedScans(t, b)' <=> s \in PinnedScans(t, b)
  PROVE  PinsGood(t)
<1>1. \A b \in BlockNums : pins[t][b] \in Nat
  BY DEF Types
<1>2. PinsOf(t)'
  BY <1>1, PinCount
<1> QED BY <1>2 DEF PinsGood, Types

(* The scan has its block pinned.                                          *)
Holds(t, s) == scan[s].tx = t /\ ~In(t, s, "insert", "append")

(* The scan's block is unpinned.                                           *)
LEMMA PinsClosed ==
  ASSUME TableAssumption, Types, NEW t \in Txs, NEW s \in Scans, StepOn(t, s), PinsOf(t),
         Holds(t, s), pins' = Closed(t, s), ~Holds(t, s)' \/ ~Running(t)'
  PROVE  PinsGood(t)
<1> DEFINE b == scan[s].blk
<1>1. b \in BlockNums /\ pins \in [Txs -> [BlockNums -> Nat]]
  BY Blocks DEF Types
<1>2. pins' = [pins EXCEPT ![t][b] = @ - 1]
  BY DEF Closed, Unpinned
<1> HIDE DEF b
<1>3. pins[t][b] = Cardinality(PinnedScans(t, b)) /\ s \in PinnedScans(t, b)
  BY <1>1, WorksRuns DEF PinsOf, StepOn, Holds, PinnedScans, b
<1>4. Cardinality(PinnedScans(t, b)) # 0
  <2>1. IsFiniteSet(PinnedScans(t, b))
    <3>1. PinnedScans(t, b) \in SUBSET Scans
      BY DEF PinnedScans
    <3> QED BY <3>1, FS_Subset DEF TableAssumption
  <2> QED BY <1>3, <2>1, FS_EmptySet
<1>5. /\ pins' \in [Txs -> [BlockNums -> Nat]] /\ \A u \in Txs \ {t} : pins'[u] = pins[u]
      /\ \A c \in BlockNums : pins'[t][c] = IF c = b THEN pins[t][c] - 1 ELSE pins[t][c]
  <2>1. pins[t][b] - 1 \in Nat
    BY <1>1, <1>3, <1>4
  <2> QED BY <1>1, <1>2, <2>1
<1>6. CASE ~Running(t)'
  BY <1>5, <1>6 DEF PinsGood, PinsOf
<1>7. CASE ~Holds(t, s)'
  <2>1. \A c \in BlockNums : s \notin PinnedScans(t, c)' /\ (s \in PinnedScans(t, c) <=> c = b)
    BY <1>7 DEF Holds, PinnedScans, b
  <2>2. PinsOf(t)'
    BY <1>1, <1>5, <2>1, PinCount
  <2> QED BY <1>5, <2>2 DEF PinsGood
<1> QED BY <1>6, <1>7

(* A block is pinned for a scan that had none.                             *)
LEMMA PinsOpened ==
  ASSUME TableAssumption, Types, NEW t \in Txs, NEW s \in Scans, StepOn(t, s), PinsOf(t),
         ~Holds(t, s), NEW b \in BlockNums, pins' = Pinned(pins, t, b), Holds(t, s)',
         scan'[s].blk = b
  PROVE  PinsGood(t)
<1>1. pins \in [Txs -> [BlockNums -> Nat]]
  BY DEF Types
<1>2. /\ pins' \in [Txs -> [BlockNums -> Nat]] /\ \A u \in Txs \ {t} : pins'[u] = pins[u]
      /\ \A c \in BlockNums : pins'[t][c] = IF c = b THEN pins[t][c] + 1 ELSE pins[t][c]
  BY <1>1 DEF Pinned
<1>3. \A c \in BlockNums : s \notin PinnedScans(t, c) /\ (s \in PinnedScans(t, c)' <=> c = b)
  BY DEF Holds, PinnedScans
<1>4. PinsOf(t)'
  BY <1>1, <1>2, <1>3, PinCount
<1> QED BY <1>2, <1>4 DEF PinsGood

(* The scan's block is unpinned and another one pinned.                    *)
LEMMA PinsMoved ==
  ASSUME TableAssumption, Types, NEW t \in Txs, NEW s \in Scans, StepOn(t, s), PinsOf(t),
         Holds(t, s), NEW b \in BlockNums, pins' = Pinned(Closed(t, s), t, b), Holds(t, s)',
         scan'[s].blk = b
  PROVE  PinsGood(t)
<1> DEFINE a == scan[s].blk
<1>1. pins \in [Txs -> [BlockNums -> Nat]] /\ a \in BlockNums
  BY Blocks DEF Types
<1>2. pins' = [[pins EXCEPT ![t][a] = @ - 1] EXCEPT ![t][b] = @ + 1]
  BY DEF Closed, Unpinned, Pinned
<1> HIDE DEF a
<1>3. /\ pins' \in [Txs -> [BlockNums -> Int]] /\ \A u \in Txs \ {t} : pins'[u] = pins[u]
      /\ \A c \in BlockNums : pins'[t][c] = pins[t][c] + (IF c = b THEN 1 ELSE 0)
                                                       - (IF c = a THEN 1 ELSE 0)
  <2> DEFINE p == [pins EXCEPT ![t][a] = @ - 1]
  <2>1. /\ p \in [Txs -> [BlockNums -> Int]] /\ \A u \in Txs \ {t} : p[u] = pins[u]
        /\ \A c \in BlockNums : p[t][c] = pins[t][c] - (IF c = a THEN 1 ELSE 0)
    BY <1>1
  <2>2. pins' = [p EXCEPT ![t][b] = @ + 1]
    BY <1>2
  <2> HIDE DEF p
  <2>3. \A c \in BlockNums : pins[t][c] \in Int /\ p[t][c] \in Int
    BY <1>1, <2>1
  <2> QED BY <2>1, <2>2, <2>3
<1>4. \A c \in BlockNums : /\ s \in PinnedScans(t, c) <=> c = a
                           /\ s \in PinnedScans(t, c)' <=> c = b
  BY DEF Holds, PinnedScans, a
<1>5. PinsOf(t)' /\ \A c \in BlockNums : pins'[t][c] \in Nat
  BY <1>3, <1>4, PinCount, ZenonT(40)
<1>6. pins' \in [Txs -> [BlockNums -> Nat]]
  <2>1. \A u \in Txs : pins'[u] \in [BlockNums -> Nat]
    <3> SUFFICES ASSUME NEW u \in Txs PROVE pins'[u] \in [BlockNums -> Nat]
      OBVIOUS
    <3>1. CASE u = t
      BY <1>3, <1>5, <3>1
    <3>2. CASE u # t
      BY <1>1, <1>3, <3>2
    <3> QED BY <3>1, <3>2
  <2> QED BY <1>3, <2>1
<1> QED BY <1>3, <1>5, <1>6 DEF PinsGood

(* After a call that throws the pins are for the rollback to release.      *)
LEMMA PinsOfThrown ==
  ASSUME TableAssumption, Types, NEW t \in Txs, NEW s \in Scans, StepOn(t, s), PinsOf(t),
         Throw(t), UNCHANGED pins \/ (Holds(t, s) /\ pins' = Closed(t, s))
  PROVE  PinsGood(t)
<1>1. ~Running(t)'
  BY Throws, CallStates DEF Running
<1>2. CASE UNCHANGED pins
  BY <1>1, <1>2 DEF PinsGood, PinsOf, Types
<1>3. CASE Holds(t, s) /\ pins' = Closed(t, s)
  BY <1>1, <1>3, PinsClosed
<1> QED BY <1>2, <1>3

(* Between two calls a scan has its block pinned.                          *)
LEMMA MineHolds ==
  ASSUME TableAssumption, NEW t \in Txs, NEW s \in Scans, Mine(t, s)
  PROVE  Holds(t, s)
BY CallStates DEF Mine, Holds, In, TableAssumption

(* All steps on a scan.                                                    *)
LEMMA OwnPins ==
  ASSUME TableAssumption, Inv, NEW t \in Txs, NEW s \in Scans, StepOn(t, s), ScanAct(t, s), PinsOf(t)
  PROVE  PinsGood(t)
<1>0. Types
  BY DEF Inv
<1>1. s # None /\ t # None
  BY DEF TableAssumption
<1>2. ASSUME NEW p, NEW b, PinThrows(t, p, b), p = pins \/ (Holds(t, s) /\ p = Closed(t, s))
      PROVE  PinsGood(t)
  BY <1>0, <1>2, PinsOfThrown DEF PinThrows
<1>3. ASSUME Mine(t, s), NEW b \in BlockNums, NEW k \in Slots \cup {-1},
             MoveTo(t, s, Closed(t, s), <<b, k>>), UNCHANGED call
      PROVE  PinsGood(t)
  <2>1. scan'[s] = [tx |-> t, blk |-> b, slot |-> k] /\ pins' = Pinned(Closed(t, s), t, b)
    BY <1>0, <1>3, Moved
  <2>2. Holds(t, s) /\ Holds(t, s)'
    BY <1>1, <1>3, <2>1, MineHolds, CallStates DEF Mine, Holds, In
  <2> QED BY <1>0, <2>1, <2>2, PinsMoved
<1>4. ASSUME UNCHANGED pins, scan'[s].tx = scan[s].tx, scan'[s].blk = scan[s].blk,
             ~In(t, s, "insert", "append"), ~In(t, s, "insert", "append")'
      PROVE  PinsGood(t)
  <2>1. \A b \in BlockNums : s \in PinnedScans(t, b)' <=> s \in PinnedScans(t, b)
    BY <1>4 DEF PinnedScans
  <2> QED BY <1>0, <1>4, <2>1, PinsKept
<1>5. ASSUME Mine(t, s) PROVE ~In(t, s, "insert", "append")
  BY <1>5, MineHolds DEF Holds
<1>6. ASSUME Return(t) PROVE ~In(t, s, "insert", "append")'
  BY <1>0, <1>1, <1>6, Returns, CallStates DEF In
<1>7. ASSUME NEW op, NEW pc, In(t, s, op, pc), pc # "append" PROVE ~In(t, s, "insert", "append")
  BY <1>7 DEF In
<1>8. ASSUME NEW op, NEW pc, Goto(t, s, op, pc), pc # "append" PROVE ~In(t, s, "insert", "append")'
  <2>1. call'[t] = [op |-> op, scan |-> s, at |-> pc]
    BY <1>0, <1>8 DEF Goto, Types
  <2> QED BY <1>8, <2>1 DEF In
<1>9. CASE Open(t, s)
  <2>1. scan[s].tx = None /\ call[t] = Idle
    BY <1>9 DEF Open
  <2>2. ~Holds(t, s)
    BY <1>1, <2>1 DEF Holds
  <2>3. CASE NumBlocks = 0
    <3>1. UNCHANGED <<pins, scan>>
      BY <1>9, <2>3 DEF Open
    <3>2. \A b \in BlockNums : s \in PinnedScans(t, b)' <=> s \in PinnedScans(t, b)
      BY <1>1, <2>1, <3>1 DEF PinnedScans
    <3> QED BY <1>0, <3>1, <3>2, PinsKept
  <2>4. CASE MoveTo(t, s, pins, FirstOf(0)) /\ UNCHANGED call
    <3>0. 0 \in BlockNums
      BY DEF BlockNums, TableAssumption
    <3>1. scan'[s] = [tx |-> t, blk |-> 0, slot |-> -1] /\ pins' = Pinned(pins, t, 0)
      BY <1>0, <2>4, <3>0, MovedFirst
    <3>2. Holds(t, s)'
      BY <1>1, <2>1, <2>4, <3>1, CallStates DEF Holds, In
    <3> QED BY <1>0, <2>2, <3>0, <3>1, <3>2, PinsOpened
  <2> QED BY <1>9, <1>2, <2>3, <2>4 DEF Open
<1>10. CASE before_first(t, s)
  <2>1. Mine(t, s) /\ Holds(t, s)
    BY <1>10, MineHolds DEF before_first
  <2>2. \/ MoveTo(t, s, Closed(t, s), <<0, -1>>) /\ UNCHANGED call
        \/ PinThrows(t, Closed(t, s), 0)
    BY <1>10 DEF before_first, FirstOf
  <2>3. 0 \in BlockNums /\ -1 \in Slots \cup {-1}
    BY DEF BlockNums, TableAssumption
  <2> QED BY <2>1, <2>2, <2>3, <1>2, <1>3
<1>11. CASE \E r \in Rids : move_to_rid(t, s, r)
  <2>1. PICK r \in Rids : move_to_rid(t, s, r)
    BY <1>11
  <2>2. Mine(t, s) /\ Holds(t, s)
    BY <2>1, MineHolds DEF move_to_rid
  <2>3. r = <<r[1], r[2]>> /\ r[1] \in BlockNums /\ r[2] \in Slots \cup {-1}
    BY DEF Rids
  <2>4. \/ MoveTo(t, s, Closed(t, s), <<r[1], r[2]>>) /\ UNCHANGED call
        \/ PinThrows(t, Closed(t, s), r[1])
    BY <2>1, <2>3 DEF move_to_rid
  <2> QED BY <2>2, <2>3, <2>4, <1>2, <1>3
<1>12. CASE close(t, s)
  <2>0. scan' = [scan EXCEPT ![s] = NoScan]
    BY <1>12 DEF close
  <2>1. Holds(t, s) /\ pins' = Closed(t, s)
    BY <1>12, MineHolds DEF close
  <2>2. scan'[s].tx = None
    <3>1. scan'[s] = [tx |-> None, blk |-> 0, slot |-> -1]
      BY <1>0, <2>0, Dropped
    <3> QED BY <3>1
  <2>3. ~Holds(t, s)'
    BY <1>1, <2>2 DEF Holds
  <2> QED BY <1>0, <2>1, <2>3, PinsClosed
<1>13. CASE next_after(t, s)
  <2> DEFINE k == FirstSlot(Candidates(s, used))
  <2>1. k \in Slots \cup {-1}
    BY <1>0, CandidateSlots
  <2>2. /\ scan' = [scan EXCEPT ![s].slot = k] /\ (Goto(t, s, "next", "last") \/ Return(t))
        /\ UNCHANGED pins /\ (Mine(t, s) \/ In(t, s, "next", "search"))
    BY <1>13 DEF next_after
  <2> HIDE DEF k
  <2>3. scan'[s].tx = scan[s].tx /\ scan'[s].blk = scan[s].blk
    BY <1>0, <2>1, <2>2, SlotSet
  <2>4. ~In(t, s, "insert", "append") /\ ~In(t, s, "insert", "append")'
    BY <2>2, <1>5, <1>6, <1>7, <1>8
  <2> QED BY <2>2, <2>3, <2>4, <1>4
<1>14. CASE insert_after(t, s)
  <2>1. /\ scan' = [scan EXCEPT ![s].slot = -1] \/ UNCHANGED scan
        /\ Goto(t, s, "insert", "last") \/ Goto(t, s, "insert", "flag")
        /\ UNCHANGED pins /\ (Mine(t, s) \/ In(t, s, "insert", "search"))
    BY <1>14 DEF insert_after
  <2>2. scan'[s].tx = scan[s].tx /\ scan'[s].blk = scan[s].blk
    BY <1>0, <2>1, SlotSet
  <2>3. ~In(t, s, "insert", "append") /\ ~In(t, s, "insert", "append")'
    BY <2>1, <1>5, <1>7, <1>8
  <2> QED BY <2>1, <2>2, <2>3, <1>4
<1>15. CASE set_flag(t, s)
  <2> DEFINE k == FirstSlot(Candidates(s, empty))
  <2>1. k \in Slots \cup {-1}
    BY <1>0, CandidateSlots
  <2>2. /\ scan' = [scan EXCEPT ![s].slot = k] /\ Return(t)
        /\ UNCHANGED pins /\ In(t, s, "insert", "flag")
    BY <1>15 DEF set_flag
  <2> HIDE DEF k
  <2>3. scan'[s].tx = scan[s].tx /\ scan'[s].blk = scan[s].blk
    BY <1>0, <2>1, <2>2, SlotSet
  <2>4. ~In(t, s, "insert", "append") /\ ~In(t, s, "insert", "append")'
    BY <2>2, <1>6, <1>7
  <2> QED BY <2>2, <2>3, <2>4, <1>4
<1>16. ASSUME NEW op \in {"next", "insert"}, at_last_block(t, s, op) PROVE PinsGood(t)
  <2>1. In(t, s, op, "last") /\ ~In(t, s, "insert", "append")
    BY <1>16, <1>7 DEF at_last_block
  <2>2. call[t].scan = s /\ call[t].op = op
    BY <1>0, <2>1, InScan
  <2>3. scan[s].tx = t /\ Holds(t, s)
    BY <2>1, <2>2 DEF Inv, Calls, CallOf, Holds
  <2>4. CASE AtLastBlock(s) /\ op = "next"
    <3>1. UNCHANGED <<pins, scan>> /\ Return(t)
      BY <1>16, <2>4 DEF at_last_block
    <3> QED BY <2>1, <3>1, <1>4, <1>6
  <2>5. CASE AtLastBlock(s) /\ op = "insert"
    <3>1. pins' = Closed(t, s) /\ Goto(t, s, "insert", "append")
      BY <1>16, <2>5 DEF at_last_block
    <3>2. ~Holds(t, s)'
      BY <1>0, <3>1 DEF Goto, Types, Holds, In
    <3> QED BY <1>0, <2>3, <3>1, <3>2, PinsClosed
  <2>6. CASE ~AtLastBlock(s)
    <3>1. \/ MoveTo(t, s, Closed(t, s), FirstOf(scan[s].blk + 1)) /\ Goto(t, s, op, "search")
          \/ PinThrows(t, Closed(t, s), scan[s].blk + 1)
      BY <1>16, <2>6 DEF at_last_block
    <3>2. scan[s].blk + 1 \in BlockNums
      <4>1. scan[s].blk < NumBlocks /\ scan[s].blk # NumBlocks - 1
        BY <1>1, <2>3, <2>6 DEF Inv, Positions, ScanOf, AtLastBlock
      <4>2. scan[s].blk \in 0 .. MaxBlocks - 1 /\ NumBlocks \in 0 .. MaxBlocks /\ MaxBlocks \in Nat
        BY <1>0, Blocks DEF BlockNums, TableAssumption
      <4> QED BY <4>1, <4>2 DEF BlockNums
    <3>3. ASSUME MoveTo(t, s, Closed(t, s), FirstOf(scan[s].blk + 1)), Goto(t, s, op, "search")
          PROVE  PinsGood(t)
      <4> DEFINE b == scan[s].blk + 1
      <4>1. scan'[s] = [tx |-> t, blk |-> b, slot |-> -1] /\ pins' = Pinned(Closed(t, s), t, b)
        BY <1>0, <3>2, <3>3, MovedFirst
      <4>2. ~In(t, s, "insert", "append")'
        BY <3>3, <1>8
      <4>3. Holds(t, s)' /\ scan'[s].blk = b /\ b \in BlockNums
        BY <3>2, <4>1, <4>2 DEF Holds
      <4> HIDE DEF b
      <4> QED BY <1>0, <2>3, <4>1, <4>3, PinsMoved
    <3> QED BY <2>3, <3>1, <3>3, <1>2
  <2> QED BY <2>4, <2>5, <2>6
<1>17. ASSUME NEW op \in {"open", "insert"}, append(t, s, op) PROVE PinsGood(t)
  <2>1. In(t, s, op, "append")
    BY <1>17 DEF append
  <2>2. call[t].scan = s /\ call[t].op = op
    BY <1>0, <2>1, InScan
  <2>3. ~Holds(t, s)
    <3>1. CASE op = "open"
      BY <1>1, <2>2, <3>1 DEF Inv, Calls, CallOf, Holds
    <3>2. CASE op = "insert"
      BY <2>1, <3>2 DEF Holds
    <3> QED BY <3>1, <3>2
  <2>4. \/ /\ MoveTo(t, s, pins, FirstOf(NumBlocks))
           /\ Goto(t, s, op, "search") \/ Return(t)
        \/ PinThrows(t, pins, NumBlocks)
    BY <1>17 DEF append
  <2>5. NumBlocks \in BlockNums
    BY <1>0, <1>17, Blocks DEF append
  <2>6. ASSUME MoveTo(t, s, pins, FirstOf(NumBlocks)), Goto(t, s, op, "search") \/ Return(t)
        PROVE  PinsGood(t)
    <3> DEFINE b == NumBlocks
    <3>1. scan'[s] = [tx |-> t, blk |-> b, slot |-> -1] /\ pins' = Pinned(pins, t, b)
      BY <1>0, <2>5, <2>6, MovedFirst
    <3>2. ~In(t, s, "insert", "append")'
      BY <2>6, <1>6, <1>8
    <3>3. Holds(t, s)' /\ scan'[s].blk = b /\ b \in BlockNums
      BY <2>5, <3>1, <3>2 DEF Holds
    <3> HIDE DEF b
    <3> QED BY <1>0, <2>3, <3>1, <3>3, PinsOpened
  <2> QED BY <2>4, <2>6, <1>2
<1>18. CASE get_val(t, s) \/ remove(t, s) \/ \E v \in Vals : set_val(t, s, v)
  <2>1. UNCHANGED <<pins, call, scan>> /\ call[t] = Idle
    BY <1>18 DEF get_val, remove, set_val, OnRecord, Mine
  <2>2. ~In(t, s, "insert", "append") /\ ~In(t, s, "insert", "append")'
    BY <1>1, <2>1, CallStates DEF In
  <2> QED BY <2>1, <2>2, <1>4
<1> QED BY <1>9, <1>10, <1>11, <1>12, <1>13, <1>14, <1>15, <1>16, <1>17, <1>18 DEF ScanAct

-----------------------------------------------------------------------------
(* The invariant.                                                          *)

(* It holds after a step if what the step may change of t satisfies it.    *)
LEMMA Together ==
  ASSUME TableAssumption, IInv, NEW t \in Txs, LocksOnly(t), FileOnly(t), LogOnly(t), Frame(t),
         Types', LogOf(t)', CallOf(t)', PinsOf(t)', Positions',
         Running(t)' => \A q \in Scans : pass'[q].tx = t => PassOf(q)'
  PROVE  IInv'
<1>1. Types /\ Logs /\ Calls /\ Positions /\ Passes /\ Exclusion /\ PinsMatchScans
  BY DEF IInv
<1>2. Exclusion'
  BY DEF LocksOnly
<1>3. ASSUME NEW u \in Txs PROVE LogOf(u)' /\ CallOf(u)' /\ PinsOf(u)'
  <2>1. LogOf(u) /\ CallOf(u) /\ PinsOf(u)
    BY <1>1 DEF Logs, Calls, PinsMatchScans, PinsOf, PinnedScans
  <2>2. CASE u = t
    BY <2>2
  <2>3. CASE u # t
    BY <1>1, <2>1, <2>3, OthersLogs, OthersCalls, OthersPins
  <2> QED BY <2>2, <2>3
<1>4. ASSUME NEW q \in Scans PROVE PassOf(q)'
  <2>1. CASE pass'[q].tx = None \/ (pass'[q].tx = t /\ ~Running(t)')
    BY <2>1 DEF PassOf
  <2>2. CASE pass'[q].tx = t /\ Running(t)'
    BY <2>2
  <2>3. CASE pass'[q].tx \notin {t, None}
    BY <1>1, <2>3, OthersPasses
  <2> QED BY <2>1, <2>2, <2>3
<1>5. PinsMatchScans'
  BY <1>3 DEF PinsMatchScans, PinsOf, PinnedScans
<1>6. Logs' /\ Calls' /\ Passes'
  BY <1>3, <1>4 DEF Logs, Calls, Passes
<1> QED BY <1>2, <1>5, <1>6 DEF IInv

(* What a step on a scan changes.                                          *)
LEMMA StepsOn ==
  ASSUME TableAssumption, IInv, NEW t \in Txs, NEW s \in Scans, ScanAct(t, s)
  PROVE  Inv /\ StepOn(t, s) /\ LogOnly(t) /\ LogOf(t)'
<1>1. Types /\ Exclusion /\ Calls /\ Positions /\ Passes /\ LogOf(t) /\ Inv
  BY DEF IInv, Inv, Logs
<1>2. LocksOnly(t) /\ Grown(t)
  BY <1>1, ScanLocks
<1>3. FileOnly(t) /\ LogOnly(t) /\ LogOf(t)'
  BY <1>1, <1>2, ScanFiles
<1> QED BY <1>1, <1>2, <1>3, ScanWorks, ScanSteps DEF StepOn

(* The invariant after a step on a scan.                                   *)
LEMMA ScanKeeps ==
  ASSUME TableAssumption, IInv, NEW t \in Txs, NEW s \in Scans, ScanAct(t, s)
  PROVE  IInv'
<1>1. Types /\ Positions /\ Calls /\ PinsOf(t) /\ Inv
  BY DEF IInv, Inv, PinsMatchScans, PinsOf, PinnedScans
<1>2. StepOn(t, s) /\ LogOnly(t) /\ LogOf(t)'
  BY StepsOn
<1>3. LocksOnly(t) /\ FileOnly(t)
  BY <1>2 DEF StepOn
<1>4. Own(t, s) /\ PinsGood(t)
  BY <1>1, <1>2, OwnStep, OwnPins
<1>5. Frame(t)
  BY <1>1, <1>2, <1>4, ScanFrame DEF StepOn, Own, PinsGood
<1>6. Types'
  BY <1>2, <1>4 DEF Types, LocksOnly, FileOnly, LogOnly, StepOn, ScanOnly, Own, PassOnly,
    PinsGood
<1>7. Positions'
  <2> SUFFICES ASSUME NEW q \in Scans \ {s} PROVE ScanOf(q)'
    BY <1>4 DEF Own, Positions
  <2>1. scan'[q] = scan[q] /\ pass'[q].tx = pass[q].tx /\ pass'[q].ended = pass[q].ended
    BY <1>2, <1>4 DEF StepOn, ScanOnly, Own, PassOnly
  <2>2. /\ NumBlocks <= NumBlocks' /\ NumBlocks \in Int /\ NumBlocks' \in Int
        /\ scan[q].blk \in Int
    BY <1>1, <1>3, Blocks DEF FileOnly, NumBlocks, BlockNums
  <2>3. ScanOf(q)
    BY <1>1 DEF Positions
  <2> QED BY <2>1, <2>2, <2>3 DEF ScanOf
<1> QED BY <1>2, <1>3, <1>4, <1>5, <1>6, <1>7, Together DEF Own, PinsGood

(* A call that throws, a rollback that begins, a change undone.            *)
LEMMA NotRunningKeeps ==
  ASSUME TableAssumption, IInv, NEW t \in Txs, UNCHANGED <<locks, pins, scan, pass>>,
         CallsOnly(t), call'[t] \in {Failed, RollingBack}, FileOnly(t), LogOnly(t), LogOf(t)'
  PROVE  IInv'
<1>1. Types /\ Exclusion /\ Calls /\ Positions
  BY DEF IInv
<1>2. LocksOnly(t)
  BY <1>1, SameLocks
<1>3. ~Running(t)' /\ call'[t].scan = None /\ \A q \in Scans : q # None
  BY CallStates DEF Running, TableAssumption
<1>4. Frame(t)
  BY <1>3 DEF Frame, CallsOnly
<1>5. Types'
  BY <1>1 DEF Types, CallsOnly, FileOnly, LogOnly
<1>6. CallOf(t)'
  BY <1>3, CallEnds
<1>7. Positions'
  <2>1. /\ NumBlocks <= NumBlocks' /\ NumBlocks \in Int /\ NumBlocks' \in Int
        /\ \A q \in Scans : scan[q].blk \in Int
    BY <1>1, Blocks DEF FileOnly, NumBlocks, BlockNums
  <2> QED BY <1>1, <2>1 DEF Positions, ScanOf
<1>8. PinsOf(t)'
  BY <1>3 DEF PinsOf
<1> QED BY <1>2, <1>3, <1>4, <1>5, <1>6, <1>7, <1>8, Together

(* After a lock that is refused.                                           *)
LEMMA GiveUpKeeps ==
  ASSUME TableAssumption, IInv, NEW t \in Txs, GiveUp(t)
  PROVE  IInv'
<1>1. Types /\ LogOf(t) /\ Exclusion
  BY DEF IInv, Logs
<1>2. Throw(t) /\ UNCHANGED <<file, locks, pins, log>>
  BY DEF GiveUp
<1>3. CallsOnly(t) /\ call'[t] = Failed /\ UNCHANGED <<scan, pass>>
  BY <1>1, <1>2, Throws
<1>4. FileOnly(t) /\ LogOnly(t) /\ Grown(t)
  BY <1>1, <1>2, SameFile, SameLog, SameLocks
<1>5. LogOf(t)'
  BY <1>1, <1>2, <1>3, <1>4, KeepsLog, CallStates
<1> QED BY <1>2, <1>3, <1>4, <1>5, NotRunningKeeps

(* After a rollback has begun.                                             *)
LEMMA RollbackKeeps ==
  ASSUME TableAssumption, IInv, NEW t \in Txs, rollback(t)
  PROVE  IInv'
<1>1. Types /\ LogOf(t) /\ Exclusion
  BY DEF IInv, Logs
<1>2. UNCHANGED <<file, locks, pins, log, scan, pass>>
  BY DEF rollback
<1>3. CallsOnly(t) /\ call'[t] = RollingBack
  BY <1>1, CallStates DEF rollback, RollingBack, Types, CallsOnly
<1>4. FileOnly(t) /\ LogOnly(t) /\ Grown(t)
  BY <1>1, <1>2, SameFile, SameLog, SameLocks
<1>5. LogOf(t)'
  BY <1>1, <1>2, <1>3, <1>4, KeepsLog, CallStates
<1> QED BY <1>2, <1>3, <1>4, <1>5, NotRunningKeeps

(* After one change is undone.                                             *)
LEMMA UndoKeeps ==
  ASSUME TableAssumption, IInv, NEW t \in Txs, undo(t)
  PROVE  IInv'
<1>1. Types /\ LogOf(t) /\ Exclusion
  BY DEF IInv, Logs
<1>2. UNCHANGED <<locks, pins, call, scan, pass>> /\ call[t].op = "rollback"
  BY DEF undo
<1>3. call[t] = RollingBack
  <2>1. call[t].scan = None
    BY <1>1, <1>2, InCall
  <2>2. call[t] \in {Idle, Failed, RollingBack}
    BY <1>1, <2>1, InCall
  <2>3. call[t] # Idle /\ call[t] # Failed
    BY <1>2, CallStates
  <2> QED BY <2>2, <2>3
<1>4. CallsOnly(t) /\ call'[t] = RollingBack
  BY <1>1, <1>2, <1>3, SameCalls
<1>5. /\ FileOnly(t) /\ LogOnly(t) /\ NumBlocks' = NumBlocks
      /\ Len(log[t]) \in 1 .. MaxLog /\ Len(log'[t]) = Len(log[t]) - 1
      /\ \A i \in 1 .. Len(log'[t]) : log'[t][i] = log[t][i]
  BY <1>1, UndoStep
<1>6. LogOf(t)'
  <2>1. call'[t].op # "insert"
    BY <1>4, CallStates
  <2>2. Len(log'[t]) <= MaxLog /\ \A i \in 1 .. Len(log'[t]) : i \in 1 .. Len(log[t])
    BY <1>5 DEF TableAssumption
  <2> QED BY <1>1, <1>2, <1>5, <2>1, <2>2 DEF LogOf
<1> QED BY <1>2, <1>4, <1>5, <1>6, NotRunningKeeps

(* The end of a transaction.                                               *)
LEMMA EndKeeps ==
  ASSUME TableAssumption, IInv, NEW t \in Txs, End(t)
  PROVE  IInv'
<1>1. Types /\ Exclusion /\ Calls /\ Positions
  BY DEF IInv
<1>2. LocksOnly(t) /\ FileOnly(t) /\ NumBlocks' = NumBlocks
  BY <1>1, NoMoreLocks, SameFile DEF End
<1>3. /\ CallsOnly(t) /\ call'[t] = Idle
  BY <1>1, CallStates DEF End, Types, CallsOnly
<1>4. /\ LogOnly(t) /\ log'[t] = <<>>
  BY <1>1 DEF End, Types, LogOnly
<1>5. /\ pins' \in [Txs -> [BlockNums -> Nat]] /\ \A u \in Txs \ {t} : pins'[u] = pins[u]
      /\ \A b \in BlockNums : pins'[t][b] = 0
  BY <1>1 DEF End, Types, NoPins
<1>6. /\ NoScan \in ScanState /\ NoScan.tx = None /\ NoPass \in PassState /\ NoPass.tx = None
  BY DEF NoScan, NoPass, ScanState, PassState, BlockNums, TableAssumption
<1>7. /\ scan' \in [Scans -> ScanState] /\ pass' \in [Scans -> PassState]
      /\ \A q \in Scans : /\ scan[q].tx = t => scan'[q] = NoScan
                          /\ scan[q].tx # t => scan'[q] = scan[q]
                          /\ pass[q].tx = t => pass'[q] = NoPass
                          /\ pass[q].tx # t => pass'[q] = pass[q]
  BY <1>1, <1>6 DEF End, Forgotten, Types
<1>8. t # None /\ call'[t].scan = None /\ \A q \in Scans : q # None
  BY <1>3, CallStates DEF TableAssumption
<1>9. Frame(t)
  <2>1. \A q \in Scans, u \in Txs \ {t} : call[u].scan = q => scan[q].tx # t
    BY <1>1, <1>8 DEF Calls, CallOf
  <2> QED BY <1>3, <1>5, <1>6, <1>7, <1>8, <2>1 DEF Frame, CallsOnly
<1>10. Types'
  BY <1>2, <1>3, <1>4, <1>5, <1>7 DEF Types, LocksOnly, FileOnly, CallsOnly, LogOnly
<1>11. CallOf(t)'
  BY <1>8, CallEnds
<1>12. LogOf(t)'
  BY <1>3, <1>4, CallStates DEF LogOf, TableAssumption
<1>13. PinsOf(t)'
  <2>1. \A b \in BlockNums : PinnedScans(t, b)' = {}
    BY <1>6, <1>7, <1>8 DEF PinnedScans
  <2> QED BY <1>5, <2>1, FS_EmptySet DEF PinsOf
<1>14. Positions'
  <2> SUFFICES ASSUME NEW q \in Scans PROVE ScanOf(q)'
    BY DEF Positions
  <2>1. ScanOf(q)
    BY <1>1 DEF Positions
  <2> QED BY <1>2, <1>6, <1>7, <2>1 DEF ScanOf
<1>15. \A q \in Scans : pass'[q].tx # t
  BY <1>6, <1>7, <1>8
<1> QED BY <1>2, <1>4, <1>9, <1>10, <1>11, <1>12, <1>13, <1>14, <1>15, Together

(* After no step at all.                                                   *)
LEMMA Stutters ==
  ASSUME IInv, UNCHANGED vars
  PROVE  IInv'
<1>1. UNCHANGED <<file, locks, pins, log, call, scan, pass>>
  BY DEF vars
<1>2. Types' /\ Exclusion' /\ Positions' /\ PinsMatchScans'
  BY <1>1 DEF IInv, Types, Exclusion, Positions, ScanOf, PinsMatchScans, Running, In, NumBlocks
<1>3. Logs' /\ Calls'
  BY <1>1 DEF IInv, Logs, LogOf, Calls, CallOf, NumBlocks, Candidates
<1>4. Passes'
  BY <1>1 DEF IInv, Passes, PassOf, Behind, In, InUse, NumBlocks, At, Running
<1> QED BY <1>2, <1>3, <1>4 DEF IInv

(* At first.                                                               *)
LEMMA InitHolds ==
  ASSUME TableAssumption, Init
  PROVE  IInv
<1> USE DEF Init
<1>1. call \in [Txs -> CallState] /\ \A t \in Txs : call[t].scan = None /\ call[t].op = "none"
  BY CallStates
<1>2. scan \in [Scans -> ScanState] /\ \A s \in Scans : scan[s].tx = None
  BY DEF NoScan, ScanState, BlockNums, TableAssumption
<1>3. pass \in [Scans -> PassState] /\ \A s \in Scans : pass[s].tx = None
  BY DEF NoPass, PassState
<1>4. file \in Seq(Block) /\ Len(file) <= MaxBlocks
  <2>1. PICK f \in InitFiles : file = [i \in 1 .. Len(f) |-> Left(f[i])]
    OBVIOUS
  <2>2. f \in Seq(SUBSET Slots) /\ Len(f) <= MaxBlocks
    BY DEF TableAssumption, Slots
  <2>3. \A U : Left(U) \in Block
    BY DEF Left, Block, Slot, TableAssumption
  <2> QED BY <2>1, <2>2, <2>3
<1>5. Types
  BY <1>1, <1>2, <1>3, <1>4 DEF Types, NoLocks, NoPins
<1>6. Exclusion
  BY DEF Exclusion, NoLocks
<1>7. Logs
  BY <1>1 DEF Logs, LogOf, TableAssumption
<1>8. Calls /\ Positions /\ Passes
  BY <1>1, <1>2, <1>3 DEF Calls, CallOf, Positions, ScanOf, Passes, PassOf, TableAssumption
<1>9. PinsMatchScans
  <2>1. \A t \in Txs, b \in BlockNums : PinnedScans(t, b) = {}
    BY <1>2 DEF PinnedScans, TableAssumption
  <2>2. \A t \in Txs : PinsOf(t)
    BY <2>1, FS_EmptySet DEF PinsOf, NoPins
  <2> QED BY <2>2 DEF PinsMatchScans, PinsOf, PinnedScans
<1> QED BY <1>5, <1>6, <1>7, <1>8, <1>9 DEF IInv

(* The inductive invariant: the table with its locks, scans, pins and      *)
(* passes, whatever any number of transactions do (tablescan.cpp,          *)
(* recordpage.cpp, transaction.cpp:82-110).                                *)
THEOREM TableInvariant == Spec => []IInv
<1>1. TableAssumption
  BY TableAssumption
<1>2. Init => IInv
  BY <1>1, InitHolds
<1>3. IInv /\ [Next]_vars => IInv'
  <2> SUFFICES ASSUME IInv, [Next]_vars PROVE IInv'
    OBVIOUS
  <2>1. ASSUME NEW t \in Txs, Act(t) PROVE IInv'
    BY <1>1, <2>1, ActCases, ScanKeeps, GiveUpKeeps, RollbackKeeps, UndoKeeps, EndKeeps
  <2>2. CASE AtBounds \/ UNCHANGED vars
    BY <2>2, Stutters DEF AtBounds
  <2> QED BY <2>1, <2>2 DEF Next
<1> QED BY <1>2, <1>3, PTL DEF Spec

(* The variables have their types: in particular a scan never stands on a  *)
(* slot that no block has, pins never fall below 0, and the log stays      *)
(* within its bound although inserts that have begun are counted late.     *)
THEOREM TypeCorrect == Spec => []TypeOK
<1>1. IInv => TypeOK
  <2> SUFFICES ASSUME IInv PROVE TypeOK
    OBVIOUS
  <2>1. Types /\ Logs
    BY DEF IInv
  <2>2. \E n \in 0 .. MaxBlocks :
          file \in [1 .. n -> [Slots -> [flag : {empty, used}, val : Vals]]]
    <3>1. Len(file) \in 0 .. MaxBlocks /\ file \in [1 .. Len(file) -> Block]
      BY <2>1, TableAssumption DEF Types, TableAssumption
    <3> QED BY <3>1 DEF Block, Slot
  <2>3. \A t \in Txs : /\ Len(log[t]) <= MaxLog
                       /\ \A i \in 1 .. Len(log[t]) :
                            log[t][i] \in [rid : Rids, fld : {"flag", "val"},
                                           old : {empty, used} \cup Vals]
    BY <2>1 DEF Types, Logs, LogOf, UndoRec
  <2>4. call \in [Txs -> [op : {"none", "open", "next", "insert", "failed", "rollback"},
                          scan : Scans \cup {None},
                          at : {"return", "search", "flag", "last", "append"}]]
    <3>1. CallState \subseteq [op : {"none", "open", "next", "insert", "failed", "rollback"},
                               scan : Scans \cup {None},
                               at : {"return", "search", "flag", "last", "append"}]
      BY CallStates DEF CallState
    <3> QED BY <2>1, <3>1 DEF Types
  <2> QED BY <2>1, <2>2, <2>3, <2>4 DEF TypeOK, Types, ScanState, PassState
<1> QED BY <1>1, TableInvariant, PTL

(* No record is returned twice or left out in a pass over the table, and   *)
(* no phantom appears behind it (tablescan.cpp:26-36 and 96-117, the lock  *)
(* on the end of the file of transaction.cpp:82-92).                       *)
THEOREM PassesAreExact == Spec => []PassExact
<1>1. IInv => PassExact
  BY DEF IInv, Passes, PassOf, PassExact
<1> QED BY <1>1, TableInvariant, PTL

(* The pins of a transaction are those of its open scans, one each, so     *)
(* that a scan never leaks a buffer or frees that of another               *)
(* (tablescan.cpp:96-117, bufferlist.cpp).                                 *)
THEOREM PinsAreOfScans == Spec => []PinsMatchScans
<1>1. IInv => PinsMatchScans
  BY DEF IInv
<1> QED BY <1>1, TableInvariant, PTL

-----------------------------------------------------------------------------
(* The table keeps the promise of RecordSpec.  The committed value of a    *)
(* record is the first old value that a log holds for it; the steps that   *)
(* change a record add one log record or take back the last one, and       *)
(* neither changes what the first one is.                                  *)

-----------------------------------------------------------------------------
(* The first old value in some logs.                                       *)

(* Logged and FirstOld, for logs l and a record whose field is a.          *)
Places(l, t, r, fld) == {i \in 1 .. Len(l[t]) : l[t][i].rid = r /\ l[t][i].fld = fld}
Old(l, a, r, fld) ==
  IF \E t \in Txs : Places(l, t, r, fld) # {}
  THEN LET t == CHOOSE u \in Txs : Places(l, u, r, fld) # {}
       IN l[t][Min(Places(l, t, r, fld))].old
  ELSE a

(* FirstOld in terms of Old, so that two states can be compared.           *)
LEMMA OldIs ==
  ASSUME NEW r, NEW fld
  PROVE  FirstOld(r, fld) = Old(log, At(r)[fld], r, fld)
BY DEF FirstOld, Old, Logged, Places

(* The same after a step.                                                  *)
LEMMA OldWas ==
  ASSUME NEW r, NEW fld
  PROVE  FirstOld(r, fld)' = Old(log', At(r)'[fld], r, fld)
BY DEF FirstOld, Old, Logged, Places

(* No two transactions have changed the same record.                       *)
Separate(l) ==
  \A t \in Txs, u \in Txs : t # u =>
    \A i \in 1 .. Len(l[t]), j \in 1 .. Len(l[u]) : l[t][i].rid # l[u][j].rid

(* A field that nobody has changed.                                        *)
LEMMA NoPlaces ==
  ASSUME NEW l, NEW r, NEW fld, NEW a, \A t \in Txs : Places(l, t, r, fld) = {}
  PROVE  Old(l, a, r, fld) = a
BY DEF Old

(* A field that t has changed: the others' logs do not have it.            *)
LEMMA SomePlaces ==
  ASSUME NEW l, NEW r, NEW fld, NEW a, Separate(l), NEW t \in Txs, Places(l, t, r, fld) # {}
  PROVE  Old(l, a, r, fld) = l[t][Min(Places(l, t, r, fld))].old
<1>1. \A u \in Txs : Places(l, u, r, fld) # {} => u = t
  BY DEF Separate, Places
<1>2. t = CHOOSE u \in Txs : Places(l, u, r, fld) # {}
  BY <1>1
<1> QED BY <1>2 DEF Old

(* The least of a set stays so when greater numbers are added.             *)
LEMMA LeastStays ==
  ASSUME NEW S, NEW T, T \subseteq Nat, S \subseteq T, S # {},
         \A x \in S, y \in T \ S : x < y
  PROVE  Min(T) = Min(S)
<1>1. Min(S) \in S /\ \A y \in S : Min(S) <= y
  BY LeastNumber
<1>2. Min(T) \in T /\ \A y \in T : Min(T) <= y
  BY LeastNumber
<1>3. Min(T) \in S
  <2>1. Min(S) \in T /\ Min(S) \in Nat /\ Min(T) \in Nat /\ Min(T) <= Min(S)
    BY <1>1, <1>2
  <2>2. Min(T) \notin S => Min(S) < Min(T)
    BY <1>1, <1>2
  <2> QED BY <2>1, <2>2
<1>4. Min(S) \in Nat /\ Min(T) \in Nat /\ Min(T) <= Min(S) /\ Min(S) <= Min(T)
  BY <1>1, <1>2, <1>3
<1> QED BY <1>4

(* The logs have the type that Types gives them.                           *)
AreLogs(l) == l \in [Txs -> Seq(UndoRec)]

(* The logs m are l with the record e added by t.                          *)
Extended(l, m, t, e) ==
  /\ \A u \in Txs \ {t} : m[u] = l[u]
  /\ Len(m[t]) = Len(l[t]) + 1 /\ \A i \in 1 .. Len(l[t]) : m[t][i] = l[t][i]
  /\ m[t][Len(m[t])] = e

(* The records that a log names when it is longer by one record.           *)
LEMMA RecordsOf ==
  ASSUME NEW l, NEW m, Len(l) \in Nat, Len(m) = Len(l) + 1, \A i \in 1 .. Len(l) : m[i] = l[i]
  PROVE  {m[i].rid : i \in 1 .. Len(m)}
           = {l[i].rid : i \in 1 .. Len(l)} \cup {m[Len(l) + 1].rid}
<1> DEFINE I == 1 .. Len(l)
           J == 1 .. Len(m)
           n == Len(l) + 1
<1>1. J = I \cup {n} /\ \A i \in I : m[i] = l[i]
  OBVIOUS
<1> HIDE DEF I, J, n
<1>2. {m[i].rid : i \in J} = {l[i].rid : i \in I} \cup {m[n].rid}
  BY <1>1
<1> QED BY <1>2 DEF I, J, n

(* The field is a before the change that e describes, and b after it.      *)
Changes(e, r, fld, a, b) == IF e.rid = r /\ e.fld = fld THEN a = e.old ELSE b = a

(* A change that is logged with its old value, from l with a to m with b,  *)
(* does not show in the first old values; nor does its undo, from m to l.  *)
LEMMA OldStays ==
  ASSUME NEW l, AreLogs(l), NEW m, AreLogs(m),
         NEW t \in Txs, NEW e, Extended(l, m, t, e), Separate(m),
         NEW r, NEW fld, NEW a, NEW b, Changes(e, r, fld, a, b)
  PROVE  Old(l, a, r, fld) = Old(m, b, r, fld)
<1> DEFINE n == Len(l[t])
           P(u) == Places(l, u, r, fld)
           Q(u) == Places(m, u, r, fld)
<1> USE DEF Extended, Changes, AreLogs
<1>1. n \in Nat /\ Len(m[t]) = n + 1
  OBVIOUS
<1>2. \A u \in Txs \ {t} : Q(u) = P(u)
  BY DEF Places
<1>3. Q(t) = IF e.rid = r /\ e.fld = fld THEN P(t) \cup {n + 1} ELSE P(t)
  <2>1. \A i \in 1 .. n : i \in Q(t) <=> i \in P(t)
    BY <1>1 DEF Places
  <2>2. n + 1 \in Q(t) <=> e.rid = r /\ e.fld = fld
    BY <1>1 DEF Places
  <2>3. P(t) \subseteq 1 .. n /\ Q(t) \subseteq 1 .. n + 1 /\ n + 1 \notin P(t)
    BY <1>1 DEF Places
  <2>4. 1 .. n + 1 = (1 .. n) \cup {n + 1}
    BY <1>1
  <2> DEFINE C == e.rid = r /\ e.fld = fld
  <2> HIDE DEF P, Q, n, C
  <2>5. \A i : i \in Q(t) <=> i \in P(t) \/ (i = n + 1 /\ C)
    BY <2>1, <2>2, <2>3, <2>4 DEF C
  <2>6. Q(t) = IF C THEN P(t) \cup {n + 1} ELSE P(t)
    BY <2>5
  <2> QED BY <2>6 DEF C
<1>4. Separate(l)
  <2>1. ASSUME NEW u \in Txs, NEW i \in 1 .. Len(l[u])
        PROVE  i \in 1 .. Len(m[u]) /\ l[u][i] = m[u][i]
    <3>1. CASE u = t
      BY <1>1, <3>1
    <3>2. CASE u # t
      BY <3>2
    <3> QED BY <3>1, <3>2
  <2>2. ASSUME NEW u \in Txs, NEW v \in Txs, u # v, NEW i \in 1 .. Len(l[u]), NEW j \in 1 .. Len(l[v])
        PROVE  l[u][i].rid # l[v][j].rid
    <3>1. i \in 1 .. Len(m[u]) /\ l[u][i] = m[u][i] /\ j \in 1 .. Len(m[v]) /\ l[v][j] = m[v][j]
      BY <2>1
    <3>2. m[u][i].rid # m[v][j].rid
      BY <2>2, <3>1 DEF Separate
    <3> QED BY <3>1, <3>2
  <2> QED BY <2>2, Zenon DEF Separate
<1>5. CASE \E u \in Txs : P(u) # {}
  <2>1. PICK u \in Txs : P(u) # {}
    BY <1>5
  <2>2. Old(l, a, r, fld) = l[u][Min(P(u))].old
    BY <1>4, <2>1, SomePlaces
  <2>3. Q(u) # {}
    BY <1>2, <1>3, <2>1
  <2>4. Old(m, b, r, fld) = m[u][Min(Q(u))].old
    BY <2>3, SomePlaces
  <2>5. Min(Q(u)) = Min(P(u)) /\ Min(P(u)) \in 1 .. Len(l[u])
    <3>1. P(u) \subseteq 1 .. Len(l[u]) /\ Q(u) \subseteq Nat
      BY DEF Places
    <3>2. P(u) \subseteq Q(u) /\ \A x \in P(u), y \in Q(u) \ P(u) : x < y
      <4>1. CASE u # t
        BY <1>2, <4>1
      <4>2. CASE u = t
        <5>1. \A x \in P(t) : x < n + 1
          BY <1>1, <3>1, <4>2
        <5> HIDE DEF P, Q
        <5> QED BY <1>3, <4>2, <5>1
      <4> QED BY <4>1, <4>2
    <3> HIDE DEF P, Q
    <3>3. Min(Q(u)) = Min(P(u))
      BY <2>1, <3>1, <3>2, LeastStays
    <3>4. P(u) \subseteq Nat
      BY <3>1
    <3>5. Min(P(u)) \in P(u)
      BY <2>1, <3>4, LeastNumber
    <3> QED BY <3>1, <3>3, <3>5
  <2>6. m[u][Min(P(u))] = l[u][Min(P(u))]
    BY <2>5
  <2> QED BY <2>2, <2>4, <2>5, <2>6
<1>6. CASE \A u \in Txs : P(u) = {}
  <2>1. Old(l, a, r, fld) = a
    BY <1>6, NoPlaces
  <2>2. CASE e.rid = r /\ e.fld = fld
    <3>1. Q(t) = {n + 1}
      BY <1>3, <1>6, <2>2
    <3>2. Old(m, b, r, fld) = m[t][Min(Q(t))].old
      <4>1. Q(t) # {}
        BY <3>1
      <4> QED BY <4>1, SomePlaces
    <3>3. Min(Q(t)) = n + 1
      <4> HIDE DEF Q, n
      <4>1. {n + 1} \subseteq Nat /\ {n + 1} # {}
        BY <1>1
      <4> QED BY <3>1, <4>1, LeastNumber
    <3> QED BY <1>1, <2>1, <2>2, <3>2, <3>3
  <2>3. CASE ~(e.rid = r /\ e.fld = fld)
    <3>1. \A u \in Txs : Q(u) = {}
      BY <1>2, <1>3, <1>6, <2>3
    <3>2. Old(m, b, r, fld) = b
      BY <3>1, NoPlaces
    <3> QED BY <2>1, <2>3, <3>2
  <2> QED BY <2>2, <2>3
<1> QED BY <1>5, <1>6

-----------------------------------------------------------------------------
(* The table as RecordSpec sees it.                                        *)

(* The values that the refinement gives touched and aborting.              *)
TouchedNow == [t \in Txs |-> Touched(t)]
RollingNow == {t \in Txs : call[t].op = "rollback"}
(* A step of the abstract specification, or one it does not see.           *)
RecordStep == [Records!Next]_(Records!vars)

(* What shows that a step of the table is one of RecordSpec's actions.     *)
LEMMA AsStutter ==
  ASSUME UNCHANGED <<Base, Work, TouchedNow, RollingNow>>
  PROVE  RecordStep
BY DEF RecordStep, Records!vars, TouchedNow, RollingNow

(* Of the current values, only that of r may be another one.               *)
Rewritten(r) == \E v \in Vals \cup {None} : Work' = [Work EXCEPT ![r] = v]

(* set_flag, set_val, remove, and an undo that is not the last of r.       *)
LEMMA AsChange ==
  ASSUME NEW t \in Txs, NEW r \in Rids,
         TouchedNow' = [TouchedNow EXCEPT ![t] = @ \cup {r}],
         \A u \in Txs \ {t} : r \notin TouchedNow[u],
         Base' = Base, RollingNow' = RollingNow, Rewritten(r)
  PROVE  RecordStep
<1>1. Records!Change(t, r)
  BY DEF Records!Change, TouchedNow, RollingNow, Rewritten
<1> QED BY <1>1 DEF RecordStep, Records!Next

(* The undo of the first change of r.                                      *)
LEMMA AsRestore ==
  ASSUME NEW t \in Txs, NEW r \in Rids, t \in RollingNow, r \in TouchedNow[t],
         TouchedNow' = [TouchedNow EXCEPT ![t] = @ \ {r}],
         UNCHANGED <<Base, RollingNow>>, Work' = [Work EXCEPT ![r] = Base[r]]
  PROVE  RecordStep
<1>1. Records!Restore(t, r)
  BY DEF Records!Restore, TouchedNow, RollingNow
<1> QED BY <1>1 DEF RecordStep, Records!Next

(* commit.                                                                 *)
LEMMA AsCommit ==
  ASSUME NEW t \in Txs, t \notin RollingNow, TouchedNow' = [TouchedNow EXCEPT ![t] = {}],
         Base' = [r \in Rids |-> IF r \in TouchedNow[t] THEN Work[r] ELSE Base[r]],
         UNCHANGED <<Work, RollingNow>>
  PROVE  RecordStep
<1>1. Records!Commit(t)
  BY DEF Records!Commit, TouchedNow, RollingNow
<1> QED BY <1>1 DEF RecordStep, Records!Next

(* rollback begins.                                                        *)
LEMMA AsStartAbort ==
  ASSUME NEW t \in Txs, RollingNow' = RollingNow \cup {t}, UNCHANGED <<Base, Work, TouchedNow>>
  PROVE  RecordStep
<1>1. Records!StartAbort(t)
  BY DEF Records!StartAbort, TouchedNow, RollingNow
<1> QED BY <1>1 DEF RecordStep, Records!Next

(* rollback ends.                                                          *)
LEMMA AsEndAbort ==
  ASSUME NEW t \in Txs, t \in RollingNow, TouchedNow[t] = {},
         RollingNow' = RollingNow \ {t}, UNCHANGED <<Base, Work, TouchedNow>>
  PROVE  RecordStep
<1>1. Records!EndAbort(t)
  BY DEF Records!EndAbort, TouchedNow, RollingNow
<1> QED BY <1>1 DEF RecordStep, Records!Next

-----------------------------------------------------------------------------
(* Before and after a step.                                                *)

(* Exclusion and what LogOf says of locks, for locks k and logs l.         *)
Excludes(k) ==
  \A t \in Txs, u \in Txs, b \in Lockable : t # u /\ k[t][b] = "x" => k[u][b] = "none"
Owned(k, l) == \A t \in Txs : \A i \in 1 .. Len(l[t]) : k[t][l[t][i].rid[1]] = "x"

(* Who logs a change of a block holds it exclusively: logs are separate.   *)
LEMMA OwnedApart ==
  ASSUME TableAssumption, NEW k, NEW l, AreLogs(l), Excludes(k), Owned(k, l)
  PROVE  Separate(l)
<1> SUFFICES ASSUME NEW t \in Txs, NEW u \in Txs, t # u, NEW i \in 1 .. Len(l[t]),
                    NEW j \in 1 .. Len(l[u]), l[t][i].rid = l[u][j].rid
             PROVE  FALSE
  BY Zenon DEF Separate
<1>1. l[t][i].rid[1] \in Lockable
  <2>1. l[t][i] \in UndoRec
    BY DEF AreLogs
  <2>2. l[t][i].rid[1] \in BlockNums
    BY <2>1 DEF UndoRec, Rids
  <2> QED BY <2>2 DEF Lockable
<1>2. k[t][l[t][i].rid[1]] = "x" /\ k[u][l[t][i].rid[1]] = "x"
  BY DEF Owned
<1> QED BY <1>1, <1>2 DEF Excludes

(* So they are, before and after every step.                               *)
LEMMA Apart ==
  ASSUME TableAssumption, IInv, IInv'
  PROVE  /\ AreLogs(log) /\ AreLogs(log')
         /\ Separate(log) /\ Separate(log')
<1>1. AreLogs(log) /\ AreLogs(log')
  BY DEF IInv, Types, AreLogs
<1>2. Excludes(locks) /\ Owned(locks, log)
  BY DEF IInv, Exclusion, Logs, LogOf, Excludes, Owned
<1>3. Excludes(locks') /\ Owned(locks', log')
  BY DEF IInv, Exclusion, Logs, LogOf, Excludes, Owned
<1> QED BY <1>1, <1>2, <1>3, OwnedApart

(* The committed records depend on the first old values only.              *)
LEMMA BaseStays ==
  ASSUME \A r \in Rids : /\ r[1] < NumBlocks' <=> r[1] < NumBlocks
                         /\ r[1] < NumBlocks => /\ FirstOld(r, "flag")' = FirstOld(r, "flag")
                                                /\ FirstOld(r, "val")' = FirstOld(r, "val")
  PROVE  Base' = Base
BY DEF Base

(* The current value of a record, and of one whose block is not there.     *)
LEMMA WorkAt ==
  ASSUME NEW r \in Rids, r[1] < NumBlocks
  PROVE  Work[r] = IF At(r).flag = used THEN At(r).val ELSE None
BY DEF Work, InUse

LEMMA WorkWas ==
  ASSUME NEW r \in Rids, r[1] < NumBlocks'
  PROVE  Work'[r] = IF At(r)'.flag = used THEN At(r)'.val ELSE None
BY DEF Work, InUse

LEMMA WorkNone ==
  ASSUME NEW r \in Rids, ~(r[1] < NumBlocks)
  PROVE  Work[r] = None /\ Base[r] = None
BY DEF Work, InUse, Base

LEMMA WorkWasNone ==
  ASSUME NEW r \in Rids, ~(r[1] < NumBlocks')
  PROVE  Work'[r] = None /\ Base'[r] = None
BY DEF Work, InUse, Base

(* The records after a change of one field of r.                           *)
LEMMA WorkChanges ==
  ASSUME TableAssumption, Types', NumBlocks' = NumBlocks, NEW r \in Rids, r[1] < NumBlocks,
         \A q \in Rids \ {r} : q[1] < NumBlocks => At(q)' = At(q)
  PROVE  Rewritten(r) /\ Work' = [Work EXCEPT ![r] = Work'[r]]
<1>1. At(r)' \in Slot
  <2>1. file' \in Seq(Block) /\ r[1] + 1 \in 1 .. Len(file') /\ r[2] \in Slots
    BY DEF Types, Rids, BlockNums, NumBlocks
  <2>2. file'[r[1] + 1] \in Block
    BY <2>1
  <2> QED BY <2>1, <2>2 DEF At, Block
<1>2. Work'[r] \in Vals \cup {None}
  BY <1>1, WorkWas DEF Slot
<1>3. \A q \in Rids \ {r} : Work'[q] = Work[q]
  <2> SUFFICES ASSUME NEW q \in Rids \ {r} PROVE Work'[q] = Work[q]
    OBVIOUS
  <2>1. CASE q[1] < NumBlocks
    BY <2>1, WorkAt, WorkWas
  <2>2. CASE ~(q[1] < NumBlocks)
    BY <2>2, WorkNone, WorkWasNone
  <2> QED BY <2>1, <2>2
<1>4. DOMAIN Work = Rids /\ DOMAIN Work' = Rids
  BY DEF Work
<1>5. Work = [q \in Rids |-> Work[q]] /\ Work' = [q \in Rids |-> Work'[q]]
  BY DEF Work
<1>6. Work' = [Work EXCEPT ![r] = Work'[r]]
  BY <1>3, <1>4, <1>5
<1> QED BY <1>2, <1>6 DEF Rewritten

-----------------------------------------------------------------------------
(* The steps that change records.                                          *)

(* A field other than the one that is set.                                 *)
LEMMA OtherField ==
  ASSUME NEW x \in Slot, NEW fld \in {"flag", "val"}, NEW f \in {"flag", "val"}, NEW v
  PROVE  With(x, fld, v)[f] = IF f = fld THEN v ELSE x[f]
<1>1. CASE fld = "flag"
  BY <1>1 DEF With, Slot
<1>2. CASE fld = "val"
  BY <1>2 DEF With, Slot
<1> QED BY <1>1, <1>2

(* set_flag, set_val and remove.                                           *)
LEMMA SetRefines ==
  ASSUME TableAssumption, IInv, IInv', NEW t \in Txs, NEW r \in Rids, r[1] < NumBlocks,
         NEW fld \in {"flag", "val"}, NEW v, NumBlocks' = NumBlocks, LogOnly(t),
         \A q \in Rids : q[1] < NumBlocks =>
           At(q)' = IF q = r THEN With(At(q), fld, v) ELSE At(q),
         Len(log'[t]) = Len(log[t]) + 1, \A i \in 1 .. Len(log[t]) : log'[t][i] = log[t][i],
         log'[t][Len(log[t]) + 1] = [rid |-> r, fld |-> fld, old |-> At(r)[fld]],
         RollingNow' = RollingNow
  PROVE  RecordStep
<1> DEFINE n == Len(log[t])
           e == [rid |-> r, fld |-> fld, old |-> At(r)[fld]]
<1>1. /\ AreLogs(log) /\ AreLogs(log') /\ Separate(log')
      /\ \A u \in Txs \ {t} : log'[u] = log[u]
      /\ n \in Nat /\ Len(log'[t]) = n + 1 /\ log'[t][Len(log'[t])] = e
  BY Apart DEF LogOnly, AreLogs
<1>2. Types /\ Types'
  BY DEF IInv
<1>3. ASSUME NEW q \in Rids, q[1] < NumBlocks, NEW f \in {"flag", "val"}
      PROVE  FirstOld(q, f)' = FirstOld(q, f)
  <2>1. Changes(e, q, f, At(q)[f], At(q)'[f])
    <3>1. At(q) \in Slot
      BY <1>2, <1>3, SlotType
    <3> QED BY <1>3, <3>1, OtherField DEF Changes
  <2> HIDE DEF e
  <2>2. Extended(log, log', t, e)
    BY <1>1 DEF Extended
  <2>3. Old(log, At(q)[f], q, f) = Old(log', At(q)'[f], q, f)
    BY <1>1, <2>1, <2>2, OldStays
  <2> QED BY <2>3, OldIs, OldWas
<1>4. Base' = Base
  BY <1>3, BaseStays
<1>5. TouchedNow' = [TouchedNow EXCEPT ![t] = @ \cup {r}]
  <2>1. Touched(t)' = Touched(t) \cup {r}
    <3>1. {log'[t][i].rid : i \in 1 .. Len(log'[t])}
            = {log[t][i].rid : i \in 1 .. Len(log[t])} \cup {log'[t][n + 1].rid}
      BY <1>1, RecordsOf
    <3>2. log'[t][n + 1].rid = r
      OBVIOUS
    <3> QED BY <3>1, <3>2 DEF Touched
  <2>2. \A u \in Txs \ {t} : Touched(u)' = Touched(u)
    BY <1>1 DEF Touched
  <2> QED BY <2>1, <2>2 DEF TouchedNow
<1>6. \A u \in Txs \ {t} : r \notin TouchedNow[u]
  <2> SUFFICES ASSUME NEW u \in Txs \ {t}, NEW i \in 1 .. Len(log[u]), log[u][i].rid = r
               PROVE  FALSE
    BY DEF TouchedNow, Touched
  <2>1. i \in 1 .. Len(log'[u]) /\ log'[u][i].rid = r
    BY <1>1
  <2>2. n + 1 \in 1 .. Len(log'[t]) /\ log'[t][n + 1].rid = r
    BY <1>1
  <2> QED BY <1>1, <2>1, <2>2, SMTT(20) DEF Separate
<1>7. Rewritten(r)
  BY <1>2, WorkChanges
<1> QED BY <1>4, <1>5, <1>6, <1>7, AsChange

(* undo: the change before the one undone, or none, is the last one now.   *)
LEMMA UndoRefines ==
  ASSUME TableAssumption, IInv, IInv', NEW t \in Txs, undo(t)
  PROVE  RecordStep
<1> DEFINE n == Len(log[t])
           e == log[t][n]
<1>0. PICK r \in Rids : r = e.rid
  BY UndoStep DEF IInv, Logs
<1>1. /\ LogOnly(t) /\ NumBlocks' = NumBlocks /\ n \in 1 .. MaxLog /\ e \in UndoRec
      /\ r[1] < NumBlocks
      /\ \A q \in Rids : q[1] < NumBlocks =>
           At(q)' = IF q = r THEN With(At(q), e.fld, e.old) ELSE At(q)
      /\ Len(log'[t]) = n - 1
      /\ \A i \in 1 .. Len(log'[t]) : log'[t][i] = log[t][i]
  BY <1>0, UndoStep DEF IInv, Logs
<1>2. /\ AreLogs(log) /\ AreLogs(log')
      /\ Separate(log) /\ Separate(log')
      /\ \A u \in Txs \ {t} : log'[u] = log[u]
  BY <1>1, Apart DEF LogOnly
<1>3. n \in Nat /\ n >= 1 /\ Len(log[t]) = Len(log'[t]) + 1 /\ log[t][Len(log[t])] = e
  <2>1. n \in Nat /\ n >= 1
    BY <1>1 DEF TableAssumption
  <2> QED BY <1>1, <2>1
<1>4. Types /\ Types' /\ UNCHANGED call /\ call[t].op = "rollback"
  BY DEF IInv, undo
<1>5. e.fld \in {"flag", "val"}
  BY <1>1 DEF UndoRec
<1> HIDE DEF e
<1>6. ASSUME NEW q \in Rids, q[1] < NumBlocks, NEW f \in {"flag", "val"}
      PROVE  FirstOld(q, f)' = FirstOld(q, f)
  <2>1. Changes(e, q, f, At(q)'[f], At(q)[f])
    <3>1. At(q) \in Slot
      BY <1>4, <1>6, SlotType
    <3> QED BY <1>0, <1>1, <1>5, <1>6, <3>1, OtherField DEF Changes
  <2>2. Extended(log', log, t, e)
    BY <1>1, <1>2, <1>3 DEF Extended
  <2>3. Old(log', At(q)'[f], q, f) = Old(log, At(q)[f], q, f)
    BY <1>2, <2>1, <2>2, OldStays
  <2> QED BY <2>3, OldIs, OldWas
<1>7. Base' = Base
  BY <1>1, <1>6, BaseStays
<1>8. RollingNow' = RollingNow /\ t \in RollingNow
  BY <1>4 DEF RollingNow
<1>9. Rewritten(r) /\ Work' = [Work EXCEPT ![r] = Work'[r]]
  BY <1>1, <1>4, WorkChanges
<1>10. /\ Touched(t) = Touched(t)' \cup {r} /\ TouchedNow[t] = Touched(t)
       /\ TouchedNow' = [TouchedNow EXCEPT ![t] = Touched(t)']
  <2>1. log[t][Len(log'[t]) + 1].rid = r
    BY <1>0, <1>3 DEF e
  <2>2. Touched(t) = Touched(t)' \cup {r}
    <3>1. Len(log'[t]) \in Nat
      BY <1>1, <1>3
    <3>2. {log[t][i].rid : i \in 1 .. Len(log[t])}
            = {log'[t][i].rid : i \in 1 .. Len(log'[t])} \cup {log[t][Len(log'[t]) + 1].rid}
      BY <1>1, <1>3, <3>1, RecordsOf
    <3> QED BY <2>1, <3>2 DEF Touched
  <2>3. \A u \in Txs \ {t} : Touched(u)' = Touched(u)
    BY <1>2 DEF Touched
  <2> QED BY <2>2, <2>3 DEF TouchedNow
<1>11. \A u \in Txs \ {t} : r \notin TouchedNow[u]
  <2> SUFFICES ASSUME NEW u \in Txs \ {t}, NEW i \in 1 .. Len(log[u]), log[u][i].rid = r
               PROVE  FALSE
    BY DEF TouchedNow, Touched
  <2>1. n \in 1 .. Len(log[t]) /\ log[t][n].rid = r
    BY <1>0, <1>3 DEF e
  <2> QED BY <1>2, <2>1 DEF Separate
<1> HIDE DEF n
<1>12. CASE r \in Touched(t)'
  <2>1. TouchedNow' = [TouchedNow EXCEPT ![t] = @ \cup {r}]
    <3>1. Touched(t)' = TouchedNow[t] \cup {r}
      BY <1>10, <1>12
    <3> QED BY <1>10, <3>1
  <2> QED BY <1>1, <1>7, <1>8, <1>9, <1>11, <2>1, AsChange
<1>13. CASE r \notin Touched(t)'
  <2>1. TouchedNow' = [TouchedNow EXCEPT ![t] = @ \ {r}]
    <3>1. Touched(t)' = TouchedNow[t] \ {r}
      BY <1>10, <1>13
    <3> QED BY <1>10, <3>1
  <2>2. \A f : \A u \in Txs : Places(log', u, r, f) = {}
    <3> SUFFICES ASSUME NEW u \in Txs, NEW i \in 1 .. Len(log'[u]), log'[u][i].rid = r PROVE FALSE
      BY DEF Places
    <3>1. CASE u = t
      BY <1>13, <3>1 DEF Touched
    <3>2. CASE u # t
      BY <1>2, <1>11, <3>2 DEF TouchedNow, Touched
    <3> QED BY <3>1, <3>2
  <2>3. FirstOld(r, "flag")' = At(r)'["flag"] /\ FirstOld(r, "val")' = At(r)'["val"]
    <3>1. ASSUME NEW f PROVE FirstOld(r, f)' = At(r)'[f]
      <4>1. \A u \in Txs : Places(log', u, r, f) = {}
        BY <2>2
      <4>2. Old(log', At(r)'[f], r, f) = At(r)'[f]
        BY <4>1 DEF Old
      <4> QED BY <4>2, OldWas
    <3> QED BY <3>1
  <2>4. Base'[r] = Work'[r]
    <3>1. Base'[r] = IF At(r)'.flag = used THEN At(r)'.val ELSE None
      BY <1>1, <2>3 DEF Base
    <3> QED BY <1>1, <3>1, WorkWas
  <2>5. Work' = [Work EXCEPT ![r] = Base[r]]
    BY <1>7, <1>9, <2>4
  <2>6. r \in TouchedNow[t]
    BY <1>10
  <2> QED BY <1>1, <1>7, <1>8, <2>1, <2>5, <2>6, AsRestore
<1> QED BY <1>12, <1>13

-----------------------------------------------------------------------------
(* The other steps.                                                        *)

(* Records are not changed.                                                *)
LEMMA SameRecords ==
  ASSUME UNCHANGED <<file, log>>
  PROVE  Base' = Base /\ Work' = Work /\ TouchedNow' = TouchedNow
<1>1. \A r, fld : FirstOld(r, fld)' = FirstOld(r, fld)
  BY DEF FirstOld, Logged, At
<1>2. Base' = Base
  BY <1>1 DEF Base, NumBlocks
<1> QED BY <1>2, SameInUse DEF Work, At, TouchedNow, Touched

(* A step on a scan neither starts nor ends a rollback.                    *)
LEMMA SameRolling ==
  ASSUME TableAssumption, Types, NEW t \in Txs, NEW s \in Scans, StepOn(t, s)
  PROVE  RollingNow' = RollingNow
<1>1. call[t].op # "rollback"
  BY WorksRuns DEF StepOn, Running
<1>2. call'[t].op # "rollback"
  <2>1. call' \in [Txs -> CallState] /\ (call'[t] \in {Idle, Failed} \/ call'[t].scan = s)
    BY DEF StepOn, ScanOnly
  <2>2. s # None
    BY DEF TableAssumption
  <2> QED BY <2>1, <2>2, CallStates DEF CallState
<1>3. \A u \in Txs \ {t} : call'[u] = call[u]
  BY DEF StepOn, ScanOnly
<1> QED BY <1>1, <1>2, <1>3 DEF RollingNow

(* append: the new block has no records, and none of it is in a log.       *)
LEMMA AppendRefines ==
  ASSUME TableAssumption, IInv, NEW t \in Txs, NEW s \in Scans, NEW op, append(t, s, op),
         RollingNow' = RollingNow
  PROVE  RecordStep
<1>1. /\ NumBlocks' = NumBlocks + 1 /\ InUse' = InUse /\ UNCHANGED log
      /\ \A q \in Rids : q[1] < NumBlocks => At(q)' = At(q)
      /\ \A q \in Rids : q[1] = NumBlocks => At(q)' = [flag |-> empty, val |-> Blank]
  BY AppendStep DEF IInv, append
<1>2. /\ NumBlocks \in Nat /\ \A q \in Rids : q[1] \in Nat
      /\ log \in [Txs -> Seq(UndoRec)]
  <2>1. Types /\ log \in [Txs -> Seq(UndoRec)]
    BY DEF IInv, Types
  <2>2. \A q \in Rids : q[1] \in Nat
    BY DEF Rids, BlockNums
  <2>3. NumBlocks \in Nat
    BY <2>1, Blocks
  <2> QED BY <2>1, <2>2, <2>3
<1>3. ASSUME NEW q \in Rids, q[1] < NumBlocks, NEW f \in {"flag", "val"}
      PROVE  FirstOld(q, f)' = FirstOld(q, f)
  <2>1. At(q)' = At(q) /\ log' = log
    BY <1>1, <1>3
  <2>2. Old(log', At(q)'[f], q, f) = Old(log, At(q)[f], q, f)
    BY <2>1
  <2> QED BY <2>2, OldIs, OldWas
<1>4. \A q \in Rids : q[1] = NumBlocks => FirstOld(q, "flag")' = empty
  <2> SUFFICES ASSUME NEW q \in Rids, q[1] = NumBlocks PROVE FirstOld(q, "flag")' = empty
    OBVIOUS
  <2>1. \A u \in Txs : Places(log', u, q, "flag") = {}
    BY <1>1, <1>2 DEF Places, IInv, Logs, LogOf
  <2>2. At(q)'["flag"] = empty
    BY <1>1
  <2> QED BY <2>1, <2>2, OldWas DEF Old
<1>5. ASSUME NEW q \in Rids PROVE Base'[q] = Base[q] /\ Work'[q] = Work[q]
  <2>1. CASE q[1] < NumBlocks
    <3>1. q[1] < NumBlocks'
      BY <1>1, <1>2, <2>1
    <3>2. FirstOld(q, "flag")' = FirstOld(q, "flag") /\ FirstOld(q, "val")' = FirstOld(q, "val")
      BY <1>3, <2>1
    <3>3. At(q)' = At(q)
      BY <1>1, <2>1
    <3>4. Base'[q] = Base[q]
      BY <2>1, <3>1, <3>2 DEF Base
    <3> QED BY <2>1, <3>1, <3>3, <3>4, WorkAt, WorkWas
  <2>2. CASE q[1] = NumBlocks
    <3>1. ~(q[1] < NumBlocks) /\ q[1] < NumBlocks' /\ empty # used
      BY <1>1, <1>2, <2>2 DEF empty, used
    <3>2. At(q)'.flag = empty /\ FirstOld(q, "flag")' = empty
      BY <1>1, <1>4, <2>2
    <3>3. Base'[q] = None
      BY <3>1, <3>2 DEF Base
    <3> QED BY <3>1, <3>2, <3>3, WorkNone, WorkWas
  <2>3. CASE NumBlocks < q[1]
    <3>1. ~(q[1] < NumBlocks) /\ ~(q[1] < NumBlocks')
      BY <1>1, <1>2, <2>3
    <3> QED BY <3>1, WorkNone, WorkWasNone
  <2> QED BY <1>2, <2>1, <2>2, <2>3
<1>6. Base' = Base /\ Work' = Work
  <2>1. /\ Base = [q \in Rids |-> Base[q]] /\ Base' = [q \in Rids |-> Base'[q]]
        /\ Work = [q \in Rids |-> Work[q]] /\ Work' = [q \in Rids |-> Work'[q]]
    BY DEF Base, Work
  <2> QED BY <1>5, <2>1
<1>7. TouchedNow' = TouchedNow
  BY <1>1 DEF TouchedNow, Touched
<1> QED BY <1>6, <1>7, AsStutter

(* A step on a scan.                                                       *)
LEMMA ScanRefines ==
  ASSUME TableAssumption, IInv, IInv', NEW t \in Txs, NEW s \in Scans, ScanAct(t, s)
  PROVE  RecordStep
<1>1. Inv /\ StepOn(t, s) /\ LogOnly(t) /\ Types /\ Exclusion
  BY StepsOn DEF IInv
<1>2. RollingNow' = RollingNow
  BY <1>1, SameRolling
<1>3. CASE UNCHANGED <<file, log>>
  BY <1>2, <1>3, SameRecords, AsStutter
<1>4. CASE set_flag(t, s)
  <2> DEFINE r == <<scan[s].blk, FirstSlot(Candidates(s, empty))>>
  <2>1. SetField(t, r, "flag", used)
    BY <1>4 DEF set_flag
  <2>2. r \in Rids /\ r[1] < NumBlocks /\ locks'[t][r[1]] = "x"
    BY <1>1, <1>4, SlotTaken
  <2> HIDE DEF r
  <2>3. PICK q \in Rids : q = r
    BY <2>2
  <2>4. /\ NumBlocks' = NumBlocks
        /\ \A p \in Rids : p[1] < NumBlocks =>
             At(p)' = IF p = q THEN With(At(p), "flag", used) ELSE At(p)
        /\ Len(log'[t]) = Len(log[t]) + 1
        /\ \A i \in 1 .. Len(log[t]) : log'[t][i] = log[t][i]
        /\ log'[t][Len(log[t]) + 1] = [rid |-> q, fld |-> "flag", old |-> At(q)["flag"]]
    BY <1>1, <2>1, <2>2, <2>3, FlagStep
  <2> QED BY <1>1, <1>2, <2>2, <2>3, <2>4, SetRefines
<1>5. CASE remove(t, s)
  <2>1. SetField(t, Rid(s), "flag", empty) /\ OnRecord(t, s) /\ xlock(t, {scan[s].blk})
    BY <1>5 DEF remove
  <2>2. Rid(s) \in Rids /\ Rid(s)[1] < NumBlocks /\ locks'[t][Rid(s)[1]] = "x"
    BY <1>1, <2>1, CurrentRecord, ExclusiveLock, Blocks
  <2>3. PICK q \in Rids : q = Rid(s)
    BY <2>2
  <2>4. /\ NumBlocks' = NumBlocks
        /\ \A p \in Rids : p[1] < NumBlocks =>
             At(p)' = IF p = q THEN With(At(p), "flag", empty) ELSE At(p)
        /\ Len(log'[t]) = Len(log[t]) + 1
        /\ \A i \in 1 .. Len(log[t]) : log'[t][i] = log[t][i]
        /\ log'[t][Len(log[t]) + 1] = [rid |-> q, fld |-> "flag", old |-> At(q)["flag"]]
    BY <1>1, <2>1, <2>2, <2>3, FlagStep
  <2> QED BY <1>1, <1>2, <2>2, <2>3, <2>4, SetRefines
<1>6. CASE \E v \in Vals : set_val(t, s, v)
  <2>0. PICK v \in Vals : set_val(t, s, v)
    BY <1>6
  <2>1. SetField(t, Rid(s), "val", v) /\ OnRecord(t, s) /\ xlock(t, {scan[s].blk})
    BY <2>0 DEF set_val
  <2>2. Rid(s) \in Rids /\ Rid(s)[1] < NumBlocks /\ locks'[t][Rid(s)[1]] = "x"
    BY <1>1, <2>1, CurrentRecord, ExclusiveLock, Blocks
  <2>3. PICK q \in Rids : q = Rid(s)
    BY <2>2
  <2>4. /\ NumBlocks' = NumBlocks
        /\ \A p \in Rids : p[1] < NumBlocks =>
             At(p)' = IF p = q THEN With(At(p), "val", v) ELSE At(p)
        /\ Len(log'[t]) = Len(log[t]) + 1
        /\ \A i \in 1 .. Len(log[t]) : log'[t][i] = log[t][i]
        /\ log'[t][Len(log[t]) + 1] = [rid |-> q, fld |-> "val", old |-> At(q)["val"]]
    BY <1>1, <2>1, <2>2, <2>3, ValStep
  <2> QED BY <1>1, <1>2, <2>2, <2>3, <2>4, SetRefines
<1>7. CASE \E op \in {"open", "insert"} : append(t, s, op)
  BY <1>2, <1>7, AppendRefines
<1> QED BY <1>3, <1>4, <1>5, <1>6, <1>7 DEF ScanAct, Open, before_first, close, next_after,
          insert_after, at_last_block, get_val, move_to_rid

(* A call that throws, and a rollback that begins.                         *)
LEMMA GiveUpRefines ==
  ASSUME TableAssumption, IInv, NEW t \in Txs, GiveUp(t)
  PROVE  RecordStep
<1>1. call \in [Txs -> CallState] /\ call' = [call EXCEPT ![t] = Failed] /\ UNCHANGED <<file, log>>
  BY DEF GiveUp, Throw, IInv, Types
<1>2. call[t].op # "rollback"
  <2>1. call[t].at # "return"
    BY DEF GiveUp, Refused
  <2>2. call[t] # RollingBack
    BY <2>1, CallStates
  <2> QED BY <1>1, <2>2, CallStates DEF CallState
<1>3. RollingNow' = RollingNow
  BY <1>1, <1>2, CallStates DEF RollingNow
<1> QED BY <1>1, <1>3, SameRecords, AsStutter

(* rollback begins: nothing is undone yet.                                 *)
LEMMA RollbackRefines ==
  ASSUME TableAssumption, IInv, NEW t \in Txs, rollback(t)
  PROVE  RecordStep
<1>1. /\ call \in [Txs -> CallState] /\ call' = [call EXCEPT ![t] = RollingBack]
      /\ UNCHANGED <<file, log>>
  BY DEF rollback, RollingBack, IInv, Types
<1>2. RollingNow' = RollingNow \cup {t}
  BY <1>1, CallStates DEF RollingNow
<1> QED BY <1>1, <1>2, SameRecords, AsStartAbort

(* What the end of t does to the first old values.                         *)
LEMMA EndsLog ==
  ASSUME TableAssumption, IInv, IInv', NEW t \in Txs, End(t), NEW r \in Rids, r[1] < NumBlocks
  PROVE  /\ r \in TouchedNow[t] => Base'[r] = Work[r]
         /\ r \notin TouchedNow[t] => Base'[r] = Base[r]
<1>1. /\ log \in [Txs -> Seq(UndoRec)] /\ log'[t] = <<>> /\ UNCHANGED file
      /\ \A u \in Txs \ {t} : log'[u] = log[u]
  BY DEF End, IInv, Types
<1>2. Separate(log) /\ Separate(log')
  BY Apart
<1>3. NumBlocks' = NumBlocks /\ At(r)' = At(r)
  BY <1>1 DEF NumBlocks, At
<1>4. \A f : Places(log', t, r, f) = {} /\ \A u \in Txs \ {t} : Places(log', u, r, f) = Places(log, u, r, f)
  BY <1>1 DEF Places
<1>5. ASSUME r \in TouchedNow[t] PROVE Base'[r] = Work[r]
  <2>1. ASSUME NEW f PROVE FirstOld(r, f)' = At(r)[f]
    <3>1. \A u \in Txs \ {t} : Places(log, u, r, f) = {}
      BY <1>2, <1>5 DEF TouchedNow, Touched, Places, Separate
    <3>2. \A u \in Txs : Places(log', u, r, f) = {}
      BY <1>4, <3>1
    <3> QED BY <1>3, <3>2, OldWas DEF Old
  <2>2. Base'[r] = IF At(r)["flag"] = used THEN At(r)["val"] ELSE None
    BY <1>3, <2>1 DEF Base
  <2> QED BY <2>2, WorkAt
<1>6. ASSUME r \notin TouchedNow[t] PROVE Base'[r] = Base[r]
  <2>1. ASSUME NEW f PROVE FirstOld(r, f)' = FirstOld(r, f)
    <3>1. Places(log, t, r, f) = {}
      BY <1>6 DEF TouchedNow, Touched, Places
    <3>2. \A u \in Txs : Places(log', u, r, f) = Places(log, u, r, f)
      BY <1>4, <3>1
    <3>3. CASE \A u \in Txs : Places(log, u, r, f) = {}
      <4>1. \A u \in Txs : Places(log', u, r, f) = {}
        BY <3>2, <3>3
      <4>2. Old(log, At(r)[f], r, f) = At(r)[f] /\ Old(log', At(r)'[f], r, f) = At(r)'[f]
        BY <3>3, <4>1 DEF Old
      <4> QED BY <1>3, <4>2, OldIs, OldWas
    <3>4. CASE \E u \in Txs : Places(log, u, r, f) # {}
      <4>1. PICK u \in Txs : Places(log, u, r, f) # {}
        BY <3>4
      <4>2. Places(log', u, r, f) # {} /\ u # t
        BY <3>1, <3>2, <4>1
      <4>3. /\ Old(log, At(r)[f], r, f) = log[u][Min(Places(log, u, r, f))].old
            /\ Old(log', At(r)'[f], r, f) = log'[u][Min(Places(log', u, r, f))].old
        BY <1>2, <4>1, <4>2, SomePlaces
      <4>4. log'[u] = log[u] /\ Places(log', u, r, f) = Places(log, u, r, f)
        BY <1>1, <3>2, <4>2
      <4> QED BY <4>3, <4>4, OldIs, OldWas
    <3> QED BY <3>3, <3>4
  <2> QED BY <1>3, <2>1 DEF Base
<1> QED BY <1>5, <1>6

(* commit, and the end of a rollback when nothing is left to undo.         *)
LEMMA EndRefines ==
  ASSUME TableAssumption, IInv, IInv', NEW t \in Txs, End(t), commit(t) \/ EndRollback(t)
  PROVE  RecordStep
<1>1. /\ log \in [Txs -> Seq(UndoRec)] /\ log' = [log EXCEPT ![t] = <<>>]
      /\ call \in [Txs -> CallState] /\ call' = [call EXCEPT ![t] = Idle] /\ UNCHANGED file
  BY DEF End, IInv, Types
<1>2. TouchedNow' = [TouchedNow EXCEPT ![t] = {}]
  <2>1. log'[t] = <<>> /\ \A u \in Txs \ {t} : log'[u] = log[u]
    BY <1>1
  <2>2. Touched(t)' = {} /\ \A u \in Txs \ {t} : Touched(u)' = Touched(u)
    BY <2>1 DEF Touched
  <2> QED BY <2>2 DEF TouchedNow
<1>3. Work' = Work
  BY <1>1, SameInUse DEF Work, At
<1>4. \A r \in TouchedNow[t] : r \in Rids /\ r[1] < NumBlocks
  BY <1>1 DEF TouchedNow, Touched, IInv, Logs, LogOf, UndoRec
<1>5. ASSUME NEW r \in Rids
      PROVE  Base'[r] = IF r \in TouchedNow[t] THEN Work[r] ELSE Base[r]
  <2>1. CASE r[1] < NumBlocks
    BY <2>1, EndsLog
  <2>2. CASE ~(r[1] < NumBlocks)
    BY <1>1, <1>4, <2>2, SameInUse, WorkNone, WorkWasNone
  <2> QED BY <2>1, <2>2
<1>6. Base' = [r \in Rids |-> IF r \in TouchedNow[t] THEN Work[r] ELSE Base[r]]
  <2>1. Base' = [r \in Rids |-> Base'[r]]
    BY DEF Base
  <2> QED BY <1>5, <2>1
<1>7. CASE commit(t)
  <2>1. call[t] = Idle
    BY <1>7 DEF commit
  <2>2. RollingNow' = RollingNow /\ t \notin RollingNow
    BY <1>1, <2>1, CallStates DEF RollingNow
  <2> QED BY <1>2, <1>3, <1>6, <2>2, AsCommit
<1>8. CASE EndRollback(t)
  <2>1. call[t].op = "rollback" /\ log[t] = <<>>
    BY <1>8 DEF EndRollback
  <2>2. TouchedNow[t] = {}
    BY <2>1 DEF TouchedNow, Touched
  <2>3. TouchedNow' = TouchedNow
    BY <1>2, <2>2 DEF TouchedNow
  <2>4. Base' = Base
    <3>1. Base = [r \in Rids |-> Base[r]]
      BY DEF Base
    <3> QED BY <1>6, <2>2, <3>1
  <2>5. t \in RollingNow /\ RollingNow' = RollingNow \ {t}
    BY <1>1, <2>1, CallStates DEF RollingNow
  <2> QED BY <1>3, <2>2, <2>3, <2>4, <2>5, AsEndAbort
<1> QED BY <1>7, <1>8

(* At the start nothing is logged: the records are the committed ones.     *)
LEMMA InitRefines ==
  ASSUME TableAssumption, Init
  PROVE  Records!Init
<1>1. IInv
  BY InitHolds
<1>2. \A t \in Txs : log[t] = <<>> /\ call[t] = Idle
  BY DEF Init
<1>3. \A r, f : FirstOld(r, f) = At(r)[f]
  <2>1. \A r, f : \A t \in Txs : Logged(t, r, f) = {}
    BY <1>2 DEF Logged
  <2> QED BY <2>1 DEF FirstOld
<1>4. ASSUME NEW r \in Rids PROVE Base[r] = Work[r] /\ Base[r] \in Vals \cup {None}
  <2>1. CASE r[1] < NumBlocks
    <3>1. Base[r] = IF At(r)["flag"] = used THEN At(r)["val"] ELSE None
      BY <1>3, <2>1 DEF Base
    <3>2. At(r) \in Slot
      BY <1>1, <2>1, SlotType DEF IInv
    <3> QED BY <2>1, <3>1, <3>2, WorkAt DEF Slot
  <2>2. CASE ~(r[1] < NumBlocks)
    BY <2>2, WorkNone
  <2> QED BY <2>1, <2>2
<1>5. Base \in [Rids -> Vals \cup {None}] /\ Work = Base
  <2>1. Base = [r \in Rids |-> Base[r]] /\ Work = [r \in Rids |-> Work[r]]
    BY DEF Base, Work
  <2> QED BY <1>4, <2>1
<1>6. TouchedNow = [t \in Txs |-> {}] /\ RollingNow = {}
  BY <1>2, CallStates DEF TouchedNow, Touched, RollingNow
<1> QED BY <1>5, <1>6 DEF Records!Init, TouchedNow, RollingNow

-----------------------------------------------------------------------------
(* table_scan and record_page under commit and rollback implement          *)
(* RecordSpec: records are changed by one transaction at a time, a commit  *)
(* makes its changes permanent together, and a rollback gives back every   *)
(* committed record, although slots are used again and the blocks that     *)
(* were added stay (tablescan.cpp:38-60, recordpage.cpp, recoverymgr.cpp's *)
(* do_rollback).                                                           *)
THEOREM RecordsAreImplemented == Spec => ImplementsRecords
<1>1. TableAssumption
  BY TableAssumption
<1>2. Init => Records!Init
  BY <1>1, InitRefines
<1>3. IInv /\ IInv' /\ [Next]_vars => [Records!Next]_(Records!vars)
  <2> SUFFICES ASSUME IInv, IInv', [Next]_vars PROVE RecordStep
    BY DEF RecordStep
  <2>1. ASSUME NEW t \in Txs, Act(t) PROVE RecordStep
    BY <1>1, <2>1, ActCases, ScanRefines, GiveUpRefines, RollbackRefines, UndoRefines, EndRefines
  <2>2. CASE AtBounds \/ UNCHANGED vars
    <3>1. UNCHANGED <<file, log, call>>
      BY <2>2 DEF AtBounds, vars
    <3>2. RollingNow' = RollingNow
      BY <3>1 DEF RollingNow
    <3> QED BY <3>1, <3>2, SameRecords, AsStutter
  <2> QED BY <2>1, <2>2 DEF Next
<1>4. Spec => []IInv
  BY TableInvariant
<1> QED BY <1>2, <1>3, <1>4, PTL DEF Spec, ImplementsRecords, Records!Spec
=============================================================================
