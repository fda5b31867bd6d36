------------------------------- MODULE TxSystem -------------------------------
(***************************************************************************)
(* transaction, recovery_manager and the parts of the buffer, log and lock *)
(* managers they work on, with crashes and restarts: the undo-only         *)
(* recovery scheme.                                                        *)
(*                                                                         *)
(* The log is that of LogSpec: a sequence of which a prefix is on the      *)
(* file, and a promise (mLastSavedLSN) that flush relies on.  An append or *)
(* a flush is one step, under the log manager's mutex; iterator(), which   *)
(* does not take it, is two, and Undisturbed says what may not come        *)
(* between them for the log to be that of LogSpec.  Locks are those of     *)
(* LockSpec, granted when compatible; a request that is refused waits, and *)
(* a client whose request times out is one that goes on to roll back.  The *)
(* pool is that of BufferManager, with the LSNs and the log flushes left   *)
(* out there; a client pins a block once, and unpin_all, split there, is   *)
(* one step.  A block holds one value.                                     *)
(*                                                                         *)
(* Sys is the start-up transaction of simpledb::simpledb: number 1 of      *)
(* every process, it recovers before any client transaction begins.        *)
(***************************************************************************)
EXTENDS Integers, Sequences, FiniteSets, FiniteSetsExt

CONSTANTS
  Clients,      \* connections, each with one transaction at a time
  Sys,          \* the start-up thread
  Blocks,
  Values,
  InitVal,      \* what every block holds at first
  NoVal,        \* not a value
  None,         \* no block, no slot
  NumBuffs,
  MaxLog,       \* bound: no Begin and no write beyond this length of the log
  MaxCrashes    \* bound: crashes in a behaviour

ASSUME TxAssumption ==
  /\ IsFiniteSet(Clients) /\ Sys \notin Clients
  /\ InitVal \in Values /\ NoVal \notin Values
  /\ None \notin Blocks /\ None \notin Clients /\ None # Sys
  /\ NumBuffs \in Nat \ {0}
  /\ MaxLog \in Nat /\ MaxCrashes \in Nat

Slots == Clients \cup {Sys}
Buffs == 1 .. NumBuffs

VARIABLES
  disk,      \* the data files
  buf,       \* the pool: mBlockId, contents, mTxNum, mLSN, mPins
  bm,        \* who holds the buffer manager's mutex between two steps
  writing,   \* the buffer whose log is flushed and whose page write is next
  log,       \* the log's records
  saved,     \* how many of them are on the file
  promised,  \* mLastSavedLSN: how many of them flush takes to be there
  locks,     \* locks[s][b]
  pc,        \* where each thread is
  num,       \* mTxNum of the thread's transaction
  pinned,    \* the blocks its client has pinned
  want,      \* the block being pinned
  op,        \* "commit", "rollback" or "recover", while doing it
  pos,       \* the iterator of do_rollback and do_recover: next record ...
  top,       \* ... and the end of the log when it was made
  nextTx,    \* transaction::mNextTxNum
  started,   \* start-up of the process: "no", "doing", "done"
  isNew,     \* file_manager::is_new: the directory does not exist
  crashes,   \* counts the crashes
  \* Ghosts.
  base,      \* the committed values, transactions still committing apart
  writes,    \* what each transaction wrote
  commitAt   \* where its commit record is in the log, from then to release

pool == <<disk, buf, bm, writing>>
logv == <<log, saved, promised>>
tx == <<pc, num, pinned, want, op, pos, top>>
sysv == <<nextTx, started, isNew, crashes>>
ghosts == <<base, writes, commitAt>>
vars == <<pool, logv, locks, tx, sysv, ghosts>>

FreeBuffer == [blk |-> None, val |-> InitVal, tx |-> -1, lsn |-> -1, pins |-> 0]
NoLocks == [b \in Blocks |-> "none"]
Nothing == [b \in Blocks |-> NoVal]

All(x) == [s \in Slots |-> x]

Init ==
  /\ disk = [b \in Blocks |-> InitVal]
  /\ base = [b \in Blocks |-> InitVal]
  /\ log = <<>> /\ saved = 0 /\ promised = 0
  /\ isNew = TRUE /\ crashes = 0
  /\ buf = [i \in Buffs |-> FreeBuffer]
  /\ bm = None /\ writing = 0
  /\ locks = All(NoLocks)
  /\ pc = All("idle") /\ num = All(0) /\ pinned = All({}) /\ want = All(None)
  /\ op = All("none") /\ pos = All(0) /\ top = All(0)
  /\ nextTx = 0 /\ started = "no"
  /\ writes = All(Nothing) /\ commitAt = All(0)

Goto(s, l) == pc' = [pc EXCEPT ![s] = l]

-----------------------------------------------------------------------------
(* Log records and log_manager.                                            *)

Record(o, t) == [op |-> o, tx |-> t, blk |-> None, val |-> InitVal]
SetRecord(t, b, old) == [op |-> "setint", tx |-> t, blk |-> b, val |-> old]

AppendLog(r) == log' = Append(log, r) /\ UNCHANGED <<saved, promised>>

FlushLog(lsn) ==
  IF lsn >= promised THEN saved' = Len(log) /\ promised' = Len(log)
  ELSE UNCHANGED <<saved, promised>>

(* An append that finds the page full first saves what is there: how full  *)
(* the page is is not modelled, and an append can come at any time.        *)
append_saves ==
  /\ started # "no" /\ (saved < Len(log) \/ promised < Len(log))
  /\ saved' = Len(log) /\ promised' = Len(log)
  /\ UNCHANGED <<pool, log, locks, tx, sysv, ghosts>>

-----------------------------------------------------------------------------
(* The buffer pool.                                                        *)

Existing(b) == {i \in Buffs : buf[i].blk = b}
Unpinned == {i \in Buffs : buf[i].pins = 0}
Dirty(i) == buf[i].tx >= 0
Mine(s) == {i \in Buffs : buf[i].tx = num[s]}
MutexFor(s) == bm \in {None, s} /\ writing = 0

\* Mutant: the page is written without the log before it.
StartWriteUnlogged(s, i) ==
  /\ MutexFor(s)
  /\ bm' = s /\ writing' = i
  /\ UNCHANGED <<disk, buf, logv, locks, tx, sysv, ghosts>>

(* buffer::flush: first the log ...                                        *)
StartWrite(s, i) ==
  /\ MutexFor(s)
  /\ FlushLog(buf[i].lsn)
  /\ bm' = s /\ writing' = i
  /\ UNCHANGED <<disk, buf, log, locks, tx, sysv, ghosts>>

\* Mutant: the buffer's mTxNum is not reset.
EndWriteStaysDirty(s) ==
  /\ bm = s /\ writing # 0
  /\ disk' = [disk EXCEPT ![buf[writing].blk] = buf[writing].val]
  /\ writing' = 0
  /\ UNCHANGED <<bm, buf, logv, locks, tx, sysv, ghosts>>

(* ... then the page.                                                      *)
EndWrite(s) ==
  /\ bm = s /\ writing # 0
  /\ disk' = [disk EXCEPT ![buf[writing].blk] = buf[writing].val]
  /\ buf' = [buf EXCEPT ![writing].tx = -1]
  /\ writing' = 0
  /\ UNCHANGED <<bm, logv, locks, tx, sysv, ghosts>>

(* try_to_pin: the buffer to use for b, if one can be had ...              *)
Target(b) == IF Existing(b) # {} THEN Min(Existing(b)) ELSE Min(Unpinned)
Available(b) == Existing(b) # {} \/ Unpinned # {}

(* ... which is flushed first if it holds another block's changes ...      *)
MustFlush(b) == Existing(b) = {} /\ Dirty(Target(b))

(* ... and then holds b.                                                   *)
Loaded(b) == IF Existing(b) # {} THEN buf[Target(b)]
             ELSE [buf[Target(b)] EXCEPT !.blk = b, !.val = disk[b]]

-----------------------------------------------------------------------------
(* A process starts: transaction 1, recovery unless the directory is new.  *)
(* (transaction::recover first flushes what it has modified: nothing.)     *)

Startup ==
  /\ started = "no"
  /\ started' = "doing" /\ nextTx' = 1
  /\ isNew' = FALSE
  /\ num' = [num EXCEPT ![Sys] = 1]
  /\ AppendLog(Record("start", 1))
  /\ op' = [op EXCEPT ![Sys] = IF isNew THEN "commit" ELSE "recover"]
  /\ Goto(Sys, IF isNew THEN "flush" ELSE "iterate")
  /\ UNCHANGED <<pool, locks, pinned, want, pos, top, crashes, ghosts>>

(* transaction::transaction and the recovery_manager's start record.       *)
Begin(s) ==
  /\ started = "done" /\ s \in Clients /\ pc[s] = "idle"
  /\ Len(log) < MaxLog
  /\ nextTx' = nextTx + 1
  /\ num' = [num EXCEPT ![s] = nextTx']
  /\ AppendLog(Record("start", nextTx'))
  /\ Goto(s, "active")
  /\ UNCHANGED <<pool, locks, pinned, want, op, pos, top, started, isNew, crashes, ghosts>>

-----------------------------------------------------------------------------
(* transaction::pin and unpin                                              *)

CallPin(s, b) ==
  /\ pc[s] = "active" /\ b \notin pinned[s]
  /\ Goto(s, "pin")
  /\ want' = [want EXCEPT ![s] = b]
  /\ UNCHANGED <<pool, logv, locks, num, pinned, op, pos, top, sysv, ghosts>>

PinFlushes(s) ==
  /\ pc[s] = "pin" /\ Available(want[s]) /\ MustFlush(want[s])
  /\ StartWrite(s, Target(want[s]))

PinDone(s) ==
  /\ pc[s] = "pin" /\ MutexFor(s)
  /\ Available(want[s]) /\ ~MustFlush(want[s])
  /\ LET i == Target(want[s]) IN
       buf' = [buf EXCEPT ![i] = [Loaded(want[s]) EXCEPT !.pins = @ + 1]]
  /\ bm' = None
  /\ pinned' = [pinned EXCEPT ![s] = @ \cup {want[s]}]
  /\ want' = [want EXCEPT ![s] = None]
  /\ Goto(s, "active")
  /\ UNCHANGED <<disk, writing, logv, locks, num, op, pos, top, sysv, ghosts>>

(* No buffer to be had: "buffer abort exception".  The wait before it is   *)
(* left out: the pool is not looked at again after it.                     *)
PinThrows(s) ==
  /\ pc[s] = "pin" /\ MutexFor(s) /\ ~Available(want[s])
  /\ want' = [want EXCEPT ![s] = None]
  /\ Goto(s, "active")
  /\ UNCHANGED <<pool, logv, locks, num, pinned, op, pos, top, sysv, ghosts>>

pin(s) == PinFlushes(s) \/ (pc[s] = "pin" /\ EndWrite(s)) \/ PinDone(s) \/ PinThrows(s)

Unpin(S) == [i \in Buffs |-> IF buf[i].blk \in S THEN [buf[i] EXCEPT !.pins = @ - 1]
                                 ELSE buf[i]]

\* Mutant: the block stays in the transaction's buffer_list.
unpin_keeps_entry(s, b) ==
  /\ pc[s] = "active" /\ b \in pinned[s] /\ MutexFor(s)
  /\ buf' = Unpin({b})
  /\ UNCHANGED <<disk, bm, writing, logv, locks, tx, sysv, ghosts>>

unpin(s, b) ==
  /\ pc[s] = "active" /\ b \in pinned[s] /\ MutexFor(s)
  /\ buf' = Unpin({b})
  /\ pinned' = [pinned EXCEPT ![s] = @ \ {b}]
  /\ UNCHANGED <<disk, bm, writing, logv, locks, pc, num, want, op, pos, top, sysv, ghosts>>

-----------------------------------------------------------------------------
(* transaction::get_int and set_int on a block the client has pinned.      *)

\* Mutant: a shared lock is granted beside an exclusive one.
ReadersDoNotWait(s, b, m) == m = "S" \/ \A u \in Slots \ {s} : locks[u][b] = "none"

Compatible(s, b, m) ==
  \A u \in Slots \ {s} : locks[u][b] = "none" \/ (m = "S" /\ locks[u][b] = "S")

get_int(s, b) ==
  /\ pc[s] = "active" /\ b \in pinned[s]
  /\ locks[s][b] = "none" /\ Compatible(s, b, "S")
  /\ locks' = [locks EXCEPT ![s][b] = "S"]
  /\ UNCHANGED <<pool, logv, tx, sysv, ghosts>>

(* The old value is logged, the page changed, the buffer marked: nothing   *)
(* else touches a pinned page its transaction has locked exclusively.      *)
set_int(s, b, v) ==
  LET i == Target(b) IN
  /\ pc[s] = "active" /\ b \in pinned[s]
  /\ Compatible(s, b, "X")
  /\ Len(log) < MaxLog
  /\ locks' = [locks EXCEPT ![s][b] = "X"]
  /\ AppendLog(SetRecord(num[s], b, buf[i].val))
  /\ buf' = [buf EXCEPT ![i] = [@ EXCEPT !.val = v, !.tx = num[s], !.lsn = Len(log')]]
  /\ writes' = [writes EXCEPT ![s][b] = v]
  /\ UNCHANGED <<disk, bm, writing, tx, sysv, base, commitAt>>

-----------------------------------------------------------------------------
(* commit, rollback and recover                                            *)

CallCommit(s) ==
  /\ pc[s] = "active"
  /\ op' = [op EXCEPT ![s] = "commit"]
  /\ Goto(s, "flush")
  /\ UNCHANGED <<pool, logv, locks, num, pinned, want, pos, top, sysv, ghosts>>

CallRollback(s) ==
  /\ pc[s] \in {"active", "failed"}
  /\ op' = [op EXCEPT ![s] = "rollback"]
  /\ Goto(s, "iterate")
  /\ UNCHANGED <<pool, logv, locks, num, pinned, want, pos, top, sysv, ghosts>>

(* mLM->iterator() writes the log page, without mMutex ...                 *)
iterator(s) ==
  /\ pc[s] = "iterate"
  /\ saved' = Len(log)
  /\ Goto(s, "iterating")
  /\ UNCHANGED <<pool, log, promised, locks, num, pinned, want, op, pos, top, sysv, ghosts>>

(* ... says that all there is has been written, and reads it back.         *)
Iterate(s) ==
  /\ pc[s] = "iterating"
  /\ promised' = Len(log)
  /\ pos' = [pos EXCEPT ![s] = Len(log)]
  /\ top' = [top EXCEPT ![s] = Len(log)]
  /\ Goto(s, "undo")
  /\ UNCHANGED <<pool, log, saved, locks, num, pinned, want, op, sysv, ghosts>>

(* The records do_rollback undoes, going back to the transaction's start.  *)
RollbackSet(t, n) ==
  {p \in 1 .. n : /\ log[p].op = "setint" /\ log[p].tx = t
                  /\ ~\E q \in p .. n : log[q].op = "start" /\ log[q].tx = t}

(* The records do_recover undoes, going back to the last checkpoint: those *)
(* of transactions it has not found finished on its way.                   *)
RecoverSet(n) ==
  {p \in 1 .. n : /\ log[p].op = "setint"
                  /\ ~\E q \in p .. n : \/ log[q].op = "checkpoint"
                                        \/ /\ log[q].op \in {"commit", "rollback"}
                                           /\ log[q].tx = log[p].tx}

ToUndo(s) == {p \in (IF op[s] = "recover" THEN RecoverSet(top[s])
                     ELSE RollbackSet(num[s], top[s])) : p <= pos[s]}

Undoing(s) == pc[s] = "undo" /\ ToUndo(s) # {}
UndoBlock(s) == log[Max(ToUndo(s))].blk

UndoFlushes(s) ==
  /\ Undoing(s) /\ Available(UndoBlock(s)) /\ MustFlush(UndoBlock(s))
  /\ StartWrite(s, Target(UndoBlock(s)))

(* undo: pin ...                                                           *)
UndoPins(s) ==
  LET b == UndoBlock(s) IN
  /\ Undoing(s) /\ MutexFor(s)
  /\ Available(b) /\ ~MustFlush(b)
  /\ buf' = [buf EXCEPT ![Target(b)] = [Loaded(b) EXCEPT !.pins = @ + 1]]
  /\ bm' = None
  /\ Goto(s, "restore")
  /\ UNCHANGED <<disk, writing, logv, locks, num, pinned, want, op, pos, top, sysv, ghosts>>

(* ... set_int without logging (the buffer keeps its LSN), and unpin.      *)
Undo(s) ==
  LET p == Max(ToUndo(s))
      b == UndoBlock(s) IN
  /\ pc[s] = "restore" /\ MutexFor(s)
  /\ locks' = [locks EXCEPT ![s][b] = "X"]
  /\ buf' = [buf EXCEPT ![Target(b)] = [@ EXCEPT !.val = log[p].val, !.tx = num[s],
                                                !.pins = buf[Target(b)].pins - 1]]
  /\ pos' = [pos EXCEPT ![s] = p - 1]
  /\ Goto(s, "undo")
  /\ UNCHANGED <<disk, bm, writing, logv, num, pinned, want, op, top, sysv, ghosts>>

(* The pin in undo throws: commit or rollback was not reached, the locks   *)
(* and pins stay.  The caller may only try to roll back again.             *)
UndoThrows(s) ==
  /\ Undoing(s) /\ MutexFor(s) /\ ~Available(UndoBlock(s))
  /\ Goto(s, "failed")
  /\ UNCHANGED <<pool, logv, locks, num, pinned, want, op, pos, top, sysv, ghosts>>

UndoEnds(s) ==
  /\ pc[s] = "undo" /\ ToUndo(s) = {}
  /\ Goto(s, "flush")
  /\ UNCHANGED <<pool, logv, locks, num, pinned, want, op, pos, top, sysv, ghosts>>

undo(s) == \/ UndoFlushes(s) \/ (pc[s] = "undo" /\ EndWrite(s))
           \/ UndoPins(s) \/ Undo(s) \/ UndoThrows(s) \/ UndoEnds(s)

(* flush_all, under the mutex from its first buffer to its last.           *)
FlushNext(s) ==
  /\ pc[s] = "flush" /\ Mine(s) # {}
  /\ StartWrite(s, Min(Mine(s)))

\* Mutant: the commit record does not wait for the pages.
FlushEndsEarly(s) ==
  /\ pc[s] = "flush" /\ MutexFor(s)
  /\ bm' = None
  /\ Goto(s, "record")
  /\ UNCHANGED <<disk, buf, writing, logv, locks, num, pinned, want, op, pos, top, sysv, ghosts>>

FlushEnds(s) ==
  /\ pc[s] = "flush" /\ MutexFor(s) /\ Mine(s) = {}
  /\ bm' = None
  /\ Goto(s, "record")
  /\ UNCHANGED <<disk, buf, writing, logv, locks, num, pinned, want, op, pos, top, sysv, ghosts>>

flush_all(s) == FlushNext(s) \/ (pc[s] = "flush" /\ EndWrite(s)) \/ FlushEnds(s)

(* The commit, rollback or checkpoint record ...                           *)
WriteRecord(s) ==
  /\ pc[s] = "record"
  /\ AppendLog(IF op[s] = "recover" THEN Record("checkpoint", -1)
               ELSE Record(op[s], num[s]))
  /\ commitAt' = [commitAt EXCEPT ![s] = IF op[s] = "commit" THEN Len(log') ELSE 0]
  /\ Goto(s, "force")
  /\ UNCHANGED <<pool, locks, num, pinned, want, op, pos, top, sysv, base, writes>>

(* ... and the flush of the log up to it.  (No other step looks at the LSN *)
(* a thread keeps in `lsn`; it is at least what the log's length was.)     *)
RecordAt(s) == Max({p \in 1 .. Len(log) :
  \/ op[s] = "recover" /\ log[p].op = "checkpoint"
  \/ log[p].op = op[s] /\ log[p].tx = num[s]})

Committed == {s \in Slots : commitAt[s] \in 1 .. saved}
Overlay(d, S) == [b \in Blocks |-> IF \E s \in S : writes[s][b] # NoVal
                                   THEN writes[CHOOSE s \in S : writes[s][b] # NoVal][b]
                                   ELSE d[b]]

(* The committed database: a transaction has committed once its commit     *)
(* record is on the file.                                                  *)
DB == Overlay(base, Committed)

\* Mutant: commit returns before its record is on the file.
FlushNoRecord(s) ==
  /\ pc[s] = "force"
  /\ op' = [op EXCEPT ![s] = IF @ = "recover" THEN "commit" ELSE @]
  /\ Goto(s, IF op[s] = "recover" THEN "flush" ELSE "release")
  /\ UNCHANGED <<pool, logv, locks, num, pinned, want, pos, top, sysv, ghosts>>

FlushRecord(s) ==
  /\ pc[s] = "force"
  /\ FlushLog(RecordAt(s))
  /\ op' = [op EXCEPT ![s] = IF @ = "recover" THEN "commit" ELSE @]
  /\ Goto(s, IF op[s] = "recover" THEN "flush" ELSE "release")
  /\ UNCHANGED <<pool, log, locks, num, pinned, want, pos, top, sysv, ghosts>>

(* mCM->release() ...                                                      *)
Release(s) ==
  /\ pc[s] = "release"
  /\ locks' = [locks EXCEPT ![s] = NoLocks]
  /\ Goto(s, "unpin_all")
  /\ base' = IF op[s] = "commit" THEN Overlay(base, {s}) ELSE base
  /\ writes' = [writes EXCEPT ![s] = Nothing]
  /\ commitAt' = [commitAt EXCEPT ![s] = 0]
  /\ UNCHANGED <<pool, logv, num, pinned, want, op, pos, top, sysv>>

(* ... and mBL->unpin_all(); the start-up transaction opens the database.  *)
UnpinAll(s) ==
  /\ pc[s] = "unpin_all" /\ MutexFor(s)
  /\ buf' = Unpin(pinned[s])
  /\ pinned' = [pinned EXCEPT ![s] = {}]
  /\ op' = [op EXCEPT ![s] = "none"]
  /\ Goto(s, "idle")
  /\ started' = IF s = Sys THEN "done" ELSE started
  /\ num' = [num EXCEPT ![s] = 0]
  /\ pos' = [pos EXCEPT ![s] = 0] /\ top' = [top EXCEPT ![s] = 0]
  /\ UNCHANGED <<disk, bm, writing, logv, locks, want, nextTx, isNew, crashes, ghosts>>

finish(s) == iterator(s) \/ Iterate(s) \/ undo(s) \/ flush_all(s) \/ WriteRecord(s) \/ FlushRecord(s)
             \/ Release(s) \/ UnpinAll(s)

-----------------------------------------------------------------------------
(* The process dies: the data files and the saved part of the log remain.  *)
(* The next one has a pool, locks and transaction numbers of its own.      *)
Crash ==
  /\ crashes < MaxCrashes /\ started # "no"
  /\ crashes' = crashes + 1
  /\ log' = SubSeq(log, 1, saved) /\ promised' = saved
  /\ base' = DB
  /\ buf' = [i \in Buffs |-> FreeBuffer]
  /\ bm' = None /\ writing' = 0
  /\ locks' = All(NoLocks)
  /\ pc' = All("idle") /\ num' = All(0) /\ pinned' = All({}) /\ want' = All(None)
  /\ op' = All("none") /\ pos' = All(0) /\ top' = All(0)
  /\ nextTx' = 0 /\ started' = "no"
  /\ writes' = All(Nothing) /\ commitAt' = All(0)
  /\ UNCHANGED <<disk, saved, isNew>>

(* Nothing is left to do below the bounds.                                 *)
AtBounds ==
  /\ started = "done" /\ \A s \in Slots : pc[s] = "idle"
  /\ Len(log) >= MaxLog
  /\ UNCHANGED vars

Next ==
  \/ Startup
  \/ append_saves
  \/ \E s \in Clients :
       \/ Begin(s)
       \/ pin(s)
       \/ CallCommit(s)
       \/ CallRollback(s)
       \/ \E b \in Blocks : \/ CallPin(s, b) \/ unpin(s, b) \/ get_int(s, b)
                            \/ \E v \in Values : set_int(s, b, v)
  \/ \E s \in Slots : finish(s)
  \/ Crash
  \/ AtBounds

Spec == Init /\ [][Next]_vars

(* What LogManager assumes to implement LogSpec: from the write of an      *)
(* iterator() to the end of the call nobody else appends, saves or calls   *)
(* iterator().  No code sees to it: the connections that are not rolling   *)
(* back would have to wait.                                                *)
Undisturbed ==
  \A s \in Slots : pc[s] = "iterating" /\ pc'[s] = "iterating" =>
    UNCHANGED logv /\ \A u \in Slots \ {s} : pc'[u] # "iterating"

UndisturbedSpec == Init /\ [][Next /\ Undisturbed]_vars

(* A thread inside a call goes on with it.  Clients call what they like.   *)
Fairness == /\ WF_vars(Startup)
            /\ \A s \in Slots : WF_vars(finish(s))
            /\ \A s \in Clients : WF_vars(pin(s))

FairSpec == Spec /\ Fairness

-----------------------------------------------------------------------------
Records == [op : {"start", "commit", "rollback", "checkpoint", "setint"},
            tx : Int, blk : Blocks \cup {None}, val : Values]

(* The types of the variables.                                             *)
TypeOK ==
  /\ disk \in [Blocks -> Values]
  /\ buf \in [Buffs -> [blk : Blocks \cup {None}, val : Values, tx : Int, lsn : Int, pins : Nat]]
  /\ bm \in Slots \cup {None} /\ writing \in Buffs \cup {0}
  /\ log \in Seq(Records) /\ saved \in 0 .. Len(log) /\ promised \in 0 .. Len(log)
  /\ locks \in [Slots -> [Blocks -> {"none", "S", "X"}]]
  /\ pc \in [Slots -> {"idle", "active", "pin", "failed", "iterate", "iterating", "undo",
                       "restore", "flush", "record", "force", "release", "unpin_all"}]
  /\ num \in [Slots -> Nat] /\ nextTx \in Nat
  /\ pinned \in [Slots -> SUBSET Blocks]
  /\ want \in [Slots -> Blocks \cup {None}]
  /\ op \in [Slots -> {"none", "commit", "rollback", "recover"}]
  /\ pos \in [Slots -> Nat] /\ top \in [Slots -> Nat]
  /\ started \in {"no", "doing", "done"} /\ isNew \in BOOLEAN
  /\ crashes \in 0 .. MaxCrashes
  /\ base \in [Blocks -> Values]
  /\ writes \in [Slots -> [Blocks -> Values \cup {NoVal}]]
  /\ commitAt \in [Slots -> Nat]

(* Whenever the process dies, also in the middle of a commit, a rollback   *)
(* or an earlier recovery, undoing what do_recover finds in the saved part *)
(* of the log turns the data files into the committed database.            *)
Recovered == LET undone == RecoverSet(saved) IN
  [b \in Blocks |-> LET old == {p \in undone : log[p].blk = b}
                    IN  IF old = {} THEN disk[b] ELSE log[Min(old)].val]

Recoverable == Recovered = DB

(* Isolation: what a transaction reads under its lock, from the pool or,   *)
(* if the block has been evicted, from the file, is what it wrote itself,  *)
(* or else the last committed value; undoing other transactions, evictions *)
(* and commits in progress do not show.                                    *)
Current(b) == IF Existing(b) # {} THEN buf[Min(Existing(b))].val ELSE disk[b]

ReadsCommittedOrOwn ==
  \A s \in Clients, b \in Blocks :
    pc[s] \in {"active", "pin"} /\ locks[s][b] # "none" =>
      Current(b) = IF writes[s][b] # NoVal THEN writes[s][b] ELSE DB[b]

(* A change that is not in the data files belongs to a transaction that    *)
(* still has the block locked: commit and rollback leave none behind.      *)
ChangesAreLocked ==
  \A i \in Buffs : Dirty(i) =>
    \E s \in Slots : num[s] = buf[i].tx /\ locks[s][buf[i].blk] = "X"

(* A commit, a rollback and a start-up end, whether they return or the     *)
(* process dies in them: in the end the database is open, its recovery     *)
(* having found the buffers it needs, and the connection is in no call.    *)
(* The exception is an undo that throws, since the client has pinned all   *)
(* buffers, for other blocks.                                              *)
CallsEnd ==
  \A s \in Clients :
    op[s] # "none" \/ started = "doing" ~>
      \/ op[s] = "none" /\ started = "done"
      \/ pc[s] = "failed"

(* Transactions are atomic and durable: TxSystem implements TxSpec.  The   *)
(* database of TxSpec is what a recovery would now make of the files, so   *)
(* no write of a page or of the log may change it but the one that saves a *)
(* commit record, which changes it by all that the transaction wrote.      *)
Abstract == INSTANCE TxSpec WITH
  db <- Recovered,
  writes <- [s \in Slots |-> IF s \in Committed THEN Nothing ELSE writes[s]]

AtomicAndDurable == Abstract!Spec
=============================================================================
