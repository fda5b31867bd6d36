------------------------------ MODULE LogManager ------------------------------
(***************************************************************************)
(* log_manager: the log file, the page that will become its last block,    *)
(* the two LSN counters and the threads that append, flush and iterate.    *)
(*                                                                         *)
(* append and flush(lsn) hold mMutex; iterator() does not.  Between two    *)
(* operations on the file a thread is at a label of its own, so a crash or *)
(* a thread in iterator() can come between them.  A file operation is      *)
(* atomic (file_manager::mMutex, one write call); a crash is the death of  *)
(* the process, and what has been written stays.                           *)
(***************************************************************************)
EXTENDS Integers, Sequences, FiniteSets, SequencesExt

CONSTANTS
  Threads,      \* threads that append and flush
  Readers,      \* those of them that also iterate (roll back, recover)
  BlockSize,    \* bytes of a block
  IntSize,      \* sizeof(int)
  RecSizes,     \* sizes of log records
  MaxRecs,      \* bound: records appended in a behaviour
  MaxCrashes,   \* bound: crashes in a behaviour
  CrashPoints   \* labels at which a crash is considered

(* A record fits in an empty block, beside the boundary and its own size.  *)
ASSUME LogAssumption ==
  /\ IntSize \in Nat \ {0} /\ BlockSize \in Nat
  /\ RecSizes \subseteq Nat
  /\ \A s \in RecSizes : s + 2 * IntSize <= BlockSize
  /\ Readers \subseteq Threads
  /\ MaxRecs \in Nat /\ MaxCrashes \in Nat

VARIABLES
  file,           \* the blocks of the log file
  mLogPage,       \* the page being filled
  mCurrentBlk,    \* the number of the block it will be written to
  mLatestLSN,
  mLastSavedLSN,
  boot,           \* the constructor: "down", "grown", "up"
  pc,             \* where each thread is
  rec,            \* the record each thread is appending
  iter,           \* the log_iterator of each thread
  history,        \* ghost: every record appended and not lost in a crash
  base,           \* ghost: how many of them are older than this process
  appended,       \* counts the appends of the behaviour
  crashes         \* counts its crashes

log == <<file, mLogPage, mCurrentBlk, mLatestLSN, mLastSavedLSN>>
threads == <<pc, rec, iter>>
ghosts == <<history, base, appended, crashes>>
vars == <<log, boot, threads, ghosts>>

(* A page: the boundary in its first int and the records above it.         *)
ZeroPage == [boundary |-> 0, recs |-> <<>>]
EmptyPage == [boundary |-> BlockSize, recs |-> <<>>]

NoRec == [id |-> 0, size |-> 0]
NoIter == [blk |-> 0, got |-> <<>>, from |-> 0]

Init ==
  /\ file = <<>>
  /\ mLogPage = ZeroPage
  /\ mCurrentBlk = 0
  /\ mLatestLSN = 0 /\ mLastSavedLSN = 0
  /\ boot = "down"
  /\ pc = [t \in Threads |-> "idle"]
  /\ rec = [t \in Threads |-> NoRec]
  /\ iter = [t \in Threads |-> NoIter]
  /\ history = <<>> /\ base = 0 /\ appended = 0 /\ crashes = 0

Goto(t, l) == pc' = [pc EXCEPT ![t] = l]
WriteCurrent == file' = [file EXCEPT ![mCurrentBlk] = mLogPage]

(* mMutex is held at these labels.                                         *)
InMutex == {"full", "saved", "grown", "reset", "formatted", "flushed"}
MutexFree == \A t \in Threads : pc[t] \notin InMutex

-----------------------------------------------------------------------------
(* The constructor                                                         *)

OpenExisting ==
  /\ boot = "down"
  /\ file # <<>>
  /\ mCurrentBlk' = Len(file)
  /\ mLogPage' = file[Len(file)]
  /\ boot' = "up"
  /\ UNCHANGED <<file, mLatestLSN, mLastSavedLSN, threads, ghosts>>

CreateGrow ==
  /\ boot = "down"
  /\ file = <<>>
  /\ file' = <<ZeroPage>>
  /\ boot' = "grown"
  /\ UNCHANGED <<mLogPage, mCurrentBlk, mLatestLSN, mLastSavedLSN, threads, ghosts>>

CreateFormat ==
  /\ boot = "grown"
  /\ mLogPage' = EmptyPage
  /\ file' = <<EmptyPage>>
  /\ mCurrentBlk' = 1
  /\ boot' = "up"
  /\ UNCHANGED <<mLatestLSN, mLastSavedLSN, threads, ghosts>>

log_manager == OpenExisting \/ CreateGrow \/ CreateFormat

-----------------------------------------------------------------------------
(* append                                                                  *)

bytesNeeded(r) == r.size + IntSize
Fits(r) == mLogPage.boundary - bytesNeeded(r) >= IntSize

Put(r) ==
  /\ mLogPage' = [boundary |-> mLogPage.boundary - bytesNeeded(r),
                  recs |-> Append(mLogPage.recs, r)]
  /\ mLatestLSN' = mLatestLSN + 1
  /\ history' = Append(history, r)

AppendFits(t) ==
  /\ boot = "up" /\ pc[t] = "idle" /\ MutexFree
  /\ appended < MaxRecs
  /\ \E s \in RecSizes : LET r == [id |-> appended + 1, size |-> s] IN
       Fits(r) /\ Put(r)
  /\ appended' = appended + 1
  /\ UNCHANGED <<file, mCurrentBlk, mLastSavedLSN, boot, threads, base, crashes>>

(* The page is full: flush() it ...                                        *)
AppendFull(t) ==
  /\ boot = "up" /\ pc[t] = "idle" /\ MutexFree
  /\ appended < MaxRecs
  /\ \E s \in RecSizes : LET r == [id |-> appended + 1, size |-> s] IN
       ~Fits(r) /\ rec' = [rec EXCEPT ![t] = r]
  /\ appended' = appended + 1
  /\ Goto(t, "full")
  /\ UNCHANGED <<log, boot, iter, history, base, crashes>>

\* Mutant: a full page is not written.
FullSkipsWrite(t) ==
  /\ pc[t] = "full"
  /\ Goto(t, "saved")
  /\ UNCHANGED <<log, boot, rec, iter, ghosts>>

FullWrite(t) ==
  /\ pc[t] = "full"
  /\ WriteCurrent
  /\ Goto(t, "saved")
  /\ UNCHANGED <<mLogPage, mCurrentBlk, mLatestLSN, mLastSavedLSN, boot, rec, iter, ghosts>>

(* ... (mLastSavedLSN, then the file grows by a block of zeros) ...        *)
FullGrow(t) ==
  /\ pc[t] = "saved"
  /\ mLastSavedLSN' = mLatestLSN
  /\ file' = Append(file, ZeroPage)
  /\ Goto(t, "grown")
  /\ UNCHANGED <<mLogPage, mCurrentBlk, mLatestLSN, boot, rec, iter, ghosts>>

(* ... the page in memory becomes empty, mCurrentBlk is still the old one  *)
FullReset(t) ==
  /\ pc[t] = "grown"
  /\ mLogPage' = EmptyPage
  /\ Goto(t, "reset")
  /\ UNCHANGED <<file, mCurrentBlk, mLatestLSN, mLastSavedLSN, boot, rec, iter, ghosts>>

\* Mutant: the empty page is written over the block in use.
FullFormatsOld(t) ==
  /\ pc[t] = "reset"
  /\ file' = [file EXCEPT ![mCurrentBlk] = mLogPage]
  /\ Goto(t, "formatted")
  /\ UNCHANGED <<mLogPage, mCurrentBlk, mLatestLSN, mLastSavedLSN, boot, rec, iter, ghosts>>

FullFormat(t) ==
  /\ pc[t] = "reset"
  /\ file' = [file EXCEPT ![Len(file)] = mLogPage]
  /\ Goto(t, "formatted")
  /\ UNCHANGED <<mLogPage, mCurrentBlk, mLatestLSN, mLastSavedLSN, boot, rec, iter, ghosts>>

\* Mutant: mCurrentBlk is not assigned the new block.
FullPutStale(t) ==
  /\ pc[t] = "formatted"
  /\ Put(rec[t])
  /\ rec' = [rec EXCEPT ![t] = NoRec]
  /\ Goto(t, "idle")
  /\ UNCHANGED <<file, mCurrentBlk, mLastSavedLSN, boot, iter, base, appended, crashes>>

(* ... and the record goes into the new page.                              *)
FullPut(t) ==
  /\ pc[t] = "formatted"
  /\ mCurrentBlk' = Len(file)
  /\ Put(rec[t])
  /\ rec' = [rec EXCEPT ![t] = NoRec]
  /\ Goto(t, "idle")
  /\ UNCHANGED <<file, mLastSavedLSN, boot, iter, base, appended, crashes>>

append(t) == \/ AppendFits(t) \/ AppendFull(t) \/ FullWrite(t) \/ FullGrow(t)
             \/ FullReset(t) \/ FullFormat(t) \/ FullPut(t)

-----------------------------------------------------------------------------
(* flush(pLSN): nothing to do if a later record has been saved             *)

\* Mutant: flush moves mLastSavedLSN and writes nothing.
flush_nothing(t, lsn) ==
  /\ boot = "up" /\ pc[t] = "idle" /\ MutexFree
  /\ lsn >= mLastSavedLSN
  /\ Goto(t, "flushed")
  /\ UNCHANGED <<log, boot, rec, iter, ghosts>>

flush(t, lsn) ==
  /\ boot = "up" /\ pc[t] = "idle" /\ MutexFree
  /\ lsn >= mLastSavedLSN
  /\ WriteCurrent
  /\ Goto(t, "flushed")
  /\ UNCHANGED <<mLogPage, mCurrentBlk, mLatestLSN, mLastSavedLSN, boot, rec, iter, ghosts>>

FlushEnds(t) ==
  /\ pc[t] = "flushed"
  /\ mLastSavedLSN' = mLatestLSN
  /\ Goto(t, "idle")
  /\ UNCHANGED <<file, mLogPage, mCurrentBlk, mLatestLSN, boot, rec, iter, ghosts>>

-----------------------------------------------------------------------------
(* iterator() flushes, without mMutex, and reads the file backwards        *)

\* Mutant: iterator() does not flush.
iterator_without_flush(t) ==
  /\ boot = "up" /\ pc[t] = "idle" /\ t \in Readers
  /\ Goto(t, "it_open")
  /\ iter' = [iter EXCEPT ![t].from = Len(history)]
  /\ UNCHANGED <<log, boot, rec, ghosts>>

iterator(t) ==
  /\ boot = "up" /\ pc[t] = "idle" /\ t \in Readers
  /\ WriteCurrent
  /\ Goto(t, "it_written")
  /\ iter' = [iter EXCEPT ![t].from = Len(history)]
  /\ UNCHANGED <<mLogPage, mCurrentBlk, mLatestLSN, mLastSavedLSN, boot, rec, ghosts>>

IterSaved(t) ==
  /\ pc[t] = "it_written"
  /\ mLastSavedLSN' = mLatestLSN
  /\ Goto(t, "it_open")
  /\ UNCHANGED <<file, mLogPage, mCurrentBlk, mLatestLSN, boot, rec, iter, ghosts>>

(* A block is read whole; its records come out newest first.  A zeroed     *)
(* block has a "record" of no bytes at its boundary 0, from which          *)
(* create_log_record cannot be made: the iteration throws.                 *)
Read(t, b) == iter' = [iter EXCEPT ![t].blk = b,
                                   ![t].got = @ \o Reverse(file[b].recs)]

IterOpen(t) ==
  /\ pc[t] = "it_open"
  /\ Read(t, mCurrentBlk)
  /\ Goto(t, IF file[mCurrentBlk].boundary = 0 THEN "it_threw" ELSE "it_next")
  /\ UNCHANGED <<log, boot, rec, ghosts>>

(* log_iterator::next at the end of a block moves one block back, and      *)
(* finds nothing to read if that block is empty.                           *)
IterNext(t) ==
  /\ pc[t] = "it_next"
  /\ iter[t].blk > 1
  /\ Read(t, iter[t].blk - 1)
  /\ Goto(t, IF file[iter[t].blk - 1].recs = <<>> THEN "it_threw" ELSE "it_next")
  /\ UNCHANGED <<log, boot, rec, ghosts>>

IterEnds(t) ==
  /\ pc[t] = "it_threw" \/ (pc[t] = "it_next" /\ iter[t].blk = 1)
  /\ iter' = [iter EXCEPT ![t] = NoIter]
  /\ Goto(t, "idle")
  /\ UNCHANGED <<log, boot, rec, ghosts>>

log_iterator(t) == iterator(t) \/ IterSaved(t) \/ IterOpen(t) \/ IterNext(t) \/ IterEnds(t)

-----------------------------------------------------------------------------
FileLog == FlattenSeq([b \in 1 .. Len(file) |-> file[b].recs])

(* The process dies: the file is all that is left.                         *)
Crash ==
  /\ crashes < MaxCrashes
  /\ boot \in CrashPoints
  /\ \A t \in Threads : pc[t] \in CrashPoints
  /\ crashes' = crashes + 1
  /\ boot' = "down"
  /\ mLogPage' = ZeroPage /\ mCurrentBlk' = 0
  /\ mLatestLSN' = 0 /\ mLastSavedLSN' = 0
  /\ pc' = [t \in Threads |-> "idle"]
  /\ rec' = [t \in Threads |-> NoRec]
  /\ iter' = [t \in Threads |-> NoIter]
  /\ history' = FileLog
  /\ base' = Len(history')
  /\ UNCHANGED <<file, appended>>

Next ==
  \/ log_manager
  \/ \E t \in Threads : \/ append(t)
                        \/ \E lsn \in 0 .. mLatestLSN : flush(t, lsn)
                        \/ FlushEnds(t)
                        \/ log_iterator(t)
  \/ Crash

Spec == Init /\ [][Next]_vars

(* iterator() writes the log page and sets mLastSavedLSN without mMutex:   *)
(* what is promised of the log holds if no other thread is in append,      *)
(* flush or iterator(), or calls one of them, from its write to its first  *)
(* read.  Later the iteration reads blocks that do not change any more.    *)
InIterator == {"it_written", "it_open"}

Undisturbed ==
  \A t, u \in Threads : t # u /\ (pc[t] \in InIterator \/ iterator(t)) =>
    /\ pc[u] \notin InMutex \cup InIterator
    /\ ~append(u) /\ ~iterator(u)
    /\ \A lsn \in 0 .. mLatestLSN : ~flush(u, lsn)

UndisturbedSpec == Init /\ [][Next /\ Undisturbed]_vars

-----------------------------------------------------------------------------
Page == [boundary : 0 .. BlockSize,
         recs : Seq([id : 1 .. MaxRecs, size : RecSizes])]

Labels == InMutex \cup {"idle", "it_written", "it_open", "it_next", "it_threw"}

(* Types; the file is no longer than the block in use, but for the one     *)
(* being added.                                                            *)
TypeOK ==
  /\ file \in Seq(Page)
  /\ mLogPage \in Page
  /\ mCurrentBlk \in 0 .. Len(file)
  /\ mLatestLSN \in 0 .. MaxRecs
  /\ mLastSavedLSN \in 0 .. mLatestLSN
  /\ boot \in {"down", "grown", "up"}
  /\ pc \in [Threads -> Labels]
  /\ Cardinality({t \in Threads : pc[t] \in InMutex}) <= 1
  /\ boot = "up" => Len(file) - mCurrentBlk \in {0, 1}

(* The LSN protocol: every record of this process numbered up to           *)
(* mLastSavedLSN is on the file.  flush(lsn) returns at once below that    *)
(* number, so commit records and write-ahead logging depend on it.         *)
SavedIsOnFile == base + mLastSavedLSN <= Len(FileLog)

(* The file holds an initial part of the log, in the order of appending,   *)
(* across blocks, block switches and crashes.                              *)
FileIsPrefix == IsPrefix(FileLog, history)

(* An iteration that has run to the first block has returned every record  *)
(* there was when it was asked for, newest first, each once.               *)
IterationComplete ==
  \A t \in Threads : pc[t] = "it_next" /\ iter[t].blk = 1 =>
    /\ Len(iter[t].got) >= iter[t].from
    /\ IsPrefix(Reverse(iter[t].got), history)

(* The log can be read back from any state a crash may leave (as rollback  *)
(* and recovery need): no iteration stops at a block without records.      *)
LogReadable == \A t \in Threads : pc[t] # "it_threw"

Abstract == INSTANCE LogSpec WITH
  Recs <- [id : 1 .. MaxRecs, size : RecSizes],
  log <- history,
  onFile <- Len(FileLog),
  promised <- base + mLastSavedLSN

(* The log manager implements the abstract log: a growing sequence, a      *)
(* growing prefix of it on the file, promises within that prefix.          *)
ImplementsLog == Abstract!Spec
=============================================================================
