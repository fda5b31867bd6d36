--------------------------- MODULE LogManagerProofs ---------------------------
(***************************************************************************)
(* What holds of the log manager for any threads, block and record sizes,  *)
(* any number of records and of crashes.  Types need the position of each  *)
(* thread in append (Positions); the rest needs to know how the log is     *)
(* spread over the file and the page in memory (Contents).                 *)
(***************************************************************************)
EXTENDS LogManager, SequenceLemmas, FiniteSetTheorems

LogRec == [id : 1 .. MaxRecs, size : RecSizes]

Filling == {"full", "saved", "grown", "reset", "formatted"}
Growing == {"grown", "reset", "formatted"}
SomeAt(L) == \E t \in Threads : pc[t] \in L

OneInMutex == \A t, u \in Threads : pc[t] \in InMutex /\ pc[u] \in InMutex => t = u

Types ==
  /\ file \in Seq(Page) /\ mLogPage \in Page /\ mCurrentBlk \in Nat
  /\ mLatestLSN \in Nat /\ mLastSavedLSN \in 0 .. mLatestLSN
  /\ boot \in {"down", "grown", "up"}
  /\ pc \in [Threads -> Labels]
  /\ rec \in [Threads -> LogRec \cup {NoRec}]
  /\ appended \in 0 .. MaxRecs

Positions ==
  /\ \A t \in Threads : pc[t] \in Filling => rec[t] \in LogRec /\ mLatestLSN < appended
  /\ mLatestLSN <= appended
  /\ \A t \in Threads : pc[t] \in {"reset", "formatted"} => mLogPage = EmptyPage
  /\ boot # "up" => /\ mCurrentBlk = 0 /\ mLatestLSN = 0
                    /\ \A t \in Threads : pc[t] = "idle"
  /\ boot = "grown" => file = <<ZeroPage>>
  /\ boot = "up" => /\ mCurrentBlk >= 1
                    /\ Len(file) = IF SomeAt(Growing) THEN mCurrentBlk + 1 ELSE mCurrentBlk

TypeInv == Types /\ OneInMutex /\ Positions

-----------------------------------------------------------------------------
(* The empty pages are pages.                                              *)
LEMMA PageTypes == ZeroPage \in Page /\ EmptyPage \in Page
<1>1. <<>> \in Seq(LogRec)
  BY EmptySeq
<1> QED BY <1>1, LogAssumption DEF ZeroPage, EmptyPage, Page, LogRec

(* It holds at first.                                                      *)
LEMMA TypeInvInit == Init => TypeInv
<1> SUFFICES ASSUME Init PROVE TypeInv
  OBVIOUS
<1>1. Types
  BY PageTypes, EmptySeq, LogAssumption DEF Init, Types, Labels, NoRec
<1>2. OneInMutex /\ Positions
  BY LogAssumption DEF Init, OneInMutex, InMutex, Positions, Filling, SomeAt
<1> QED BY <1>1, <1>2 DEF TypeInv

(* A record that goes into the page leaves it a page.                      *)
LEMMA PutType ==
  ASSUME Types, NEW r \in LogRec, Put(r), mLogPage.boundary - bytesNeeded(r) >= 0
  PROVE  mLogPage' \in Page /\ mLatestLSN' = mLatestLSN + 1
<1>1. mLogPage.recs \in Seq(LogRec) /\ mLogPage.boundary \in 0 .. BlockSize
  BY DEF Types, Page, LogRec
<1>2. Append(mLogPage.recs, r) \in Seq(LogRec)
  BY <1>1, AppendProperties
<1>3. bytesNeeded(r) \in Nat
  <2>1. r.size \in RecSizes
    BY DEF LogRec
  <2>2. r.size \in Nat /\ IntSize \in Nat
    BY <2>1, LogAssumption
  <2> QED BY <2>2 DEF bytesNeeded
<1>4. mLogPage.boundary - bytesNeeded(r) \in 0 .. BlockSize
  BY <1>1, <1>3, LogAssumption
<1> QED BY <1>2, <1>4 DEF Put, Page, LogRec

(* What append is given becomes a record.                                  *)
LEMMA NewRec ==
  ASSUME Types, NEW s \in RecSizes, appended < MaxRecs
  PROVE  [id |-> appended + 1, size |-> s] \in LogRec
BY LogAssumption DEF Types, LogRec

(* TypeInv is kept by every step.                                          *)
LEMMA TypeInvStep == TypeInv /\ [Next]_vars => TypeInv'
<1> SUFFICES ASSUME TypeInv, [Next]_vars PROVE TypeInv'
  OBVIOUS
<1> USE DEF TypeInv, log, threads, ghosts
<1>1. CASE OpenExisting
  <2>1. Len(file) \in Nat \ {0} /\ file[Len(file)] \in Page
    BY <1>1, EmptySeq DEF OpenExisting, Types
  <2>2. Types'
    BY <1>1, <2>1 DEF OpenExisting, Types
  <2>3. OneInMutex' /\ Positions'
    BY <1>1, <2>1 DEF OpenExisting, Types, OneInMutex, Positions, SomeAt, Growing
  <2> QED BY <2>2, <2>3
<1>2. CASE CreateGrow
  <2>1. <<ZeroPage>> \in Seq(Page)
    BY PageTypes
  <2>2. Types'
    BY <1>2, <2>1 DEF CreateGrow, Types
  <2>3. OneInMutex' /\ Positions'
    BY <1>2 DEF CreateGrow, OneInMutex, Positions
  <2> QED BY <2>2, <2>3
<1>3. CASE CreateFormat
  <2>1. <<EmptyPage>> \in Seq(Page) /\ EmptyPage \in Page
    BY PageTypes
  <2>2. Types'
    BY <1>3, <2>1 DEF CreateFormat, Types
  <2>3. OneInMutex' /\ Positions'
    BY <1>3 DEF CreateFormat, OneInMutex, Positions, SomeAt, Growing
  <2> QED BY <2>2, <2>3
<1>4. ASSUME NEW t \in Threads, AppendFits(t) PROVE TypeInv'
  <2>1. PICK s \in RecSizes : /\ Fits([id |-> appended + 1, size |-> s])
                              /\ Put([id |-> appended + 1, size |-> s])
    BY <1>4 DEF AppendFits
  <2> DEFINE r == [id |-> appended + 1, size |-> s]
  <2>2. r \in LogRec
    BY <1>4, NewRec DEF AppendFits
  <2>3. mLogPage' \in Page /\ mLatestLSN' = mLatestLSN + 1
    <3>1. mLogPage.boundary \in Nat /\ bytesNeeded(r) \in Int
      <4>1. r.size \in RecSizes
        OBVIOUS
      <4> QED BY <4>1, LogAssumption DEF Types, Page, bytesNeeded
    <3>2. mLogPage.boundary - bytesNeeded(r) >= 0
      BY <2>1, <3>1, LogAssumption DEF Fits
    <3> HIDE DEF r
    <3> QED BY <2>1, <2>2, <3>2, PutType DEF r
  <2>4. Types'
    <3>1. UNCHANGED <<file, mCurrentBlk, mLastSavedLSN, boot, pc, rec>>
      BY <1>4 DEF AppendFits
    <3>2. appended' \in 0 .. MaxRecs
      BY <1>4, LogAssumption DEF AppendFits, Types
    <3>3. mLatestLSN' \in Nat /\ mLastSavedLSN' \in 0 .. mLatestLSN'
      BY <2>3, <3>1 DEF Types
    <3> QED BY <2>3, <3>1, <3>2, <3>3 DEF Types
  <2>5. \A u \in Threads : pc[u] \notin InMutex
    BY <1>4 DEF AppendFits, MutexFree
  <2>6. OneInMutex' /\ Positions'
    BY <1>4, <2>3, <2>5 DEF AppendFits, Types, OneInMutex, Positions, SomeAt, Growing, Filling, InMutex
  <2> QED BY <2>4, <2>6
<1>5. ASSUME NEW t \in Threads, AppendFull(t) PROVE TypeInv'
  <2>1. PICK r \in LogRec : rec' = [rec EXCEPT ![t] = r]
    <3>1. PICK s \in RecSizes : rec' = [rec EXCEPT ![t] = [id |-> appended + 1, size |-> s]]
      BY <1>5 DEF AppendFull
    <3>2. [id |-> appended + 1, size |-> s] \in LogRec
      BY <1>5, NewRec DEF AppendFull
    <3> QED BY <3>1, <3>2
  <2>3. Types' /\ rec'[t] \in LogRec
    <3>1. UNCHANGED <<file, mLogPage, mCurrentBlk, mLatestLSN, mLastSavedLSN, boot>>
      BY <1>5 DEF AppendFull
    <3>2. rec' \in [Threads -> LogRec \cup {NoRec}] /\ rec'[t] \in LogRec
      BY <2>1 DEF Types
    <3>3. pc' \in [Threads -> Labels]
      BY <1>5 DEF AppendFull, Types, Goto, Labels, InMutex
    <3>4. appended' \in 0 .. MaxRecs
      BY <1>5, LogAssumption DEF AppendFull, Types
    <3> QED BY <3>1, <3>2, <3>3, <3>4 DEF Types
  <2>4. \A u \in Threads : pc[u] \notin InMutex
    BY <1>5 DEF AppendFull, MutexFree
  <2>5. OneInMutex' /\ Positions'
    BY <1>5, <2>3, <2>4 DEF AppendFull, Types, Goto, OneInMutex, Positions, SomeAt, Growing, Filling, InMutex
  <2> QED BY <2>3, <2>5
<1>6. ASSUME NEW t \in Threads, FullWrite(t) PROVE TypeInv'
  <2>1. mCurrentBlk \in 1 .. Len(file) /\ boot = "up"
    BY <1>6 DEF FullWrite, Types, Positions, OneInMutex, SomeAt, Growing, InMutex
  <2>2. file' \in Seq(Page) /\ Len(file') = Len(file)
    BY <1>6, <2>1, ExceptSeq DEF FullWrite, WriteCurrent, Types
  <2>3. Types'
    BY <1>6, <2>2 DEF FullWrite, Types, Goto, Labels, InMutex
  <2>4. OneInMutex' /\ Positions'
    BY <1>6, <2>1, <2>2 DEF FullWrite, Types, Goto, OneInMutex, Positions, SomeAt, Growing, Filling, InMutex
  <2> QED BY <2>3, <2>4
<1>7. ASSUME NEW t \in Threads, FullGrow(t) PROVE TypeInv'
  <2>1. file' \in Seq(Page) /\ Len(file') = Len(file) + 1
    BY <1>7, PageTypes, AppendProperties DEF FullGrow, Types
  <2>2. Types'
    BY <1>7, <2>1 DEF FullGrow, Types, Goto, Labels, InMutex
  <2>3. OneInMutex' /\ Positions'
    BY <1>7, <2>1 DEF FullGrow, Types, Goto, OneInMutex, Positions, SomeAt, Growing, Filling, InMutex
  <2> QED BY <2>2, <2>3
<1>8. ASSUME NEW t \in Threads, FullReset(t) PROVE TypeInv'
  <2>1. Types'
    BY <1>8, PageTypes DEF FullReset, Types, Goto, Labels, InMutex
  <2>2. OneInMutex' /\ Positions'
    BY <1>8 DEF FullReset, Types, Goto, OneInMutex, Positions, SomeAt, Growing, Filling, InMutex
  <2> QED BY <2>1, <2>2
<1>9. ASSUME NEW t \in Threads, FullFormat(t) PROVE TypeInv'
  <2>1. Len(file) \in 1 .. Len(file) /\ boot = "up"
    BY <1>9 DEF FullFormat, Types, Positions, SomeAt, Growing
  <2>2. file' \in Seq(Page) /\ Len(file') = Len(file)
    BY <1>9, <2>1, ExceptSeq DEF FullFormat, Types
  <2>3. Types'
    BY <1>9, <2>2 DEF FullFormat, Types, Goto, Labels, InMutex
  <2>4. OneInMutex' /\ Positions'
    BY <1>9, <2>1, <2>2 DEF FullFormat, Types, Goto, OneInMutex, Positions, SomeAt, Growing, Filling, InMutex
  <2> QED BY <2>3, <2>4
<1>10. ASSUME NEW t \in Threads, FullPut(t) PROVE TypeInv'
  <2>1. rec[t] \in LogRec /\ mLogPage = EmptyPage /\ Put(rec[t]) /\ boot = "up"
    BY <1>10 DEF FullPut, Types, Positions, Filling
  <2>2. mLogPage' \in Page /\ mLatestLSN' = mLatestLSN + 1
    <3>1. rec[t].size \in RecSizes /\ rec[t].size \in Nat
      BY <2>1, LogAssumption DEF LogRec
    <3>2. mLogPage.boundary - bytesNeeded(rec[t]) >= 0
      BY <2>1, <3>1, LogAssumption DEF EmptyPage, bytesNeeded
    <3> QED BY <2>1, <3>2, PutType
  <2>3. mLatestLSN < appended /\ mLatestLSN \in Nat /\ appended \in Nat
    BY <1>10 DEF FullPut, Types, Positions, Filling
  <2>4. Types'
    BY <1>10, <2>2 DEF FullPut, Types, Goto, Labels, InMutex
  <2>5. Len(file) = mCurrentBlk + 1
    BY <1>10, <2>1 DEF FullPut, Positions, SomeAt, Growing
  <2>6. \A u \in Threads : pc'[u] \notin InMutex
    BY <1>10 DEF FullPut, Types, Goto, OneInMutex, InMutex
  <2>7. OneInMutex' /\ Positions'
    BY <1>10, <2>1, <2>2, <2>3, <2>5, <2>6 DEF FullPut, Types, Positions, OneInMutex, SomeAt, Growing, Filling, InMutex
  <2> QED BY <2>4, <2>7
<1>11. ASSUME NEW t \in Threads, NEW lsn \in 0 .. mLatestLSN, flush(t, lsn) PROVE TypeInv'
  <2>1. mCurrentBlk \in 1 .. Len(file)
    BY <1>11 DEF flush, Types, Positions
  <2>2. file' \in Seq(Page) /\ Len(file') = Len(file)
    BY <1>11, <2>1, ExceptSeq DEF flush, WriteCurrent, Types
  <2>3. Types'
    BY <1>11, <2>2 DEF flush, Types, Goto, Labels, InMutex
  <2>4. OneInMutex' /\ Positions'
    BY <1>11, <2>2 DEF flush, Types, Goto, MutexFree, OneInMutex, Positions, SomeAt, Growing, Filling, InMutex
  <2> QED BY <2>3, <2>4
<1>12. ASSUME NEW t \in Threads, FlushEnds(t) PROVE TypeInv'
  <2>1. Types'
    BY <1>12 DEF FlushEnds, Types, Goto, Labels
  <2>2. OneInMutex' /\ Positions'
    BY <1>12 DEF FlushEnds, Types, Goto, OneInMutex, Positions, SomeAt, Growing, Filling, InMutex
  <2> QED BY <2>1, <2>2
<1>13. ASSUME NEW t \in Threads, iterator(t) PROVE TypeInv'
  <2>1. mCurrentBlk \in 1 .. Len(file)
    BY <1>13 DEF iterator, Types, Positions
  <2>2. file' \in Seq(Page) /\ Len(file') = Len(file)
    BY <1>13, <2>1, ExceptSeq DEF iterator, WriteCurrent, Types
  <2>3. Types'
    BY <1>13, <2>2 DEF iterator, Types, Goto, Labels
  <2>4. OneInMutex' /\ Positions'
    BY <1>13, <2>2 DEF iterator, Types, Goto, OneInMutex, Positions, SomeAt, Growing, Filling, InMutex
  <2> QED BY <2>3, <2>4
<1>14. ASSUME NEW t \in Threads, IterSaved(t) PROVE TypeInv'
  <2>1. Types'
    BY <1>14 DEF IterSaved, Types, Goto, Labels
  <2>2. OneInMutex' /\ Positions'
    BY <1>14 DEF IterSaved, Types, Goto, OneInMutex, Positions, SomeAt, Growing, Filling, InMutex
  <2> QED BY <2>1, <2>2
<1>15. ASSUME NEW t \in Threads, IterOpen(t) \/ IterNext(t) \/ IterEnds(t) PROVE TypeInv'
  <2>1. PICK l \in {"it_threw", "it_next", "idle"} :
          pc' = [pc EXCEPT ![t] = l] /\ pc[t] \in {"it_open", "it_next", "it_threw"}
    BY <1>15 DEF IterOpen, IterNext, IterEnds, Goto
  <2>2. UNCHANGED <<log, boot, rec, appended>>
    BY <1>15 DEF IterOpen, IterNext, IterEnds
  <2>3. Types'
    BY <2>1, <2>2 DEF Types, Labels
  <2>4. OneInMutex' /\ Positions'
    BY <2>1, <2>2 DEF Types, OneInMutex, Positions, SomeAt, Growing, Filling, InMutex
  <2> QED BY <2>3, <2>4
<1>16. CASE Crash
  <2>1. Types'
    BY <1>16, PageTypes DEF Crash, Types, Labels
  <2>2. OneInMutex' /\ Positions'
    BY <1>16 DEF Crash, Types, OneInMutex, Positions, Filling, InMutex
  <2> QED BY <2>1, <2>2
<1>17. CASE UNCHANGED vars
  BY <1>17 DEF vars, Types, OneInMutex, Positions, SomeAt
<1> QED BY <1>1, <1>2, <1>3, <1>4, <1>5, <1>6, <1>7, <1>8, <1>9, <1>10, <1>11, <1>12, <1>13,
           <1>14, <1>15, <1>16, <1>17 DEF Next, log_manager, append, log_iterator

(* So it always holds, disturbed or not.                                   *)
LEMMA TypeInvAlways == Spec => []TypeInv
BY TypeInvInit, TypeInvStep, PTL DEF Spec

(* Types, and at most one thread holds mMutex.                             *)
THEOREM TypeCorrect == Spec => []TypeOK
<1>1. TypeInv => TypeOK
  <2> SUFFICES ASSUME TypeInv PROVE TypeOK
    OBVIOUS
  <2> USE DEF TypeInv
  <2>1. Cardinality({t \in Threads : pc[t] \in InMutex}) <= 1
    <3> DEFINE S == {t \in Threads : pc[t] \in InMutex}
    <3>1. CASE S = {}
      BY <3>1, FS_EmptySet
    <3>2. CASE S # {}
      <4>1. PICK t \in Threads : S = {t}
        BY <3>2 DEF OneInMutex
      <4>2. Cardinality(S) = 1
        <5> HIDE DEF S
        <5> QED BY <4>1, FS_Singleton
      <4> QED BY <4>2
    <3> QED BY <3>1, <3>2
  <2>2. mCurrentBlk \in 0 .. Len(file) /\ (boot = "up" => Len(file) - mCurrentBlk \in {0, 1})
    BY EmptySeq DEF Types, Positions
  <2>3. mLatestLSN \in 0 .. MaxRecs
    BY LogAssumption DEF Types, Positions
  <2> QED BY <2>1, <2>2, <2>3 DEF Types, TypeOK
<1> QED BY <1>1, TypeInvAlways, PTL

-----------------------------------------------------------------------------
(* What follows holds if no thread is in append, flush or iterator() while *)
(* another is in iterator(), which does not take mMutex (Undisturbed); it  *)
(* does not hold otherwise.  Others may read the blocks they have opened,  *)
(* and a block an iteration has not come to yet does not change.           *)
Reading == {"it_next", "it_threw"}

(* The steps that are not those of an iteration in older blocks.           *)
Step(t) == \/ append(t)
           \/ \E lsn \in 0 .. mLatestLSN : flush(t, lsn)
           \/ FlushEnds(t)
           \/ iterator(t) \/ IterSaved(t) \/ IterOpen(t)

(* The records of some blocks; of the first n of the file; of those before *)
(* the current one.                                                        *)
Flat(F) == FlattenSeq([b \in 1 .. Len(F) |-> F[b].recs])
UpTo(n) == Flat(SubSeq(file, 1, n))
Older == UpTo(mCurrentBlk - 1)

Contents ==
  /\ history \in Seq(LogRec) /\ base \in Nat
  /\ boot # "up" => FileLog = history /\ base = Len(history)
  /\ boot = "up" =>
       /\ Len(history) = base + mLatestLSN
       /\ IF SomeAt({"reset", "formatted"})
          THEN history = Older \o file[mCurrentBlk].recs
          ELSE /\ history = Older \o mLogPage.recs
               /\ IsPrefix(file[mCurrentBlk].recs, mLogPage.recs)
       /\ SomeAt(Growing) => file[Len(file)].recs = <<>>
       /\ SomeAt({"saved", "flushed", "grown"} \cup InIterator) =>
            file[mCurrentBlk].recs = mLogPage.recs

IterTypes == iter \in [Threads -> [blk : Nat, got : Seq(LogRec), from : Nat]]

(* What an iteration has not read yet is in older blocks; what it has read *)
(* goes on from there, at least to the end of the log it was called with.  *)
Seen(t) == UpTo(iter[t].blk - 1) \o Reverse(iter[t].got)
Unread(t) == /\ iter[t].blk \in 1 .. mCurrentBlk
             /\ IsPrefix(Seen(t), history)
             /\ iter[t].from <= Len(Seen(t))

Iterations ==
  \A t \in Threads :
    /\ pc[t] \in InIterator => iter[t].from = Len(history)
    /\ pc[t] \notin Reading => iter[t].got = <<>>
    /\ pc[t] = "it_next" => Unread(t)

IInv == TypeInv /\ Contents /\ SavedIsOnFile /\ IterTypes /\ Iterations

-----------------------------------------------------------------------------
(* The records of a page and of blocks.                                    *)
LEMMA PageRecs ==
  ASSUME NEW p \in Page
  PROVE  p.recs \in Seq(LogRec) /\ p.boundary \in 0 .. BlockSize
BY DEF Page, LogRec

(* The records of a file are a sequence of records.                        *)
LEMMA FlatType ==
  ASSUME NEW F \in Seq(Page)
  PROVE  /\ [b \in 1 .. Len(F) |-> F[b].recs] \in Seq(Seq(LogRec))
         /\ Flat(F) \in Seq(LogRec)
<1>1. ASSUME NEW b \in 1 .. Len(F) PROVE F[b].recs \in Seq(LogRec)
  <2>1. F[b] \in Page
    BY ElementOfSeq
  <2> QED BY <2>1, PageRecs
<1>2. [b \in 1 .. Len(F) |-> F[b].recs] \in Seq(Seq(LogRec))
  <2> DEFINE X == Seq(LogRec)
  <2>1. \A b \in 1 .. Len(F) : F[b].recs \in X
    BY <1>1
  <2> HIDE DEF X
  <2>2. Len(F) \in Nat
    BY LenProperties
  <2>3. [b \in 1 .. Len(F) |-> F[b].recs] \in Seq(X)
    BY <2>1, <2>2
  <2> QED BY <2>3 DEF X
<1> QED BY <1>2, FlattenType DEF Flat

(* A block at the end of the file adds its records at the end.             *)
LEMMA FlatAppend ==
  ASSUME NEW F \in Seq(Page), NEW p \in Page
  PROVE  Flat(Append(F, p)) = Flat(F) \o p.recs
<1> DEFINE R(G) == [b \in 1 .. Len(G) |-> G[b].recs]
<1>1. p.recs \in Seq(LogRec) /\ R(F) \in Seq(Seq(LogRec))
  BY FlatType DEF Page, LogRec
<1>2. R(Append(F, p)) = Append(R(F), p.recs)
  <2>1. Append(F, p) \in Seq(Page) /\ Len(Append(F, p)) = Len(F) + 1 /\ Len(F) \in Nat
    BY AppendProperties, LenProperties
  <2> QED BY <2>1
<1> QED BY <1>1, <1>2, FlattenAppend DEF Flat

(* The records of no block and of one.                                     *)
LEMMA FlatSmall ==
  ASSUME NEW p \in Page
  PROVE  Flat(<<>>) = <<>> /\ Flat(<<p>>) = p.recs
<1>1. Flat(<<>>) = <<>>
  BY FlattenNothing DEF Flat
<1>2. Append(<<>>, p) = <<p>> /\ <<>> \in Seq(Page) /\ p.recs \in Seq(LogRec)
  BY EmptySeq DEF Page, LogRec
<1> QED BY <1>1, <1>2, FlatAppend, ConcatEmptySeq

(* The records of the first n blocks are those of the first n - 1 and of   *)
(* block n.                                                                *)
LEMMA FlatUpTo ==
  ASSUME NEW F \in Seq(Page), NEW n \in 1 .. Len(F)
  PROVE  /\ SubSeq(F, 1, n - 1) \in Seq(Page)
         /\ Flat(SubSeq(F, 1, n)) = Flat(SubSeq(F, 1, n - 1)) \o F[n].recs
<1>1. \A i \in 1 .. n - 1 : F[i] \in Page
  BY ElementOfSeq
<1>2. SubSeq(F, 1, n - 1) \in Seq(Page) /\ F[n] \in Page
  BY <1>1, SubSeqProperties, ElementOfSeq
<1>3. SubSeq(F, 1, n) = Append(SubSeq(F, 1, n - 1), F[n])
  OBVIOUS
<1> QED BY <1>2, <1>3, FlatAppend

(* How the file is made of older blocks, the current one and a new one.    *)
LEMMA Blocks ==
  ASSUME TypeInv, boot = "up"
  PROVE  /\ mCurrentBlk \in 1 .. Len(file) /\ Len(file) \in Nat
         /\ file[mCurrentBlk].recs \in Seq(LogRec) /\ mLogPage.recs \in Seq(LogRec)
         /\ Older \in Seq(LogRec) /\ FileLog \in Seq(LogRec)
         /\ UpTo(mCurrentBlk) = Older \o file[mCurrentBlk].recs
         /\ (SomeAt(Growing) => file[Len(file)].recs = <<>>)
              => FileLog = Older \o file[mCurrentBlk].recs
<1>1. file \in Seq(Page) /\ Len(file) \in Nat /\ mCurrentBlk \in 1 .. Len(file) /\ mLogPage \in Page
  BY LenProperties DEF TypeInv, Types, Positions
<1>2. file[mCurrentBlk].recs \in Seq(LogRec) /\ mLogPage.recs \in Seq(LogRec)
  <2>1. file[mCurrentBlk] \in Page
    BY <1>1, ElementOfSeq
  <2> QED BY <1>1, <2>1, PageRecs
<1>3. Older \in Seq(LogRec) /\ UpTo(mCurrentBlk) = Older \o file[mCurrentBlk].recs
  BY <1>1, FlatUpTo, FlatType DEF Older, UpTo
<1>4. FileLog = UpTo(Len(file)) /\ FileLog \in Seq(LogRec)
  BY <1>1, SubSeqFull, FlatType DEF FileLog, UpTo, Flat
<1>5. ASSUME SomeAt(Growing) => file[Len(file)].recs = <<>>
      PROVE  FileLog = Older \o file[mCurrentBlk].recs
  <2>1. CASE SomeAt(Growing)
    <3>1. Len(file) = mCurrentBlk + 1 /\ Len(file) \in 1 .. Len(file) /\ Len(file) - 1 = mCurrentBlk
      BY <1>1, <2>1 DEF TypeInv, Types, Positions
    <3>2. UpTo(Len(file)) = UpTo(mCurrentBlk) \o file[Len(file)].recs
      BY <1>1, <3>1, FlatUpTo DEF UpTo
    <3>3. UpTo(mCurrentBlk) \in Seq(LogRec)
      BY <1>2, <1>3, ConcatProperties
    <3> QED BY <1>3, <1>4, <1>5, <2>1, <3>2, <3>3, ConcatEmptySeq
  <2>2. CASE ~SomeAt(Growing)
    BY <1>3, <1>4, <2>2 DEF TypeInv, Positions
  <2> QED BY <2>1, <2>2
<1> QED BY <1>1, <1>2, <1>3, <1>4, <1>5

(* An appended record comes last, whatever comes first.                    *)
LEMMA RecAppended ==
  ASSUME NEW s \in Seq(LogRec), NEW t \in Seq(LogRec), NEW r \in LogRec
  PROVE  Append(s \o t, r) = s \o Append(t, r)
<1>1. Append(t, r) = t \o <<r>> /\ <<r>> \in Seq(LogRec)
  BY AppendIsConcat
<1>2. s \o t \in Seq(LogRec)
  BY ConcatProperties
<1>3. Append(s \o t, r) = (s \o t) \o <<r>>
  <2> DEFINE u == s \o t
  <2> HIDE DEF u
  <2>1. u \in Seq(LogRec)
    BY <1>2 DEF u
  <2>2. Append(u, r) = u \o <<r>>
    BY <2>1, AppendIsConcat
  <2> QED BY <2>2 DEF u
<1> QED BY <1>1, <1>3, ConcatAssociative

(* A file with one block written.                                         *)
WithBlock(F, c, p) == [F EXCEPT ![c] = p]

(* What a write of a block changes, and what the file then holds if that   *)
(* block is the last.                                                      *)
LEMMA WriteBlock ==
  ASSUME NEW F \in Seq(Page), NEW c \in 1 .. Len(F), NEW p \in Page
  PROVE  /\ WithBlock(F, c, p)[c] = p
         /\ \A i \in 1 .. Len(F) : i # c => WithBlock(F, c, p)[i] = F[i]
         /\ \A k \in 0 .. c - 1 : SubSeq(WithBlock(F, c, p), 1, k) = SubSeq(F, 1, k)
         /\ c = Len(F) => Flat(WithBlock(F, c, p)) = Flat(SubSeq(F, 1, c - 1)) \o p.recs
<1> DEFINE G == WithBlock(F, c, p)
<1>1. G \in Seq(Page) /\ Len(G) = Len(F) /\ G[c] = p /\ Len(F) \in Nat
      /\ \A i \in 1 .. Len(F) : i # c => G[i] = F[i]
  BY ExceptSeq, LenProperties DEF WithBlock
<1> HIDE DEF G
<1>2. ASSUME NEW k \in 0 .. c - 1 PROVE SubSeq(G, 1, k) = SubSeq(F, 1, k)
  BY <1>1
<1>3. ASSUME c = Len(F) PROVE Flat(G) = Flat(SubSeq(F, 1, c - 1)) \o p.recs
  <2>1. c \in 1 .. Len(G) /\ SubSeq(G, 1, c) = G
    BY <1>1, <1>3, SubSeqFull
  <2>2. Flat(SubSeq(G, 1, c)) = Flat(SubSeq(G, 1, c - 1)) \o G[c].recs
    BY <1>1, <2>1, FlatUpTo
  <2>3. SubSeq(G, 1, c - 1) = SubSeq(F, 1, c - 1)
    BY <1>1, <1>2
  <2> QED BY <1>1, <2>1, <2>2, <2>3
<1> QED BY <1>1, <1>2, <1>3 DEF G

(* A block is added: the rest stays.                                       *)
LEMMA GrowFile ==
  ASSUME NEW F \in Seq(Page), NEW p \in Page, NEW G, G = Append(F, p)
  PROVE  /\ Len(G) = Len(F) + 1 /\ G[Len(F) + 1] = p
         /\ \A i \in 1 .. Len(F) : G[i] = F[i]
         /\ \A k \in 0 .. Len(F) : SubSeq(G, 1, k) = SubSeq(F, 1, k)
<1>1. Len(G) = Len(F) + 1 /\ G[Len(F) + 1] = p /\ G \in Seq(Page) /\ Len(F) \in Nat
      /\ \A i \in 1 .. Len(F) : G[i] = F[i]
  BY AppendProperties, LenProperties
<1>2. ASSUME NEW k \in 0 .. Len(F) PROVE SubSeq(G, 1, k) = SubSeq(F, 1, k)
  BY <1>1
<1> QED BY <1>1, <1>2

-----------------------------------------------------------------------------
(* The other threads are not at work in the log; a step leaves them where  *)
(* they are.                                                               *)
Single(t) == \A u \in Threads \ {t} : pc[u] \notin InMutex \cup InIterator
OthersStay(t) == \A u \in Threads \ {t} : pc'[u] = pc[u]

(* When a thread takes a step, the others are not at work: mMutex excludes *)
(* them, or Undisturbed.                                                   *)
LEMMA Others ==
  ASSUME Undisturbed, TypeInv, NEW t \in Threads, Step(t)
  PROVE  Single(t)
<1> SUFFICES ASSUME NEW u \in Threads \ {t} PROVE pc[u] \notin InMutex \cup InIterator
  BY DEF Single
<1>1. pc[t] \in InMutex \/ pc[t] \in InIterator \/ iterator(t)
        \/ (MutexFree /\ (append(t) \/ \E lsn \in 0 .. mLatestLSN : flush(t, lsn)))
  BY DEF Step, append, AppendFits, AppendFull, FullWrite, FullGrow, FullReset, FullFormat, FullPut,
         flush, FlushEnds, IterSaved, IterOpen, InMutex, InIterator
<1>2. pc[t] \in InIterator \/ iterator(t) => pc[u] \notin InMutex \cup InIterator
  BY DEF Undisturbed
<1>3. pc[u] \in InIterator =>
        /\ pc[t] \notin InMutex \cup InIterator /\ ~append(t) /\ ~iterator(t)
        /\ ~\E lsn \in 0 .. mLatestLSN : flush(t, lsn)
  BY DEF Undisturbed
<1>4. pc[u] \in InMutex => pc[t] \notin InMutex /\ ~MutexFree
  BY DEF TypeInv, OneInMutex, MutexFree
<1> QED BY <1>1, <1>2, <1>3, <1>4

(* So it is its position alone that counts, before and after.              *)
LEMMA AtLabel ==
  ASSUME NEW t \in Threads, Single(t), OthersStay(t)
  PROVE  /\ SomeAt(Growing) <=> pc[t] \in Growing
         /\ SomeAt({"reset", "formatted"}) <=> pc[t] \in {"reset", "formatted"}
         /\ SomeAt({"saved", "flushed", "grown"} \cup InIterator)
              <=> pc[t] \in {"saved", "flushed", "grown"} \cup InIterator
         /\ SomeAt(Growing)' <=> pc'[t] \in Growing
         /\ SomeAt({"reset", "formatted"})' <=> pc'[t] \in {"reset", "formatted"}
         /\ SomeAt({"saved", "flushed", "grown"} \cup InIterator)'
              <=> pc'[t] \in {"saved", "flushed", "grown"} \cup InIterator
BY DEF Single, OthersStay, SomeAt, Growing, InMutex, InIterator

(* A step leaves the blocks before the current one, and the log before its *)
(* end, as they are ...                                                    *)
Kept == /\ mCurrentBlk <= mCurrentBlk' /\ mCurrentBlk' \in Nat
        /\ \A k \in 0 .. mCurrentBlk - 1 : SubSeq(file', 1, k) = SubSeq(file, 1, k)
        /\ history' = history \/ \E r \in LogRec : history' = Append(history, r)

(* ... and so the other iterations.                                        *)
LEMMA OtherIterations ==
  ASSUME IInv, boot = "up", NEW t \in Threads, Single(t), OthersStay(t), Kept,
         NEW u \in Threads \ {t}, iter'[u] = iter[u]
  PROVE  /\ pc'[u] \notin InIterator
         /\ pc'[u] \notin Reading => iter'[u].got = <<>>
         /\ pc'[u] = "it_next" => Unread(u)'
<1>1. pc'[u] = pc[u] /\ pc[u] \notin InIterator
  BY DEF Single, OthersStay
<1>2. pc[u] \notin Reading => iter[u].got = <<>>
  BY DEF IInv, Iterations
<1>3. ASSUME pc[u] = "it_next" PROVE Unread(u)'
  <2> DEFINE k == iter[u].blk - 1
             r == Reverse(iter[u].got)
  <2>1. /\ iter[u].blk \in 1 .. mCurrentBlk /\ IsPrefix(Seen(u), history)
        /\ iter[u].from <= Len(Seen(u))
    BY <1>3 DEF IInv, Iterations, Unread
  <2>2. mCurrentBlk \in 1 .. Len(file) /\ Len(file) \in Nat /\ file \in Seq(Page)
    BY Blocks DEF IInv, TypeInv, Types
  <2>3. UpTo(k) \in Seq(LogRec)
    <3>1. \A b \in 1 .. k : file[b] \in Page
      BY <2>1, <2>2, ElementOfSeq
    <3>2. SubSeq(file, 1, k) \in Seq(Page)
      BY <2>1, <2>2, <3>1, SubSeqProperties
    <3> QED BY <3>2, FlatType DEF UpTo
  <2>4. Seen(u) \in Seq(LogRec) /\ history \in Seq(LogRec)
    <3>1. r \in Seq(LogRec)
      BY ReverseType DEF IInv, IterTypes
    <3> QED BY <2>3, <3>1, ConcatProperties DEF Seen, IInv, Contents
  <2>5. Seen(u)' = Seen(u)
    <3>1. k \in 0 .. mCurrentBlk - 1
      BY <2>1, <2>2
    <3>2. SubSeq(file', 1, k) = SubSeq(file, 1, k)
      BY <3>1 DEF Kept
    <3> QED BY <3>2 DEF Seen, UpTo
  <2>6. IsPrefix(Seen(u), history')
    BY <2>1, <2>4, PrefixAppend DEF Kept
  <2>7. iter'[u].blk \in 1 .. mCurrentBlk'
    BY <2>1, <2>2 DEF Kept
  <2> QED BY <2>1, <2>5, <2>6, <2>7 DEF Unread
<1> QED BY <1>1, <1>2, <1>3

(* A step outside the iterators leaves all of them.                        *)
LEMMA NoIterator ==
  ASSUME IInv, boot = "up", NEW t \in Threads, Single(t), OthersStay(t), Kept,
         pc[t] \notin InIterator \cup Reading, pc'[t] \notin InIterator \cup Reading,
         UNCHANGED iter
  PROVE  Iterations' /\ IterTypes'
<1>1. iter'[t].got = <<>>
  BY DEF IInv, Iterations
<1>2. Iterations'
  BY <1>1, OtherIterations DEF Iterations, InIterator, Reading
<1>3. IterTypes'
  BY DEF IInv, IterTypes
<1> QED BY <1>2, <1>3

-----------------------------------------------------------------------------
(* The constructor finds, or makes, what Contents says of a running log.   *)
LEMMA OpenStep == ASSUME IInv, TypeInv', log_manager PROVE IInv'
<1> USE DEF IInv, log, threads, ghosts
<1>1. /\ \A t \in Threads : pc[t] = "idle" /\ iter[t].got = <<>>
      /\ boot # "up" /\ mLatestLSN = 0 /\ mLastSavedLSN = 0
      /\ FileLog = history /\ base = Len(history) /\ history \in Seq(LogRec)
  BY DEF TypeInv, Types, Positions, Contents, Iterations, Reading, log_manager, OpenExisting,
         CreateGrow, CreateFormat
<1>2. UNCHANGED <<mLatestLSN, mLastSavedLSN, pc, rec, iter, history, base>>
  BY DEF log_manager, OpenExisting, CreateGrow, CreateFormat
<1>3. IterTypes' /\ Iterations'
  BY <1>1, <1>2 DEF IterTypes, Iterations, InIterator
<1>4. /\ ~SomeAt(Growing)' /\ ~SomeAt({"reset", "formatted"})'
      /\ ~SomeAt({"saved", "flushed", "grown"} \cup InIterator)'
  BY <1>1, <1>2 DEF SomeAt, Growing, InIterator
<1>5. ASSUME FileLog' = FileLog PROVE SavedIsOnFile'
  BY <1>1, <1>2, <1>5, LenProperties DEF SavedIsOnFile
<1>6. CASE OpenExisting
  <2>1. Len(file) \in 1 .. Len(file) /\ file \in Seq(Page) /\ file[Len(file)] \in Page
    BY <1>6, EmptySeq, ElementOfSeq DEF OpenExisting, TypeInv, Types
  <2>2. FileLog = Flat(file) /\ SubSeq(file, 1, Len(file)) = file
    BY <2>1, SubSeqFull DEF FileLog, Flat
  <2>3. FileLog = UpTo(Len(file) - 1) \o file[Len(file)].recs
    BY <2>1, <2>2, FlatUpTo DEF UpTo
  <2>4. UNCHANGED file /\ mCurrentBlk' = Len(file) /\ mLogPage' = file[Len(file)] /\ boot' = "up"
    BY <1>6 DEF OpenExisting
  <2>5. FileLog' = FileLog /\ Older' = UpTo(Len(file) - 1)
    BY <2>4 DEF FileLog, Older, UpTo
  <2>6. IsPrefix(file'[mCurrentBlk'].recs, mLogPage'.recs)
    <3>1. mLogPage'.recs \in Seq(LogRec) /\ file'[mCurrentBlk'].recs = mLogPage'.recs
      BY <2>1, <2>4, PageRecs
    <3> QED BY <3>1, PrefixSelf
  <2>7. Len(history') = base' + mLatestLSN' /\ history' \in Seq(LogRec) /\ base' \in Nat
    BY <1>1, <1>2, LenProperties
  <2>8. history' = Older' \o mLogPage'.recs
    BY <1>1, <1>2, <2>3, <2>4, <2>5
  <2>9. Contents'
    BY <1>4, <2>4, <2>6, <2>7, <2>8 DEF Contents
  <2> QED BY <1>3, <1>5, <2>5, <2>9
<1>7. CASE CreateGrow
  <2>1. file = <<>> /\ file' = <<ZeroPage>> /\ boot' = "grown"
    BY <1>7 DEF CreateGrow
  <2>2. Flat(<<>>) = <<>> /\ Flat(<<ZeroPage>>) = <<>>
    BY PageTypes, FlatSmall DEF ZeroPage
  <2>3. FileLog' = FileLog
    <3>1. FileLog = Flat(file) /\ FileLog' = Flat(file')
      BY DEF FileLog, Flat
    <3> QED BY <2>1, <2>2, <3>1
  <2>4. Contents'
    BY <1>1, <1>2, <2>1, <2>3, LenProperties DEF Contents
  <2> QED BY <1>3, <1>5, <2>3, <2>4
<1>8. CASE CreateFormat
  <2>1. file = <<ZeroPage>> /\ file' = <<EmptyPage>> /\ boot' = "up"
        /\ mLogPage' = EmptyPage /\ mCurrentBlk' = 1
    BY <1>8 DEF CreateFormat, TypeInv, Positions
  <2>2. Flat(<<>>) = <<>> /\ Flat(<<ZeroPage>>) = <<>> /\ Flat(<<EmptyPage>>) = <<>>
    BY PageTypes, FlatSmall DEF ZeroPage, EmptyPage
  <2>3. FileLog' = FileLog /\ FileLog = <<>>
    <3>1. FileLog = Flat(file) /\ FileLog' = Flat(file')
      BY DEF FileLog, Flat
    <3> QED BY <2>1, <2>2, <3>1
  <2>4. Older' = <<>>
    <3>1. mCurrentBlk' - 1 = 0
      BY <2>1
    <3>2. SubSeq(file', 1, 0) = <<>>
      BY SubSeqEmpty
    <3>3. Older' = Flat(SubSeq(file', 1, mCurrentBlk' - 1))
      BY DEF Older, UpTo, Flat
    <3> QED BY <2>2, <3>1, <3>2, <3>3
  <2>5. mLogPage'.recs = <<>> /\ file'[mCurrentBlk'].recs = <<>>
    BY <2>1 DEF EmptyPage
  <2>6. history' = Older' \o mLogPage'.recs
    BY <1>1, <1>2, <2>3, <2>4, <2>5, EmptySeq, ConcatEmptySeq
  <2>7. IsPrefix(file'[mCurrentBlk'].recs, mLogPage'.recs)
    BY <2>5, PrefixSelf, EmptySeq
  <2>8. Contents'
    BY <1>1, <1>2, <1>4, <2>1, <2>6, <2>7, LenProperties DEF Contents
  <2> QED BY <1>3, <1>5, <2>3, <2>8
<1> QED BY <1>6, <1>7, <1>8 DEF log_manager

(* A record that fits goes to the end of the page and of the log.          *)
LEMMA AppendStep ==
  ASSUME Undisturbed, IInv, TypeInv', NEW t \in Threads, AppendFits(t)
  PROVE  IInv'
<1> USE DEF IInv, log, threads, ghosts
<1>1. /\ boot = "up" /\ pc[t] = "idle" /\ Single(t) /\ OthersStay(t)
      /\ UNCHANGED <<file, mCurrentBlk, mLastSavedLSN, boot, pc, iter, base>>
  BY Others DEF Step, append, AppendFits, OthersStay
<1>2. PICK r \in LogRec : /\ mLogPage'.recs = Append(mLogPage.recs, r)
                          /\ history' = Append(history, r) /\ mLatestLSN' = mLatestLSN + 1
  BY NewRec DEF AppendFits, Put, TypeInv
<1>3. ~SomeAt(Growing) /\ ~SomeAt({"reset", "formatted"})
  BY <1>1, AtLabel DEF Growing
<1>4. ~SomeAt(Growing)' /\ ~SomeAt({"reset", "formatted"})'
      /\ ~SomeAt({"saved", "flushed", "grown"} \cup InIterator)'
  <2>1. pc'[t] = "idle"
    BY <1>1
  <2> QED BY <1>1, <2>1, AtLabel DEF Growing, InIterator
<1>5. FileLog' = FileLog /\ Older' = Older
  BY <1>1 DEF FileLog, Older, UpTo
<1>6. Older \in Seq(LogRec) /\ mLogPage.recs \in Seq(LogRec) /\ file[mCurrentBlk].recs \in Seq(LogRec)
  BY <1>1, Blocks
<1>7. history = Older \o mLogPage.recs /\ IsPrefix(file[mCurrentBlk].recs, mLogPage.recs)
      /\ Len(history) = base + mLatestLSN /\ history \in Seq(LogRec) /\ base \in Nat
  BY <1>1, <1>3 DEF Contents
<1>8. history' = Older' \o mLogPage'.recs
  <2>1. Append(Older \o mLogPage.recs, r) = Older \o Append(mLogPage.recs, r)
    BY <1>6, RecAppended
  <2> QED BY <1>2, <1>5, <1>7, <2>1
<1>9. IsPrefix(file'[mCurrentBlk'].recs, mLogPage'.recs)
  BY <1>1, <1>2, <1>6, <1>7, PrefixAppend
<1>10. history' \in Seq(LogRec) /\ Len(history') = base' + mLatestLSN'
  BY <1>1, <1>2, <1>7, AppendProperties DEF TypeInv, Types
<1>11. Contents'
  BY <1>1, <1>4, <1>7, <1>8, <1>9, <1>10 DEF Contents
<1>12. SavedIsOnFile'
  BY <1>1, <1>5 DEF SavedIsOnFile
<1>13. IterTypes' /\ Iterations'
  <2>1. Kept
    BY <1>1, <1>2 DEF Kept, TypeInv, Types
  <2> QED BY <1>1, <2>1, NoIterator DEF InIterator, Reading
<1> QED BY <1>11, <1>12, <1>13

(* A write of the current block, when it is the last: the file then has    *)
(* the whole log.                                                          *)
LEMMA Written ==
  ASSUME IInv, boot = "up", ~SomeAt(Growing), WriteCurrent,
         UNCHANGED <<mLogPage, mCurrentBlk, mLatestLSN, mLastSavedLSN, boot, history, base>>
  PROVE  /\ file'[mCurrentBlk'].recs = mLogPage'.recs
         /\ history = Older' \o mLogPage'.recs
         /\ FileLog' = history
         /\ SavedIsOnFile'
         /\ IsPrefix(file'[mCurrentBlk'].recs, mLogPage'.recs)
<1> USE DEF IInv
<1>1. /\ file \in Seq(Page) /\ mLogPage \in Page /\ mCurrentBlk \in 1 .. Len(file)
      /\ Len(file) = mCurrentBlk
      /\ file' = [file EXCEPT ![mCurrentBlk] = mLogPage]
  BY Blocks DEF TypeInv, Types, Positions, WriteCurrent
<1> DEFINE G == file'
<1>2. /\ G[mCurrentBlk] = mLogPage
      /\ SubSeq(G, 1, mCurrentBlk - 1) = SubSeq(file, 1, mCurrentBlk - 1)
      /\ Flat(G) = Flat(SubSeq(file, 1, mCurrentBlk - 1)) \o mLogPage.recs
  <2> HIDE DEF G
  <2>1. G = WithBlock(file, mCurrentBlk, mLogPage)
    BY <1>1 DEF G, WithBlock
  <2>2. /\ G[mCurrentBlk] = mLogPage
        /\ \A k \in 0 .. mCurrentBlk - 1 : SubSeq(G, 1, k) = SubSeq(file, 1, k)
        /\ Flat(G) = Flat(SubSeq(file, 1, mCurrentBlk - 1)) \o mLogPage.recs
    BY <1>1, <2>1, WriteBlock
  <2>3. mCurrentBlk - 1 \in 0 .. mCurrentBlk - 1
    BY <1>1
  <2> QED BY <2>2, <2>3
<1>3. file'[mCurrentBlk'].recs = mLogPage'.recs /\ mLogPage'.recs \in Seq(LogRec)
  BY <1>1, <1>2, PageRecs
<1>4. Older' = Older
  BY <1>2 DEF Older, UpTo, Flat
<1>5. history = Older \o mLogPage.recs /\ Len(history) = base + mLatestLSN
      /\ mLatestLSN \in Nat /\ mLastSavedLSN <= mLatestLSN /\ mLastSavedLSN \in Nat /\ base \in Nat
  <2>1. ~SomeAt({"reset", "formatted"})
    BY DEF SomeAt, Growing
  <2>2. history = Older \o mLogPage.recs /\ Len(history) = base + mLatestLSN /\ base \in Nat
    BY <2>1 DEF Contents
  <2>3. mLatestLSN \in Nat /\ mLastSavedLSN <= mLatestLSN /\ mLastSavedLSN \in Nat
    BY DEF TypeInv, Types
  <2> QED BY <2>2, <2>3
<1>6. FileLog' = Flat(G) /\ Older = Flat(SubSeq(file, 1, mCurrentBlk - 1))
  BY DEF FileLog, Flat, Older, UpTo
<1>7. FileLog' = history
  BY <1>2, <1>5, <1>6
<1>8. SavedIsOnFile'
  BY <1>5, <1>7 DEF SavedIsOnFile
<1> QED BY <1>3, <1>4, <1>5, <1>7, <1>8, PrefixSelf

(* The three places where the current page is written: in append, in       *)
(* flush and in iterator().                                                *)
LEMMA WriteStep ==
  ASSUME Undisturbed, IInv, TypeInv', NEW t \in Threads,
         FullWrite(t) \/ (\E lsn \in 0 .. mLatestLSN : flush(t, lsn)) \/ iterator(t)
  PROVE  IInv'
<1> USE DEF IInv, log, threads, ghosts
<1>1. /\ boot = "up" /\ WriteCurrent
      /\ UNCHANGED <<mLogPage, mCurrentBlk, mLatestLSN, mLastSavedLSN, boot, history, base>>
  BY DEF FullWrite, flush, iterator, TypeInv, Positions
<1>2. /\ pc[t] \in {"full", "idle"} /\ Single(t)
      /\ pc'[t] \in {"saved", "flushed", "it_written"} /\ OthersStay(t)
  <2>1. pc[t] \in {"full", "idle"} /\ Single(t)
    BY Others DEF Step, append, FullWrite, flush, iterator, InMutex
  <2>2. PICK l \in {"saved", "flushed", "it_written"} : pc' = [pc EXCEPT ![t] = l]
    BY DEF FullWrite, flush, iterator, Goto
  <2>3. pc'[t] \in {"saved", "flushed", "it_written"} /\ OthersStay(t)
    BY <2>2 DEF TypeInv, Types, OthersStay
  <2> QED BY <2>1, <2>3
<1>3. ~SomeAt(Growing) /\ ~SomeAt(Growing)' /\ ~SomeAt({"reset", "formatted"})'
  BY <1>2, AtLabel DEF Growing
<1>4. /\ file'[mCurrentBlk'].recs = mLogPage'.recs /\ history = Older' \o mLogPage'.recs
      /\ SavedIsOnFile' /\ IsPrefix(file'[mCurrentBlk'].recs, mLogPage'.recs)
  BY <1>1, <1>3, Written
<1>5. history \in Seq(LogRec) /\ base \in Nat /\ Len(history) = base + mLatestLSN
  BY <1>1 DEF Contents
<1>6. Contents'
  BY <1>1, <1>3, <1>4, <1>5 DEF Contents
<1>7. IterTypes' /\ Iterations'
  <2>1. Kept
    <3>1. file \in Seq(Page) /\ mLogPage \in Page /\ mCurrentBlk \in 1 .. Len(file)
          /\ mCurrentBlk \in Nat
      BY <1>1, Blocks DEF TypeInv, Types
    <3>2. file' = WithBlock(file, mCurrentBlk, mLogPage)
      BY <1>1 DEF WriteCurrent, WithBlock
    <3>3. \A k \in 0 .. mCurrentBlk - 1 :
            SubSeq(WithBlock(file, mCurrentBlk, mLogPage), 1, k) = SubSeq(file, 1, k)
      BY <3>1, WriteBlock
    <3> QED BY <1>1, <3>1, <3>2, <3>3 DEF Kept
  <2>2. CASE iterator(t)
    <3>1. /\ iter' = [iter EXCEPT ![t].from = Len(history)]
          /\ pc[t] = "idle" /\ pc'[t] = "it_written"
      BY <2>2 DEF iterator, Goto, TypeInv, Types
    <3>2. Len(history) \in Nat
      BY <1>5, LenProperties
    <3>3. IterTypes'
      BY <3>1, <3>2 DEF IterTypes
    <3>4. /\ iter'[t].from = Len(history) /\ iter'[t].got = iter[t].got
          /\ \A u \in Threads \ {t} : iter'[u] = iter[u]
      BY <3>1 DEF IterTypes
    <3>5. iter[t].got = <<>>
      BY <3>1 DEF Iterations, Reading
    <3>6. Iterations'
      BY <1>1, <1>2, <2>1, <3>1, <3>4, <3>5, OtherIterations DEF Iterations, InIterator, Reading
    <3> QED BY <3>3, <3>6
  <2>3. CASE ~iterator(t)
    <3>1. UNCHANGED iter /\ pc'[t] \in {"saved", "flushed"}
      BY <1>2, <2>3 DEF FullWrite, flush, Goto, TypeInv, Types
    <3> QED BY <1>1, <1>2, <2>1, <3>1, NoIterator DEF InIterator, Reading
  <2> QED BY <2>2, <2>3
<1> QED BY <1>4, <1>6, <1>7

(* The file grows by a block of zeros, once the page is written.           *)
LEMMA GrowStep ==
  ASSUME Undisturbed, IInv, TypeInv', NEW t \in Threads, FullGrow(t)
  PROVE  IInv'
<1> USE DEF IInv, log, threads, ghosts
<1>1. /\ pc[t] = "saved" /\ pc'[t] = "grown" /\ Single(t) /\ OthersStay(t) /\ boot = "up"
      /\ UNCHANGED <<mLogPage, mCurrentBlk, mLatestLSN, boot, iter, history, base>>
      /\ file' = Append(file, ZeroPage) /\ mLastSavedLSN' = mLatestLSN
  <2>1. Single(t) /\ boot = "up"
    BY Others DEF Step, append, FullGrow, InMutex, TypeInv, Positions
  <2> QED BY <2>1 DEF FullGrow, Goto, TypeInv, Types, OthersStay
<1>2. /\ ~SomeAt(Growing) /\ ~SomeAt({"reset", "formatted"}) /\ ~SomeAt({"reset", "formatted"})'
      /\ SomeAt({"saved", "flushed", "grown"} \cup InIterator)
  BY <1>1, AtLabel DEF Growing
<1>3. /\ history = Older \o mLogPage.recs /\ file[mCurrentBlk].recs = mLogPage.recs
      /\ Len(history) = base + mLatestLSN /\ history \in Seq(LogRec) /\ base \in Nat
  BY <1>1, <1>2 DEF Contents
<1>4. /\ file \in Seq(Page) /\ mCurrentBlk = Len(file) /\ mCurrentBlk \in 1 .. Len(file)
      /\ FileLog = Older \o file[mCurrentBlk].recs /\ FileLog \in Seq(LogRec)
      /\ mLogPage.recs \in Seq(LogRec)
  BY <1>1, <1>2, Blocks DEF TypeInv, Types, Positions
<1> DEFINE G == file'
<1>5. /\ Len(G) = Len(file) + 1 /\ G[Len(file) + 1] = ZeroPage
      /\ G[mCurrentBlk] = file[mCurrentBlk]
      /\ SubSeq(G, 1, mCurrentBlk - 1) = SubSeq(file, 1, mCurrentBlk - 1)
  <2> HIDE DEF G
  <2>1. G = Append(file, ZeroPage)
    BY <1>1 DEF G
  <2>2. mCurrentBlk - 1 \in 0 .. Len(file) /\ mCurrentBlk \in 1 .. Len(file)
    BY <1>4
  <2> QED BY <1>4, <2>1, <2>2, GrowFile, PageTypes
<1>6. FileLog' = FileLog
  <2>1. Flat(Append(file, ZeroPage)) = Flat(file) \o ZeroPage.recs
    BY <1>4, PageTypes, FlatAppend
  <2>2. FileLog = Flat(file) /\ FileLog' = Flat(Append(file, ZeroPage)) /\ ZeroPage.recs = <<>>
    BY <1>1 DEF FileLog, Flat, ZeroPage
  <2> QED BY <1>4, <2>1, <2>2, ConcatEmptySeq
<1>7. Older' = Older
  BY <1>1, <1>5 DEF Older, UpTo, Flat
<1>8. file'[mCurrentBlk'].recs = mLogPage'.recs /\ file'[Len(file')].recs = <<>>
  <2>1. mCurrentBlk' = mCurrentBlk /\ mLogPage' = mLogPage
    BY <1>1
  <2>2. file'[mCurrentBlk] = file[mCurrentBlk] /\ file'[Len(file')] = ZeroPage
    BY <1>5
  <2>3. ZeroPage.recs = <<>>
    BY DEF ZeroPage
  <2> QED BY <1>3, <2>1, <2>2, <2>3
<1>9. IsPrefix(file'[mCurrentBlk'].recs, mLogPage'.recs)
  BY <1>1, <1>4, <1>8, PrefixSelf
<1>10. Contents'
  BY <1>1, <1>2, <1>3, <1>7, <1>8, <1>9 DEF Contents
<1>11. SavedIsOnFile'
  BY <1>1, <1>3, <1>4, <1>6, SMTT(30) DEF SavedIsOnFile, TypeInv, Types
<1>12. IterTypes' /\ Iterations'
  <2>1. \A k \in 0 .. Len(file) : SubSeq(file', 1, k) = SubSeq(file, 1, k)
    BY <1>1, <1>4, GrowFile, PageTypes
  <2>2. Kept
    BY <1>1, <1>4, <2>1 DEF Kept
  <2> QED BY <1>1, <2>2, NoIterator DEF InIterator, Reading
<1> QED BY <1>10, <1>11, <1>12

(* The page is emptied: its records are on the file.                       *)
LEMMA ResetStep ==
  ASSUME Undisturbed, IInv, TypeInv', NEW t \in Threads, FullReset(t)
  PROVE  IInv'
<1> USE DEF IInv, log, threads, ghosts
<1>1. /\ pc[t] = "grown" /\ pc'[t] = "reset" /\ Single(t) /\ OthersStay(t) /\ boot = "up"
      /\ UNCHANGED <<file, mCurrentBlk, mLatestLSN, mLastSavedLSN, boot, iter, history, base>>
  <2>1. Single(t) /\ boot = "up"
    BY Others DEF Step, append, FullReset, InMutex, TypeInv, Positions
  <2> QED BY <2>1 DEF FullReset, Goto, TypeInv, Types, OthersStay
<1>2. /\ SomeAt(Growing) /\ ~SomeAt({"reset", "formatted"}) /\ SomeAt({"reset", "formatted"})'
      /\ SomeAt({"saved", "flushed", "grown"} \cup InIterator)
      /\ ~SomeAt({"saved", "flushed", "grown"} \cup InIterator)'
  BY <1>1, AtLabel DEF Growing, InIterator
<1>3. /\ history = Older \o mLogPage.recs /\ file[mCurrentBlk].recs = mLogPage.recs
      /\ file[Len(file)].recs = <<>>
      /\ Len(history) = base + mLatestLSN /\ history \in Seq(LogRec) /\ base \in Nat
  BY <1>1, <1>2 DEF Contents
<1>4. FileLog' = FileLog /\ Older' = Older
  BY <1>1 DEF FileLog, Older, UpTo
<1>5. history' = Older' \o file'[mCurrentBlk'].recs /\ file'[Len(file')].recs = <<>>
  BY <1>1, <1>3, <1>4
<1>6. Contents'
  BY <1>1, <1>2, <1>3, <1>5 DEF Contents
<1>7. SavedIsOnFile'
  BY <1>1, <1>4 DEF SavedIsOnFile
<1>8. IterTypes' /\ Iterations'
  <2>1. Kept
    BY <1>1 DEF Kept, TypeInv, Types
  <2> QED BY <1>1, <2>1, NoIterator DEF InIterator, Reading
<1> QED BY <1>6, <1>7, <1>8

(* The new block becomes an empty one: it has no records before or after.  *)
LEMMA FormatStep ==
  ASSUME Undisturbed, IInv, TypeInv', NEW t \in Threads, FullFormat(t)
  PROVE  IInv'
<1> USE DEF IInv, log, threads, ghosts
<1>1. /\ pc[t] = "reset" /\ pc'[t] = "formatted" /\ Single(t) /\ OthersStay(t) /\ boot = "up"
      /\ UNCHANGED <<mLogPage, mCurrentBlk, mLatestLSN, mLastSavedLSN, boot, iter, history, base>>
      /\ file' = [file EXCEPT ![Len(file)] = mLogPage]
  <2>1. Single(t) /\ boot = "up"
    BY Others DEF Step, append, FullFormat, InMutex, TypeInv, Positions
  <2> QED BY <2>1 DEF FullFormat, Goto, TypeInv, Types, OthersStay
<1>2. /\ SomeAt(Growing) /\ SomeAt({"reset", "formatted"}) /\ SomeAt({"reset", "formatted"})'
      /\ ~SomeAt({"saved", "flushed", "grown"} \cup InIterator)'
  BY <1>1, AtLabel DEF Growing, InIterator
<1>3. /\ history = Older \o file[mCurrentBlk].recs /\ file[Len(file)].recs = <<>>
      /\ Len(history) = base + mLatestLSN /\ history \in Seq(LogRec) /\ base \in Nat
  BY <1>1, <1>2 DEF Contents
<1>4. /\ file \in Seq(Page) /\ Len(file) = mCurrentBlk + 1 /\ mCurrentBlk \in 1 .. Len(file)
      /\ Len(file) \in 1 .. Len(file) /\ mLogPage \in Page /\ mLogPage.recs = <<>>
      /\ FileLog = UpTo(mCurrentBlk) /\ UpTo(mCurrentBlk) \in Seq(LogRec)
  <2>1. /\ file \in Seq(Page) /\ mLogPage \in Page /\ Len(file) = mCurrentBlk + 1
        /\ mLogPage.recs = <<>>
    BY <1>1, <1>2 DEF TypeInv, Types, Positions, EmptyPage
  <2>2. /\ mCurrentBlk \in 1 .. Len(file) /\ FileLog \in Seq(LogRec)
        /\ FileLog = UpTo(mCurrentBlk)
    BY <1>1, <1>3, Blocks
  <2> QED BY <2>1, <2>2
<1> DEFINE G == file'
<1>5. /\ G[mCurrentBlk] = file[mCurrentBlk] /\ Len(G) = Len(file) /\ G[Len(file)] = mLogPage
      /\ SubSeq(G, 1, mCurrentBlk - 1) = SubSeq(file, 1, mCurrentBlk - 1)
      /\ Flat(G) = Flat(SubSeq(file, 1, mCurrentBlk)) \o mLogPage.recs
  <2>1. Len(G) = Len(file)
    BY <1>1, <1>4
  <2> HIDE DEF G
  <2>2. G = WithBlock(file, Len(file), mLogPage)
    BY <1>1 DEF G, WithBlock
  <2>3. /\ G[Len(file)] = mLogPage
        /\ \A i \in 1 .. Len(file) : i # Len(file) => G[i] = file[i]
        /\ \A k \in 0 .. Len(file) - 1 : SubSeq(G, 1, k) = SubSeq(file, 1, k)
        /\ Flat(G) = Flat(SubSeq(file, 1, Len(file) - 1)) \o mLogPage.recs
    BY <1>4, <2>2, WriteBlock
  <2>4. /\ mCurrentBlk - 1 \in 0 .. Len(file) - 1 /\ mCurrentBlk # Len(file)
        /\ Len(file) - 1 = mCurrentBlk
    BY <1>4
  <2> QED BY <1>4, <2>1, <2>3, <2>4
<1>6. Older' = Older
  BY <1>1, <1>5 DEF Older, UpTo, Flat
<1>7. FileLog' = FileLog
  <2>1. FileLog' = UpTo(mCurrentBlk) \o mLogPage.recs
    BY <1>5 DEF FileLog, UpTo, Flat
  <2> QED BY <1>4, <2>1, ConcatEmptySeq
<1>8. history' = Older' \o file'[mCurrentBlk'].recs
  BY <1>1, <1>3, <1>5, <1>6
<1>9. file'[Len(file')].recs = <<>>
  BY <1>4, <1>5
<1>10. Contents'
  BY <1>1, <1>2, <1>3, <1>8, <1>9 DEF Contents
<1>11. SavedIsOnFile'
  BY <1>1, <1>7 DEF SavedIsOnFile
<1>12. IterTypes' /\ Iterations'
  <2>1. file' = WithBlock(file, Len(file), mLogPage)
    BY <1>1 DEF WithBlock
  <2>2. \A k \in 0 .. Len(file) - 1 : SubSeq(WithBlock(file, Len(file), mLogPage), 1, k) = SubSeq(file, 1, k)
    BY <1>4, WriteBlock
  <2>3. Kept
    BY <1>1, <1>4, <2>1, <2>2 DEF Kept
  <2> QED BY <1>1, <2>3, NoIterator DEF InIterator, Reading
<1> QED BY <1>10, <1>11, <1>12

(* The record that did not fit is the first of the new block.              *)
LEMMA PutStep ==
  ASSUME Undisturbed, IInv, TypeInv', NEW t \in Threads, FullPut(t)
  PROVE  IInv'
<1> USE DEF IInv, log, threads, ghosts
<1>1. /\ pc[t] = "formatted" /\ pc'[t] = "idle" /\ Single(t) /\ OthersStay(t) /\ boot = "up"
      /\ UNCHANGED <<file, mLastSavedLSN, boot, iter, base>>
      /\ mCurrentBlk' = Len(file) /\ mLatestLSN' = mLatestLSN + 1
      /\ history' = Append(history, rec[t]) /\ mLogPage'.recs = Append(mLogPage.recs, rec[t])
  <2>1. Single(t) /\ boot = "up"
    BY Others DEF Step, append, FullPut, InMutex, TypeInv, Positions
  <2> QED BY <2>1 DEF FullPut, Put, Goto, TypeInv, Types, OthersStay
<1>2. /\ SomeAt(Growing) /\ SomeAt({"reset", "formatted"})
      /\ ~SomeAt({"reset", "formatted"})' /\ ~SomeAt(Growing)'
      /\ ~SomeAt({"saved", "flushed", "grown"} \cup InIterator)'
  BY <1>1, AtLabel DEF Growing, InIterator
<1>3. /\ history = Older \o file[mCurrentBlk].recs /\ file[Len(file)].recs = <<>>
      /\ Len(history) = base + mLatestLSN /\ history \in Seq(LogRec) /\ base \in Nat
  BY <1>1, <1>2 DEF Contents
<1>4. /\ Len(file) - 1 = mCurrentBlk /\ mLogPage.recs = <<>> /\ rec[t] \in LogRec
      /\ mLatestLSN \in Nat
  BY <1>1, <1>2 DEF TypeInv, Types, Positions, Filling, EmptyPage
<1>5. Older' = history
  <2>1. Older' = UpTo(Len(file) - 1)
    BY <1>1 DEF Older, UpTo
  <2> QED BY <1>1, <1>3, <1>4, <2>1, Blocks
<1>6. FileLog' = FileLog
  BY <1>1 DEF FileLog
<1>7. history' = Older' \o mLogPage'.recs
  <2>1. Append(history \o <<>>, rec[t]) = history \o Append(<<>>, rec[t])
    BY <1>3, <1>4, RecAppended, EmptySeq
  <2>2. history \o <<>> = history
    BY <1>3, ConcatEmptySeq
  <2> QED BY <1>1, <1>4, <1>5, <2>1, <2>2
<1>8. IsPrefix(file'[mCurrentBlk'].recs, mLogPage'.recs)
  <2>1. Append(<<>>, rec[t]) \in Seq(LogRec)
    BY <1>4, EmptySeq, AppendProperties
  <2>2. IsPrefix(<<>>, Append(<<>>, rec[t]))
    BY <2>1, PrefixSelf
  <2> QED BY <1>1, <1>3, <1>4, <2>2
<1>9. history' \in Seq(LogRec) /\ Len(history') = base' + mLatestLSN'
  <2>1. /\ Append(history, rec[t]) \in Seq(LogRec)
        /\ Len(Append(history, rec[t])) = Len(history) + 1
    BY <1>3, <1>4, AppendProperties
  <2>2. base' = base /\ Len(history) + 1 = base + (mLatestLSN + 1)
    BY <1>1, <1>3, <1>4
  <2> QED BY <1>1, <2>1, <2>2
<1>10. Contents'
  BY <1>1, <1>2, <1>3, <1>7, <1>8, <1>9 DEF Contents
<1>11. SavedIsOnFile'
  BY <1>1, <1>6 DEF SavedIsOnFile
<1>12. IterTypes' /\ Iterations'
  <2>1. Kept
    BY <1>1, <1>4 DEF Kept, TypeInv, Types
  <2> QED BY <1>1, <2>1, NoIterator DEF InIterator, Reading
<1> QED BY <1>10, <1>11, <1>12

(* A flush, or the one of iterator(), says what it has written.            *)
LEMMA SaidStep ==
  ASSUME Undisturbed, IInv, TypeInv', NEW t \in Threads, FlushEnds(t) \/ IterSaved(t)
  PROVE  IInv'
<1> USE DEF IInv, log, threads, ghosts
<1>1. /\ pc[t] \in {"flushed", "it_written"} /\ pc'[t] \in {"idle", "it_open"}
      /\ Single(t) /\ OthersStay(t) /\ boot = "up"
      /\ UNCHANGED <<file, mLogPage, mCurrentBlk, mLatestLSN, boot, iter, history, base>>
      /\ mLastSavedLSN' = mLatestLSN
  <2>1. Single(t) /\ boot = "up"
    BY Others DEF Step, append, FlushEnds, IterSaved, InMutex, InIterator, TypeInv, Positions
  <2> QED BY <2>1 DEF FlushEnds, IterSaved, Goto, TypeInv, Types, OthersStay
<1>2. /\ ~SomeAt(Growing) /\ ~SomeAt({"reset", "formatted"})
      /\ ~SomeAt(Growing)' /\ ~SomeAt({"reset", "formatted"})'
      /\ SomeAt({"saved", "flushed", "grown"} \cup InIterator)
  BY <1>1, AtLabel DEF Growing, InIterator
<1>3. /\ history = Older \o mLogPage.recs /\ file[mCurrentBlk].recs = mLogPage.recs
      /\ IsPrefix(file[mCurrentBlk].recs, mLogPage.recs)
      /\ Len(history) = base + mLatestLSN /\ history \in Seq(LogRec) /\ base \in Nat
  BY <1>1, <1>2 DEF Contents
<1>4. FileLog = history
  BY <1>1, <1>2, <1>3, Blocks
<1>5. FileLog' = FileLog /\ Older' = Older
  BY <1>1 DEF FileLog, Older, UpTo
<1>6. Contents'
  <2>1. file'[mCurrentBlk'].recs = mLogPage'.recs /\ history' = Older' \o mLogPage'.recs
        /\ IsPrefix(file'[mCurrentBlk'].recs, mLogPage'.recs)
    BY <1>1, <1>3, <1>5
  <2> QED BY <1>1, <1>2, <1>3, <2>1 DEF Contents
<1>7. SavedIsOnFile'
  BY <1>1, <1>3, <1>4, <1>5 DEF SavedIsOnFile, TypeInv, Types
<1>8. IterTypes' /\ Iterations'
  <2>1. Kept
    BY <1>1 DEF Kept, TypeInv, Types
  <2>2. CASE FlushEnds(t)
    <3>1. pc[t] = "flushed" /\ pc'[t] = "idle"
      BY <2>2 DEF FlushEnds, Goto, TypeInv, Types
    <3> QED BY <1>1, <2>1, <3>1, NoIterator DEF InIterator, Reading
  <2>3. CASE IterSaved(t)
    <3>1. pc[t] = "it_written" /\ pc'[t] = "it_open"
      BY <2>3 DEF IterSaved, Goto, TypeInv, Types
    <3>2. iter[t].from = Len(history) /\ iter[t].got = <<>>
      BY <3>1 DEF Iterations, InIterator, Reading
    <3>3. Iterations'
      BY <1>1, <2>1, <3>1, <3>2, OtherIterations DEF Iterations, InIterator, Reading
    <3> QED BY <1>1, <3>3 DEF IterTypes
  <2> QED BY <2>2, <2>3
<1> QED BY <1>6, <1>7, <1>8

(* An iteration reads blocks backwards: what it has not read is older.     *)
LEMMA ReadBlock ==
  ASSUME TypeInv, IterTypes, NEW t \in Threads, NEW b \in 1 .. Len(file), Read(t, b)
  PROVE  /\ IterTypes' /\ iter'[t].blk = b /\ iter'[t].from = iter[t].from
         /\ \A u \in Threads \ {t} : iter'[u] = iter[u]
         /\ UpTo(b - 1) \o Reverse(iter'[t].got) = UpTo(b) \o Reverse(iter[t].got)
<1>1. file \in Seq(Page) /\ iter[t].got \in Seq(LogRec) /\ b \in Nat
  BY LenProperties DEF TypeInv, Types, IterTypes
<1>2. file[b].recs \in Seq(LogRec)
  <2>1. file[b] \in Page
    BY <1>1, ElementOfSeq
  <2> QED BY <2>1, PageRecs
<1>3. Reverse(file[b].recs) \in Seq(LogRec) /\ Reverse(iter[t].got) \in Seq(LogRec)
  BY <1>1, <1>2, ReverseType
<1>4. iter[t].got \o Reverse(file[b].recs) \in Seq(LogRec)
  BY <1>1, <1>3, ConcatProperties
<1>5. /\ IterTypes' /\ iter'[t].blk = b /\ iter'[t].from = iter[t].from
      /\ iter'[t].got = iter[t].got \o Reverse(file[b].recs)
      /\ \A u \in Threads \ {t} : iter'[u] = iter[u]
  <2> DEFINE g == iter[t].got \o Reverse(file[b].recs)
  <2>1. iter' = [iter EXCEPT ![t].blk = b, ![t].got = g]
    BY DEF Read
  <2>2. g \in Seq(LogRec)
    BY <1>4
  <2> HIDE DEF g
  <2>3. /\ IterTypes' /\ iter'[t].blk = b /\ iter'[t].from = iter[t].from /\ iter'[t].got = g
        /\ \A u \in Threads \ {t} : iter'[u] = iter[u]
    BY <1>1, <2>1, <2>2 DEF IterTypes
  <2> QED BY <2>3 DEF g
<1>6. Reverse(iter'[t].got) = file[b].recs \o Reverse(iter[t].got)
  BY <1>1, <1>2, <1>5, ReverseConcat
<1>7. UpTo(b) = UpTo(b - 1) \o file[b].recs /\ UpTo(b - 1) \in Seq(LogRec)
  <2>1. SubSeq(file, 1, b - 1) \in Seq(Page)
        /\ Flat(SubSeq(file, 1, b)) = Flat(SubSeq(file, 1, b - 1)) \o file[b].recs
    BY <1>1, FlatUpTo
  <2> QED BY <2>1, FlatType DEF UpTo
<1>8. (UpTo(b - 1) \o file[b].recs) \o Reverse(iter[t].got)
        = UpTo(b - 1) \o (file[b].recs \o Reverse(iter[t].got))
  <2> DEFINE u == UpTo(b - 1)
             v == file[b].recs
             w == Reverse(iter[t].got)
  <2>1. u \in Seq(LogRec) /\ v \in Seq(LogRec) /\ w \in Seq(LogRec)
    BY <1>2, <1>3, <1>7
  <2> HIDE DEF u, v, w
  <2>2. (u \o v) \o w = u \o (v \o w)
    BY <2>1, ConcatAssociative
  <2> QED BY <2>2 DEF u, v, w
<1> QED BY <1>5, <1>6, <1>7, <1>8

(* An iteration opens, reads a block further back, or ends.                *)
LEMMA ReadStep ==
  ASSUME Undisturbed, IInv, TypeInv', NEW t \in Threads, IterOpen(t) \/ IterNext(t) \/ IterEnds(t)
  PROVE  IInv'
<1> USE DEF IInv, log, threads, ghosts
<1>1. /\ pc[t] \in {"it_open"} \cup Reading /\ pc'[t] \in {"idle"} \cup Reading
      /\ OthersStay(t) /\ boot = "up"
      /\ UNCHANGED <<file, mLogPage, mCurrentBlk, mLatestLSN, mLastSavedLSN, boot, history, base>>
  <2>1. boot = "up" /\ pc[t] \in {"it_open"} \cup Reading
    BY DEF IterOpen, IterNext, IterEnds, Reading, TypeInv, Positions
  <2>2. PICK l \in {"idle"} \cup Reading : pc' = [pc EXCEPT ![t] = l]
    BY DEF IterOpen, IterNext, IterEnds, Goto, Reading
  <2> QED BY <2>1, <2>2 DEF IterOpen, IterNext, IterEnds, TypeInv, Types, OthersStay
<1>2. /\ SomeAt(Growing)' <=> SomeAt(Growing)
      /\ SomeAt({"reset", "formatted"})' <=> SomeAt({"reset", "formatted"})
      /\ SomeAt({"saved", "flushed", "grown"} \cup InIterator)'
           => SomeAt({"saved", "flushed", "grown"} \cup InIterator)
  BY <1>1 DEF SomeAt, OthersStay, Growing, InIterator, Reading
<1>3. FileLog' = FileLog /\ Older' = Older
  BY <1>1 DEF FileLog, Older, UpTo
<1>4. Contents'
  BY <1>1, <1>2, <1>3 DEF Contents
<1>5. SavedIsOnFile'
  BY <1>1, <1>3 DEF SavedIsOnFile
(* The other iterations.                                                   *)
<1>6. ASSUME NEW u \in Threads \ {t}, iter'[u] = iter[u]
      PROVE  /\ pc'[u] \in InIterator => iter'[u].from = Len(history')
             /\ pc'[u] \notin Reading => iter'[u].got = <<>>
             /\ pc'[u] = "it_next" => Unread(u)'
  BY <1>1, <1>6 DEF OthersStay, Iterations, Unread, Seen, UpTo
<1>7. ASSUME NEW b \in 1 .. mCurrentBlk, Read(t, b), pc'[t] \in Reading,
             IsPrefix(UpTo(b) \o Reverse(iter[t].got), history),
             iter[t].from <= Len(UpTo(b) \o Reverse(iter[t].got))
      PROVE  IterTypes' /\ Iterations'
  <2>1. b \in 1 .. Len(file)
    BY <1>1, Blocks
  <2>2. /\ IterTypes' /\ iter'[t].blk = b /\ iter'[t].from = iter[t].from
        /\ \A u \in Threads \ {t} : iter'[u] = iter[u]
        /\ UpTo(b - 1) \o Reverse(iter'[t].got) = UpTo(b) \o Reverse(iter[t].got)
    BY <1>7, <2>1, ReadBlock
  <2>3. Seen(t)' = UpTo(b) \o Reverse(iter[t].got)
    BY <1>1, <2>2 DEF Seen, UpTo
  <2>4. Unread(t)'
    BY <1>1, <1>7, <2>2, <2>3 DEF Unread
  <2>5. Iterations'
    BY <1>6, <1>7, <2>2, <2>4 DEF Iterations, InIterator, Reading
  <2> QED BY <2>2, <2>5
<1>8. CASE IterOpen(t)
  <2>1. Read(t, mCurrentBlk) /\ pc[t] = "it_open" /\ pc'[t] \in Reading
    BY <1>8 DEF IterOpen, Goto, TypeInv, Types, Reading
  <2>2. Single(t)
    BY <1>8, Others DEF Step
  <2>3. /\ ~SomeAt({"reset", "formatted"})
        /\ SomeAt({"saved", "flushed", "grown"} \cup InIterator)
    BY <1>1, <2>1, <2>2, AtLabel DEF InIterator
  <2>4. /\ history = Older \o mLogPage.recs /\ file[mCurrentBlk].recs = mLogPage.recs
        /\ history \in Seq(LogRec)
    BY <1>1, <2>3 DEF Contents
  <2>5. mCurrentBlk \in 1 .. mCurrentBlk /\ UpTo(mCurrentBlk) = Older \o file[mCurrentBlk].recs
    BY <1>1, Blocks
  <2>6. iter[t].got = <<>> /\ Reverse(<<>>) = <<>>
    <3>1. Reverse(<<>>) \in Seq(LogRec) /\ Len(Reverse(<<>>)) = 0
      BY EmptySeq, ReverseType
    <3> QED BY <2>1, <3>1, EmptySeq DEF Iterations, InIterator, Reading
  <2>7. UpTo(mCurrentBlk) \o Reverse(iter[t].got) = history
    BY <2>4, <2>5, <2>6, ConcatEmptySeq
  <2>8. IsPrefix(history, history) /\ iter[t].from <= Len(history)
    <3>1. iter[t].from = Len(history)
      BY <2>1 DEF Iterations, InIterator
    <3>2. Len(history) \in Nat
      BY <2>4, LenProperties
    <3>3. IsPrefix(history, history)
      BY <2>4, PrefixSelf
    <3>4. iter[t].from <= Len(history)
      BY <3>1, <3>2
    <3> QED BY <3>3, <3>4
  <2>9. /\ IsPrefix(UpTo(mCurrentBlk) \o Reverse(iter[t].got), history)
        /\ iter[t].from <= Len(UpTo(mCurrentBlk) \o Reverse(iter[t].got))
    BY <2>7, <2>8, Zenon
  <2>10. IterTypes' /\ Iterations'
    BY <1>7, <2>1, <2>5, <2>9
  <2> QED BY <1>4, <1>5, <2>10
<1>9. CASE IterNext(t)
  <2>1. /\ Read(t, iter[t].blk - 1) /\ pc[t] = "it_next" /\ pc'[t] \in Reading /\ iter[t].blk > 1
    BY <1>9 DEF IterNext, Goto, TypeInv, Types, Reading
  <2>2. /\ iter[t].blk \in 1 .. mCurrentBlk /\ IsPrefix(Seen(t), history)
        /\ iter[t].from <= Len(Seen(t))
    BY <2>1 DEF Iterations, Unread
  <2>3. iter[t].blk - 1 \in 1 .. mCurrentBlk
    BY <1>1, <2>1, <2>2, Blocks
  <2>4. IterTypes' /\ Iterations'
    BY <1>7, <2>1, <2>2, <2>3 DEF Seen
  <2> QED BY <1>4, <1>5, <2>4
<1>10. CASE IterEnds(t)
  <2>1. iter' = [iter EXCEPT ![t] = NoIter] /\ pc'[t] = "idle"
    BY <1>10 DEF IterEnds, Goto, TypeInv, Types
  <2>2. NoIter \in [blk : Nat, got : Seq(LogRec), from : Nat] /\ NoIter.got = <<>>
    BY EmptySeq DEF NoIter
  <2>3. /\ IterTypes' /\ iter'[t].got = <<>>
        /\ \A u \in Threads \ {t} : iter'[u] = iter[u]
    BY <2>1, <2>2 DEF IterTypes
  <2>4. Iterations'
    BY <1>6, <2>1, <2>3 DEF Iterations, InIterator
  <2> QED BY <1>4, <1>5, <2>3, <2>4
<1> QED BY <1>8, <1>9, <1>10

(* IInv holds at first and every step keeps it.                            *)
LEMMA IInvInit == Init => IInv
<1> SUFFICES ASSUME Init PROVE IInv
  OBVIOUS
<1>1. FileLog = <<>>
  BY FlatSmall, PageTypes DEF Init, FileLog, Flat
<1>2. Contents /\ SavedIsOnFile
  BY <1>1, EmptySeq DEF Init, Contents, SavedIsOnFile
<1>3. IterTypes /\ Iterations
  BY EmptySeq DEF Init, IterTypes, Iterations, InIterator, NoIter
<1> QED BY <1>2, <1>3, TypeInvInit DEF IInv

(* IInv says nothing that a step outside the log could change.             *)
LEMMA IInvStutter == IInv /\ UNCHANGED vars => IInv'
<1> SUFFICES ASSUME IInv, UNCHANGED vars PROVE IInv'
  OBVIOUS
<1>1. TypeInv'
  BY TypeInvStep DEF IInv
<1>2. UNCHANGED <<log, boot, pc, iter, history, base>>
  BY DEF vars, threads, ghosts
<1>3. FileLog' = FileLog /\ Older' = Older
  BY <1>2 DEF log, FileLog, Older, UpTo
<1>4. SavedIsOnFile' /\ IterTypes'
  BY <1>2, <1>3 DEF log, IInv, SavedIsOnFile, IterTypes
<1>5. Contents'
  <2>1. \A L : SomeAt(L)' = SomeAt(L)
    BY <1>2 DEF SomeAt
  <2> QED BY <1>2, <1>3, <2>1 DEF log, IInv, Contents, SomeAt
<1>6. Iterations'
  BY <1>2 DEF log, IInv, Iterations, Unread, Seen, UpTo
<1> QED BY <1>1, <1>4, <1>5, <1>6 DEF IInv

(* Every step of the log keeps IInv, if iterations are undisturbed.        *)
LEMMA IInvStep == Undisturbed /\ IInv /\ Next => IInv'
<1> SUFFICES ASSUME Undisturbed, IInv, Next PROVE IInv'
  OBVIOUS
<1>0. TypeInv'
  BY TypeInvStep DEF IInv
<1>1. ASSUME NEW t \in Threads, AppendFull(t) PROVE IInv'
  <2>1. /\ pc[t] = "idle" /\ pc'[t] = "full" /\ Single(t) /\ OthersStay(t) /\ boot = "up"
        /\ UNCHANGED <<log, boot, iter, history, base>>
    <3>1. Single(t)
      BY <1>1, Others DEF Step, append, AppendFull, IInv
    <3> QED BY <1>1, <3>1 DEF AppendFull, Goto, IInv, TypeInv, Types, OthersStay
  <2>2. /\ ~SomeAt(Growing) /\ ~SomeAt({"reset", "formatted"})
        /\ ~SomeAt(Growing)' /\ ~SomeAt({"reset", "formatted"})'
        /\ ~SomeAt({"saved", "flushed", "grown"} \cup InIterator)'
    BY <2>1, AtLabel DEF Growing, InIterator
  <2>3. FileLog' = FileLog /\ Older' = Older
    BY <2>1 DEF log, FileLog, Older, UpTo
  <2>4. Contents' /\ SavedIsOnFile'
    BY <2>1, <2>2, <2>3 DEF log, IInv, Contents, SavedIsOnFile
  <2>5. Kept
    BY <2>1 DEF log, Kept, IInv, TypeInv, Types
  <2> QED BY <1>0, <2>1, <2>4, <2>5, NoIterator DEF IInv, InIterator, Reading
<1>2. CASE Crash
  <2>1. FileLog \in Seq(LogRec)
    BY FlatType DEF FileLog, Flat, IInv, TypeInv, Types
  <2>2. /\ boot' = "down" /\ history' = FileLog /\ base' = Len(history') /\ UNCHANGED file
        /\ mLastSavedLSN' = 0 /\ \A t \in Threads : pc'[t] = "idle" /\ iter'[t] = NoIter
        /\ iter' = [t \in Threads |-> NoIter]
    BY <1>2 DEF Crash
  <2>3. FileLog' = FileLog
    BY <2>2 DEF FileLog
  <2>4. history' \in Seq(LogRec) /\ base' \in Nat /\ Len(FileLog') \in Nat
    BY <2>1, <2>2, <2>3, LenProperties
  <2>5. Contents' /\ SavedIsOnFile'
    BY <2>2, <2>3, <2>4 DEF Contents, SavedIsOnFile
  <2>6. IterTypes' /\ Iterations'
    BY <2>2, EmptySeq DEF IterTypes, Iterations, InIterator, NoIter
  <2> QED BY <1>0, <2>5, <2>6 DEF IInv
<1> QED BY <1>0, <1>1, <1>2, OpenStep, AppendStep, WriteStep, GrowStep, ResetStep, FormatStep,
           PutStep, SaidStep, ReadStep DEF Next, append, log_iterator

(* IInv always holds, if iterations are undisturbed.                       *)
LEMMA IInvAlways == UndisturbedSpec => []IInv
<1>1. IInv /\ [Next /\ Undisturbed]_vars => IInv'
  BY IInvStutter, IInvStep
<1> QED BY <1>1, IInvInit, PTL DEF UndisturbedSpec

(* What flush has promised is on the file.                                 *)
THEOREM SavedIsSafe == UndisturbedSpec => []SavedIsOnFile
<1>1. IInv => SavedIsOnFile
  BY DEF IInv
<1> QED BY <1>1, IInvAlways, PTL

(* In every state the file has a first part of the log, in order.          *)
LEMMA FileHasPrefix == ASSUME IInv PROVE FileIsPrefix
<1>1. history \in Seq(LogRec)
  BY DEF IInv, Contents
<1>2. CASE boot # "up"
  BY <1>1, <1>2, PrefixSelf DEF IInv, Contents, FileIsPrefix
<1>3. CASE boot = "up"
  <2>1. /\ Older \in Seq(LogRec) /\ FileLog = Older \o file[mCurrentBlk].recs
        /\ file[mCurrentBlk].recs \in Seq(LogRec) /\ mLogPage.recs \in Seq(LogRec)
    BY <1>3, Blocks DEF IInv, Contents
  <2>2. CASE SomeAt({"reset", "formatted"})
    <3>1. FileLog = history
      BY <1>3, <2>1, <2>2 DEF IInv, Contents
    <3> QED BY <1>1, <3>1, PrefixSelf DEF FileIsPrefix
  <2>3. CASE ~SomeAt({"reset", "formatted"})
    <3>1. history = Older \o mLogPage.recs /\ IsPrefix(file[mCurrentBlk].recs, mLogPage.recs)
      BY <1>3, <2>3 DEF IInv, Contents
    <3>2. IsPrefix(Older \o file[mCurrentBlk].recs, Older \o mLogPage.recs)
      BY <2>1, <3>1, PrefixConcat
    <3> QED BY <2>1, <3>1, <3>2 DEF FileIsPrefix
  <2> QED BY <2>2, <2>3
<1> QED BY <1>2, <1>3

(* Blocks, block switches and crashes keep the records in the order of     *)
(* append, without a gap: the file is an initial part of the log.          *)
THEOREM FileKeepsOrder == UndisturbedSpec => []FileIsPrefix
<1>1. IInv => FileIsPrefix
  BY FileHasPrefix
<1> QED BY <1>1, IInvAlways, PTL

(* An iteration that has come to the first block has the whole log.        *)
LEMMA IterationHasAll == ASSUME IInv PROVE IterationComplete
<1> SUFFICES ASSUME NEW t \in Threads, pc[t] = "it_next", iter[t].blk = 1
             PROVE  Len(iter[t].got) >= iter[t].from /\ IsPrefix(Reverse(iter[t].got), history)
  BY DEF IterationComplete
<1>1. /\ IsPrefix(Seen(t), history) /\ iter[t].from <= Len(Seen(t))
      /\ iter[t].got \in Seq(LogRec)
  BY DEF IInv, Iterations, Reading, Unread, IterTypes
<1>2. UpTo(0) = <<>>
  <2>1. SubSeq(file, 1, 0) = <<>>
    BY SubSeqEmpty
  <2> QED BY <2>1, PageTypes, FlatSmall DEF UpTo
<1>3. Reverse(iter[t].got) \in Seq(LogRec) /\ Len(Reverse(iter[t].got)) = Len(iter[t].got)
  BY <1>1, ReverseType
<1>4. Seen(t) = Reverse(iter[t].got)
  <2>1. iter[t].blk - 1 = 0
    OBVIOUS
  <2> QED BY <1>2, <1>3, <2>1, ConcatEmptySeq DEF Seen
<1>5. iter[t].from \in Nat /\ Len(iter[t].got) \in Nat
  BY <1>1, LenProperties DEF IInv, IterTypes
<1> QED BY <1>1, <1>3, <1>4, <1>5

(* A rollback or a recovery that reads back to the first block has seen    *)
(* every record there was when it began, newest first, each once.          *)
THEOREM IterationIsComplete == UndisturbedSpec => []IterationComplete
<1>1. IInv => IterationComplete
  BY IterationHasAll
<1> QED BY <1>1, IInvAlways, PTL

-----------------------------------------------------------------------------
(* The log manager implements the abstract log.                            *)
Safe == {"saved", "flushed", "grown", "reset", "formatted"} \cup InIterator

(* At these labels the file has the whole log.                             *)
LEMMA AllOnFile == IInv /\ (boot = "up" => SomeAt(Safe)) => FileLog = history
<1> SUFFICES ASSUME IInv, boot = "up" => SomeAt(Safe) PROVE FileLog = history
  OBVIOUS
<1>1. CASE boot # "up"
  BY <1>1 DEF IInv, Contents
<1>2. CASE boot = "up"
  <2>1. FileLog = Older \o file[mCurrentBlk].recs
    BY <1>2, Blocks DEF IInv, Contents
  <2>2. CASE SomeAt({"reset", "formatted"})
    BY <1>2, <2>1, <2>2 DEF IInv, Contents
  <2>3. CASE ~SomeAt({"reset", "formatted"})
    <3>1. SomeAt({"saved", "flushed", "grown"} \cup InIterator)
      BY <1>2, <2>3 DEF SomeAt, Safe
    <3> QED BY <1>2, <2>1, <2>3, <3>1 DEF IInv, Contents
  <2> QED BY <2>2, <2>3
<1> QED BY <1>1, <1>2

(* The same of the state after a step.                                     *)
LEMMA AllOnFileNext == (IInv /\ (boot = "up" => SomeAt(Safe)) => FileLog = history)'
BY AllOnFile, PTL

(* The log file of a new database is the empty log.                        *)
LEMMA LogInit == Init => Abstract!Init
<1> SUFFICES ASSUME Init PROVE Abstract!Init
  OBVIOUS
<1>1. FileLog = <<>>
  BY FlatSmall, PageTypes DEF Init, FileLog, Flat
<1> QED BY <1>1, EmptySeq DEF Init, Abstract!Init

(* A step of the log manager is a step of the abstract log, or none.       *)
LEMMA LogStep == IInv /\ IInv' /\ [Next]_vars => [Abstract!Next]_(Abstract!vars)
<1> DEFINE Abs == [Abstract!Next]_(Abstract!vars)
           OnFile == Len(FileLog)
<1> SUFFICES ASSUME IInv, IInv', [Next]_vars PROVE Abs
  OBVIOUS
<1> USE DEF log, threads, ghosts
<1>1. ASSUME FileLog' = FileLog, UNCHANGED <<history, base, mLastSavedLSN>> PROVE Abs
  BY <1>1 DEF Abstract!vars
<1>2. ASSUME NEW r \in LogRec, history' = Append(history, r),
             UNCHANGED <<file, base, mLastSavedLSN>>
      PROVE  Abs
  <2>1. FileLog' = FileLog
    BY <1>2 DEF FileLog
  <2>2. Abstract!AppendRecord(r)
    BY <1>2, <2>1 DEF Abstract!AppendRecord
  <2> QED BY <2>2 DEF Abstract!Next, LogRec
<1>3. ASSUME FileLog' = history, UNCHANGED <<history, base, mLastSavedLSN>> PROVE Abs
  <2>1. Len(FileLog) \in Nat /\ Len(history) \in Nat /\ Len(FileLog) <= Len(history)
    <3>1. FileLog \in Seq(LogRec) /\ history \in Seq(LogRec)
      BY FlatType DEF FileLog, Flat, IInv, TypeInv, Types, Contents
    <3> QED BY <3>1, FileHasPrefix, LenProperties DEF FileIsPrefix, IsPrefix
  <2>2. Abstract!Write
    BY <1>3, <2>1 DEF Abstract!Write
  <2> QED BY <2>2 DEF Abstract!Next
<1>4. ASSUME FileLog' = FileLog, UNCHANGED <<history, base, mLatestLSN>>, mLastSavedLSN' = mLatestLSN
      PROVE  Abs
  <2>1. base + mLastSavedLSN <= base' + mLastSavedLSN' /\ base' + mLastSavedLSN' \in Nat
        /\ base + mLastSavedLSN \in Nat
    BY <1>4 DEF IInv, TypeInv, Types, Contents
  <2>2. base' + mLastSavedLSN' <= Len(FileLog) /\ Len(FileLog) \in Nat
    <3>1. FileLog \in Seq(LogRec)
      BY FlatType DEF FileLog, Flat, IInv, TypeInv, Types
    <3> QED BY <1>4, <3>1, LenProperties DEF IInv, SavedIsOnFile
  <2>3. Abstract!Promise
    BY <1>4, <2>1, <2>2 DEF Abstract!Promise
  <2> QED BY <2>3 DEF Abstract!Next
<1>5. ASSUME NEW t \in Threads, pc'[t] \in Safe PROVE FileLog' = history'
  <2>1. (boot = "up" => SomeAt(Safe))'
    BY <1>5 DEF SomeAt
  <2> QED BY <2>1, AllOnFileNext
<1>6. ASSUME NEW t \in Threads, pc[t] \in Safe PROVE FileLog = history
  BY <1>6, AllOnFile DEF SomeAt
<1>7. CASE log_manager
  <2>1. UNCHANGED <<history, base, mLatestLSN, mLastSavedLSN>> /\ boot # "up"
    BY <1>7 DEF log_manager, OpenExisting, CreateGrow, CreateFormat
  <2>2. FileLog = history
    BY <2>1, AllOnFile
  <2>3. CASE OpenExisting
    <3>1. FileLog' = FileLog
      BY <2>3 DEF OpenExisting, FileLog
    <3> QED BY <1>1, <2>1, <3>1
  <2>4. CASE CreateGrow
    <3>1. (boot = "up" => SomeAt(Safe))'
      BY <2>4 DEF CreateGrow
    <3>2. FileLog' = FileLog
      BY <2>1, <2>2, <3>1, AllOnFileNext
    <3> QED BY <1>1, <2>1, <3>2
  <2>5. CASE CreateFormat
    <3>1. file = <<ZeroPage>> /\ file' = <<EmptyPage>>
      BY <2>5 DEF CreateFormat, IInv, TypeInv, Positions
    <3>2. Flat(<<ZeroPage>>) = <<>> /\ Flat(<<EmptyPage>>) = <<>>
      BY PageTypes, FlatSmall DEF ZeroPage, EmptyPage
    <3>3. FileLog = Flat(file) /\ FileLog' = Flat(file')
      BY DEF FileLog, Flat
    <3>4. FileLog' = FileLog
      BY <3>1, <3>2, <3>3
    <3> QED BY <1>1, <2>1, <3>4
  <2> QED BY <1>7, <2>3, <2>4, <2>5 DEF log_manager
<1>8. ASSUME NEW t \in Threads, AppendFits(t) PROVE Abs
  <2>1. PICK r \in LogRec : history' = Append(history, r)
    BY <1>8, NewRec DEF AppendFits, Put, IInv, TypeInv
  <2> QED BY <1>2, <1>8, <2>1 DEF AppendFits
<1>9. ASSUME NEW t \in Threads, FullPut(t) PROVE Abs
  <2>1. rec[t] \in LogRec /\ history' = Append(history, rec[t])
    BY <1>9 DEF FullPut, Put, IInv, TypeInv, Positions, Filling
  <2> QED BY <1>2, <1>9, <2>1 DEF FullPut
<1>10. ASSUME NEW t \in Threads,
              FullWrite(t) \/ (\E lsn \in 0 .. mLatestLSN : flush(t, lsn)) \/ iterator(t)
       PROVE  Abs
  <2>1. UNCHANGED <<history, base, mLastSavedLSN>> /\ pc'[t] \in Safe
    BY <1>10 DEF FullWrite, flush, iterator, Goto, Safe, InIterator, IInv, TypeInv, Types
  <2> QED BY <1>3, <1>5, <2>1
<1>11. ASSUME NEW t \in Threads, FullReset(t) \/ FullFormat(t) PROVE Abs
  <2>1. UNCHANGED <<history, base, mLastSavedLSN>> /\ pc[t] \in Safe /\ pc'[t] \in Safe
    BY <1>11 DEF FullReset, FullFormat, Goto, Safe, IInv, TypeInv, Types
  <2> QED BY <1>1, <1>5, <1>6, <2>1
<1>12. ASSUME NEW t \in Threads, FullGrow(t) \/ FlushEnds(t) \/ IterSaved(t) PROVE Abs
  <2>1. UNCHANGED <<history, base, mLatestLSN>> /\ mLastSavedLSN' = mLatestLSN /\ pc[t] \in Safe
    BY <1>12 DEF FullGrow, FlushEnds, IterSaved, Safe, InIterator
  <2>2. FileLog' = FileLog
    <3>1. CASE FullGrow(t)
      <4>1. pc'[t] \in Safe
        BY <3>1 DEF FullGrow, Goto, Safe, IInv, TypeInv, Types
      <4> QED BY <1>5, <1>6, <2>1, <4>1
    <3>2. CASE ~FullGrow(t)
      BY <1>12, <3>2 DEF FlushEnds, IterSaved, FileLog
    <3> QED BY <3>1, <3>2
  <2> QED BY <1>4, <2>1, <2>2
<1>13. ASSUME NEW t \in Threads, AppendFull(t) \/ IterOpen(t) \/ IterNext(t) \/ IterEnds(t) PROVE Abs
  <2>1. UNCHANGED <<file, history, base, mLastSavedLSN>>
    BY <1>13 DEF AppendFull, IterOpen, IterNext, IterEnds
  <2>2. FileLog' = FileLog
    BY <2>1 DEF FileLog
  <2> QED BY <1>1, <2>1, <2>2
<1>14. CASE Crash
  <2>1. /\ UNCHANGED file /\ history' = FileLog /\ base' = Len(FileLog) /\ mLastSavedLSN' = 0
    BY <1>14 DEF Crash
  <2>2. FileLog' = FileLog
    BY <2>1 DEF FileLog
  <2>3. FileLog \in Seq(LogRec) /\ history \in Seq(LogRec) /\ Len(FileLog) \in Nat
    BY FlatType, LenProperties DEF FileLog, Flat, IInv, TypeInv, Types, Contents
  <2>4. FileLog = SubSeq(history, 1, Len(FileLog))
    BY <2>3, FileHasPrefix, PrefixIsStart DEF FileIsPrefix
  <2>5. base' + mLastSavedLSN' = Len(FileLog)
    BY <2>1, <2>3
  <2>6. Abstract!Crash
    BY <2>1, <2>2, <2>4, <2>5 DEF Abstract!Crash
  <2> QED BY <2>6 DEF Abstract!Next
<1>15. CASE UNCHANGED vars
  <2>1. UNCHANGED <<file, history, base, mLastSavedLSN>>
    BY <1>15 DEF vars
  <2>2. FileLog' = FileLog
    BY <2>1 DEF FileLog
  <2> QED BY <1>1, <2>1, <2>2
<1> HIDE DEF Abs
<1> QED BY <1>7, <1>8, <1>9, <1>10, <1>11, <1>12, <1>13, <1>14, <1>15 DEF Next, append, log_iterator

(* Every behaviour of the log manager is one of LogSpec: the log only      *)
(* grows, what flush promised is never lost, and a crash loses nothing     *)
(* but records that were not on the file.                                  *)
THEOREM LogIsImplemented == UndisturbedSpec => ImplementsLog
<1>1. [Next /\ Undisturbed]_vars => [Next]_vars
  OBVIOUS
<1> QED BY <1>1, IInvAlways, LogInit, LogStep, PTL DEF UndisturbedSpec, ImplementsLog, Abstract!Spec
=============================================================================
