---------------------------- MODULE TxRecoveryProofs ----------------------------
(***************************************************************************)
(* Atomicity, durability and isolation: what the log, the data files, the  *)
(* pool and the locks say of the changes that are not yet final.           *)
(***************************************************************************)
EXTENDS TxSystemProofs

-----------------------------------------------------------------------------
(* What the invariant says.                                                *)

Setints == {p \in 1 .. Len(log) : log[p].op = "setint"}

(* The changes a thread answers for: those of its transaction, until its   *)
(* locks are released; the start-up's are those that recovery undoes,      *)
(* until the checkpoint is on the file.                                    *)
Recovering == started = "no" \/ op[Sys] = "recover"
RecoverTop == IF pc[Sys] \in {"idle", "iterate", "iterating"} THEN Len(log) ELSE top[Sys]
Changes(s) ==
  IF s = Sys THEN IF Recovering THEN RecoverSet(RecoverTop) ELSE {}
  ELSE IF pc[s] \in {"idle", "unpin_all"} THEN {} ELSE RollbackSet(num[s], Len(log))
ChangesOn(s, b) == {p \in Changes(s) : log[p].blk = b}

(* The record at q tells recovery that the change at p stays as it is.     *)
Ends(q, p) == \/ log[q].op = "checkpoint"
              \/ log[q].op \in {"commit", "rollback"} /\ log[q].tx = log[p].tx

(* The record at q is the one that ends what s does.                       *)
FinishRec(s, q) == IF op[s] = "recover" THEN log[q].op = "checkpoint"
                   ELSE log[q].op = op[s] /\ log[q].tx = num[s]

(* Recovery finds no change but those that somebody answers for ...        *)
Accounted ==
  \A p \in Setints : \/ \E s \in Slots : p \in Changes(s)
                     \/ \E q \in p .. saved : Ends(q, p)

(* ... and finds those, until the thread's own last record.                *)
Unended ==
  \A s \in Slots : \A p \in Changes(s) : \A q \in p .. Len(log) :
    Ends(q, p) => /\ pc[s] \in {"force", "release"} /\ FinishRec(s, q)
                  /\ op[s] = "commit" => q = commitAt[s]
                  /\ \A r \in Changes(s) : r < q

(* That record comes after the changes, and is saved before the locks go.  *)
Finishing ==
  \A s \in Slots : pc[s] \in {"force", "release"} =>
    \E q \in 1 .. Len(log) : /\ FinishRec(s, q)
                             /\ op[s] = "commit" => q = commitAt[s]
                             /\ \A r \in Changes(s) : r < q
                             /\ pc[s] = "release" => q <= saved

CommitAts ==
  \A s \in Slots : commitAt[s] # 0 => pc[s] \in {"force", "release"} /\ op[s] = "commit"

(* A thread that undoes knows all it has to undo, and all of it is saved.  *)
Going(s) == IF op[s] = "recover" THEN RecoverSet(top[s]) ELSE RollbackSet(num[s], top[s])
UndoKnown ==
  /\ \A s \in Slots : pc[s] \in {"undo", "restore"} => Going(s) = Changes(s)
  /\ \A s \in Slots : op[s] \in {"rollback", "recover"} /\ pc[s] \notin {"iterate", "iterating"} =>
       \A p \in Changes(s) : p <= saved

(* What the log manager says is saved is saved, and what an iterator() has *)
(* written is all there is when it says so: this is what an append beside  *)
(* it would spoil.                                                         *)
Honest == /\ promised <= saved
          /\ \A s \in Slots : pc[s] = "iterating" => saved = Len(log)

(* A transaction holds what it changed exclusively, and no thread keeps a  *)
(* lock when it is done.                                                   *)
LocksHeld ==
  /\ \A s, u \in Slots : \A b \in Blocks : s # u /\ locks[s][b] = "X" => locks[u][b] = "none"
  /\ \A s \in Slots : pc[s] \in {"idle", "unpin_all"} => locks[s] = NoLocks
  /\ \A s \in Clients : \A p \in Changes(s) : locks[s][log[p].blk] = "X"

(* The old value of a transaction's first change is the committed one.     *)
First(s, p) == \A q \in ChangesOn(s, log[p].blk) : p <= q
OldIsCommitted ==
  \A s \in Slots : \A p \in Changes(s) : First(s, p) => log[p].val = base[log[p].blk]

(* What was written was logged, and is there until it is undone.           *)
WritesLogged ==
  /\ \A s \in Slots : \A b \in Blocks : writes[s][b] # NoVal => ChangesOn(s, b) # {}
  /\ \A b \in Blocks : writes[Sys][b] = NoVal
WritesThere ==
  \A s \in Clients : pc[s] \in {"active", "pin"} \/ op[s] = "commit" =>
    \A p \in Changes(s) : Current(log[p].blk) = writes[s][log[p].blk]

(* A buffer that differs from the disk is one that a transaction changed,  *)
(* and the log record of a change is saved before the page.                *)
DirtyChanged ==
  \A i \in Buffs : Dirty(i) =>
    \E s \in Slots : /\ num[s] = buf[i].tx
                     /\ \E p \in ChangesOn(s, buf[i].blk) : p <= saved \/ p <= buf[i].lsn
CleanSame == \A i \in Buffs : ~Dirty(i) /\ buf[i].blk # None => buf[i].val = disk[buf[i].blk]
DiskCommitted ==
  \A b \in Blocks : disk[b] # base[b] =>
    \E s \in Slots : \E p \in ChangesOn(s, b) : p <= saved

(* What has been undone so far shows the oldest of the values undone, and  *)
(* in the end the committed one.                                           *)
FirstUndone(s, p) == \A q \in ChangesOn(s, log[p].blk) : q > pos[s] => p <= q
Undone ==
  \A s \in Slots : pc[s] \in {"undo", "restore"} =>
    \A p \in Changes(s) : p > pos[s] /\ FirstUndone(s, p) => Current(log[p].blk) = log[p].val
AllUndone ==
  \A s \in Slots : op[s] \in {"rollback", "recover"}
                   /\ pc[s] \in {"flush", "record", "force", "release"} =>
    \A p \in Changes(s) : Current(log[p].blk) = base[log[p].blk]

LogInv == Honest /\ Accounted /\ Unended /\ Finishing /\ CommitAts /\ UndoKnown
ValuesInv == /\ OldIsCommitted /\ WritesLogged /\ WritesThere
             /\ DirtyChanged /\ CleanSame /\ DiskCommitted
             /\ Undone /\ AllUndone

TxInv == PoolInv /\ LogInv /\ LocksHeld /\ ValuesInv

-----------------------------------------------------------------------------
(* What follows from the invariant.                                        *)

(* The changes of a thread are records of writes.                          *)
LEMMA ChangesAre ==
  ASSUME PoolInv, NEW s \in Slots, NEW p \in Changes(s)
  PROVE  /\ p \in 1 .. Len(log) /\ p \in Nat /\ log[p].op = "setint"
         /\ log[p] \in Records /\ log[p].blk \in Blocks /\ log[p].val \in Values
         /\ s # Sys => log[p].tx = num[s]
<1>0. log \in Seq(Records) /\ top \in [Slots -> Nat] /\ Len(log) \in Nat
  BY DEF PoolInv, TypeOK
<1>1. Sys \in Slots /\ top[Sys] <= Len(log) /\ top[Sys] \in Nat
  BY <1>0 DEF Slots, PoolInv, Threads, Iterators
<1>2. RecoverTop \in 0 .. Len(log)
  BY <1>0, <1>1 DEF RecoverTop
<1>3. p \in 1 .. Len(log) /\ log[p].op = "setint"
  <2>1. CASE s = Sys
    <3>1. p \in RecoverSet(RecoverTop)
      BY <2>1 DEF Changes
    <3>2. p \in 1 .. RecoverTop /\ log[p].op = "setint"
      BY <3>1 DEF RecoverSet
    <3> QED BY <1>0, <1>2, <3>2
  <2>2. CASE s # Sys
    BY <2>2 DEF Changes, RollbackSet
  <2> QED BY <2>1, <2>2
<1>4. s # Sys => log[p].tx = num[s]
  BY DEF Changes, RollbackSet
<1>5. log[p] \in Records
  BY <1>0, <1>3
<1>6. log[p].val \in Values
  BY <1>5 DEF Records
<1>7. log[p].blk \in Blocks
  BY <1>3 DEF PoolInv, Threads, Iterators
<1> QED BY <1>3, <1>4, <1>5, <1>6, <1>7

(* While a client has a transaction there is no recovery.                  *)
LEMMA NoRecovery ==
  ASSUME PoolInv, NEW s \in Clients, pc[s] # "idle"
  PROVE  /\ started = "done" /\ pc[Sys] = "idle" /\ op[Sys] = "none"
         /\ ~Recovering /\ Changes(Sys) = {}
<1>0. Sys \in Slots /\ s \in Slots
  BY DEF Slots
<1>1. started = "done" /\ pc[Sys] = "idle"
  BY DEF PoolInv, Threads, StartUps, TypeOK
<1>2. op[Sys] = "none"
  BY <1>0, <1>1 DEF PoolInv, Threads, Calls
<1> QED BY <1>1, <1>2 DEF Recovering, Changes

(* A thread with changes is not idle, but for the start-up's.              *)
LEMMA ChangesBusy ==
  ASSUME NEW s \in Clients, Changes(s) # {}
  PROVE  pc[s] \notin {"idle", "unpin_all"}
<1>1. s # Sys
  BY TxAssumption
<1> QED BY <1>1 DEF Changes

(* No two threads have changes on the same block.                          *)
LEMMA OneOwner ==
  ASSUME PoolInv, LocksHeld, NEW s \in Slots, NEW u \in Slots, NEW b \in Blocks,
         ChangesOn(s, b) # {}, ChangesOn(u, b) # {}
  PROVE  s = u
<1> SUFFICES ASSUME s # u PROVE FALSE
  OBVIOUS
<1>1. PICK p \in Changes(s) : log[p].blk = b
  BY DEF ChangesOn
<1>2. PICK q \in Changes(u) : log[q].blk = b
  BY DEF ChangesOn
<1>3. CASE s \in Clients /\ u \in Clients
  <2>1. locks[s][b] = "X" /\ locks[u][b] = "X"
    BY <1>1, <1>2, <1>3 DEF LocksHeld
  <2> QED BY <2>1 DEF LocksHeld
<1>4. CASE s = Sys
  BY <1>1, <1>2, <1>4, ChangesBusy, NoRecovery DEF Slots
<1>5. CASE u = Sys
  BY <1>1, <1>2, <1>5, ChangesBusy, NoRecovery DEF Slots
<1> QED BY <1>3, <1>4, <1>5 DEF Slots

(* A block is in the pool with its current value, or else on the disk.     *)
LEMMA CurrentIs ==
  ASSUME PoolInv, NEW b \in Blocks
  PROVE  /\ Current(b) \in Values
         /\ \A i \in Buffs : buf[i].blk = b => Current(b) = buf[i].val
         /\ (\A i \in Buffs : buf[i].blk # b) => Current(b) = disk[b]
<1>0. buf \in [Buffs -> BufRec] /\ disk \in [Blocks -> Values] /\ b # None
  BY TxAssumption DEF PoolInv, TypeOK, BufRec
<1>1. CASE Existing(b) = {}
  <2>1. Current(b) = disk[b]
    BY <1>1 DEF Current
  <2>2. \A i \in Buffs : buf[i].blk # b
    BY <1>1 DEF Existing
  <2> QED BY <1>0, <2>1, <2>2
<1>2. CASE Existing(b) # {}
  <2>1. Existing(b) \subseteq Nat
    BY DEF Existing, Buffs
  <2>2. PICK j : j = Min(Existing(b)) /\ j \in Existing(b)
    BY <1>2, <2>1, MinIn
  <2>3. j \in Buffs /\ buf[j].blk = b
    BY <2>2 DEF Existing
  <2>4. Current(b) = buf[j].val
    BY <1>2, <2>2 DEF Current
  <2>5. \A i \in Buffs : buf[i].blk = b => i = j
    BY <1>0, <2>3 DEF PoolInv, Pins
  <2>6. buf[j].val \in Values
    BY <1>0, <2>3 DEF BufRec
  <2> QED BY <2>3, <2>4, <2>5, <2>6
<1> QED BY <1>1, <1>2

(* A block that no buffer holds changed is on the disk as it is.           *)
LEMMA CleanCurrent ==
  ASSUME PoolInv, CleanSame, NEW b \in Blocks,
         \A i \in Buffs : buf[i].blk = b => ~Dirty(i)
  PROVE  Current(b) = disk[b]
<1>0. b # None
  BY TxAssumption
<1>1. CASE \E i \in Buffs : buf[i].blk = b
  BY <1>0, <1>1, CurrentIs DEF CleanSame
<1>2. CASE \A i \in Buffs : buf[i].blk # b
  BY <1>2, CurrentIs
<1> QED BY <1>1, <1>2

(* A block that nobody has changed has its committed value.                *)
LEMMA Untouched ==
  ASSUME PoolInv, ValuesInv, NEW b \in Blocks, \A s \in Slots : ChangesOn(s, b) = {}
  PROVE  disk[b] = base[b] /\ Current(b) = base[b]
<1>1. disk[b] = base[b]
  BY DEF ValuesInv, DiskCommitted
<1>2. Current(b) = disk[b]
  BY CleanCurrent DEF ValuesInv, DirtyChanged
<1> QED BY <1>1, <1>2

(* A thread that has flushed has its changes on the disk.                  *)
LEMMA Flushed ==
  ASSUME PoolInv, LocksHeld, ValuesInv, NEW s \in Slots, NEW b \in Blocks,
         ChangesOn(s, b) # {}, Mine(s) = {}
  PROVE  Current(b) = disk[b]
<1>1. ASSUME NEW i \in Buffs, buf[i].blk = b, Dirty(i) PROVE FALSE
  <2>1. PICK u \in Slots : num[u] = buf[i].tx /\ ChangesOn(u, b) # {}
    BY <1>1 DEF ValuesInv, DirtyChanged
  <2>2. u = s
    BY <2>1, OneOwner
  <2> QED BY <2>1, <2>2 DEF Mine
<1> QED BY <1>1, CleanCurrent DEF ValuesInv

(* The committed value of a block.                                         *)
LEMMA DBIs ==
  ASSUME PoolInv, LocksHeld, WritesLogged, CommitAts, NEW b \in Blocks
  PROVE  /\ \A s \in Slots : s \in Committed /\ writes[s][b] # NoVal => DB[b] = writes[s][b]
         /\ (\A s \in Slots : s \in Committed => writes[s][b] = NoVal) => DB[b] = base[b]
<1>1. ASSUME NEW s \in Committed, writes[s][b] # NoVal
      PROVE  DB[b] = writes[s][b]
  <2>1. PICK u : u = CHOOSE v \in Committed : writes[v][b] # NoVal
    OBVIOUS
  <2>2. u \in Committed /\ writes[u][b] # NoVal
    BY <1>1, <2>1
  <2>3. s \in Slots /\ u \in Slots
    BY <1>1, <2>2 DEF Committed
  <2>4. u = s
    BY <1>1, <2>2, <2>3, OneOwner DEF WritesLogged
  <2> QED BY <1>1, <2>1, <2>4 DEF DB, Overlay
<1>2. ASSUME \A s \in Slots : s \in Committed => writes[s][b] = NoVal
      PROVE  DB[b] = base[b]
  BY <1>2 DEF DB, Overlay, Committed
<1> QED BY <1>1, <1>2

(* A finished transaction's last record ends all its changes.              *)
LEMMA FinishEndsAll ==
  ASSUME PoolInv, NEW s \in Slots, NEW p \in Changes(s), NEW q, FinishRec(s, q),
         pc[s] \in {"force", "release"}
  PROVE  Ends(q, p)
<1>0. Sys \in Slots
  BY DEF Slots
<1>1. op[s] \in {"commit", "rollback", "recover"}
  BY DEF PoolInv, TypeOK, Threads, Calls
<1>2. CASE op[s] = "recover"
  BY <1>2 DEF FinishRec, Ends
<1>3. CASE op[s] # "recover"
  <2>1. s # Sys
    BY <1>0, <1>3 DEF Changes, Recovering, PoolInv, Threads, StartUps
  <2>2. log[p].tx = num[s]
    BY <2>1, ChangesAre
  <2> QED BY <1>1, <1>3, <2>2 DEF FinishRec, Ends
<1> QED BY <1>2, <1>3

(* What recovery would undo of a block is what its owner has changed, as   *)
(* far as it is saved, or nothing when the owner's last record is saved.   *)
LEMMA RecoverIs ==
  ASSUME PoolInv, LogInv, LocksHeld, NEW s \in Slots, NEW b \in Blocks, ChangesOn(s, b) # {}
  PROVE  LET old == {p \in RecoverSet(saved) : log[p].blk = b} IN
         \/ /\ old = {}
            /\ pc[s] \in {"force", "release"}
            /\ op[s] = "commit" => commitAt[s] \in 1 .. saved
         \/ /\ old = {p \in ChangesOn(s, b) : p <= saved}
            /\ s \notin Committed
<1> DEFINE old == {p \in RecoverSet(saved) : log[p].blk = b}
<1>0. saved \in Nat /\ Len(log) \in Nat /\ saved <= Len(log)
  BY DEF PoolInv, TypeOK
<1>1. ASSUME NEW p \in old PROVE p \in ChangesOn(s, b) /\ p <= saved
  <2>1. p \in 1 .. saved /\ log[p].op = "setint" /\ ~ (\E q \in p .. saved : Ends(q, p))
    BY DEF RecoverSet, Ends
  <2>2. p \in Setints
    BY <1>0, <2>1 DEF Setints
  <2>3. PICK u \in Slots : p \in Changes(u)
    BY <2>1, <2>2 DEF LogInv, Accounted
  <2>4. p \in ChangesOn(u, b)
    BY <2>3 DEF ChangesOn
  <2> QED BY <2>1, <2>4, OneOwner
<1>2. CASE \E p \in Changes(s) : \E q \in p .. saved : Ends(q, p)
  <2>1. PICK p \in Changes(s) : \E q \in p .. saved : Ends(q, p)
    BY <1>2
  <2>2. PICK q \in p .. saved : Ends(q, p)
    BY <2>1
  <2>3. p \in 1 .. Len(log)
    BY ChangesAre
  <2>4. q \in p .. Len(log) /\ q \in 1 .. saved
    BY <1>0, <2>2, <2>3
  <2>5. /\ pc[s] \in {"force", "release"} /\ FinishRec(s, q)
        /\ op[s] = "commit" => q = commitAt[s]
        /\ \A r \in Changes(s) : r < q
    BY <2>2, <2>4 DEF LogInv, Unended
  <2>6. ASSUME NEW r \in old PROVE FALSE
    <3>1. r \in Changes(s) /\ r \in Nat
      BY <1>1, ChangesAre DEF ChangesOn
    <3>2. Ends(q, r)
      BY <2>5, <3>1, FinishEndsAll
    <3>3. q \in r .. saved
      BY <2>4, <2>5, <3>1, <1>0
    <3> QED BY <3>2, <3>3 DEF RecoverSet, Ends
  <2>7. old = {}
    BY <2>6
  <2> QED BY <2>4, <2>5, <2>7
<1>3. CASE ~ (\E p \in Changes(s) : \E q \in p .. saved : Ends(q, p))
  <2>1. ASSUME NEW p \in ChangesOn(s, b), p <= saved PROVE p \in old
    <3>1. p \in Changes(s) /\ log[p].blk = b
      BY DEF ChangesOn
    <3>2. p \in 1 .. saved /\ log[p].op = "setint"
      BY <1>0, <2>1, <3>1, ChangesAre
    <3>3. ~ (\E q \in p .. saved : Ends(q, p))
      BY <1>3, <3>1
    <3> QED BY <3>1, <3>2, <3>3 DEF RecoverSet, Ends
  <2>2. old = {p \in ChangesOn(s, b) : p <= saved}
    BY <1>1, <2>1
  <2>3. s \notin Committed
    <3> SUFFICES ASSUME s \in Committed PROVE FALSE
      OBVIOUS
    <3>1. commitAt[s] \in 1 .. saved
      BY DEF Committed
    <3>2. commitAt[s] # 0
      BY <3>1
    <3>3. pc[s] \in {"force", "release"} /\ op[s] = "commit"
      BY <3>2 DEF LogInv, CommitAts
    <3>4. PICK q \in 1 .. Len(log) : FinishRec(s, q) /\ q = commitAt[s] /\ \A r \in Changes(s) : r < q
      BY <3>3 DEF LogInv, Finishing
    <3>5. PICK p : p \in Changes(s)
      BY DEF ChangesOn
    <3>6. q \in p .. saved
      <4>1. p \in Nat
        BY <3>5, ChangesAre
      <4> QED BY <3>1, <3>4, <3>5, <4>1, <1>0
    <3>7. Ends(q, p)
      BY <3>3, <3>4, <3>5, FinishEndsAll
    <3> QED BY <1>3, <3>5, <3>6, <3>7
  <2> QED BY <2>2, <2>3
<1> QED BY <1>2, <1>3

(* Recovery restores the committed database.                               *)
LEMMA TxInvRecoverable ==
  ASSUME TxInv
  PROVE  Recoverable
<1> USE DEF TxInv
<1>0. saved \in Nat /\ base \in [Blocks -> Values]
  BY DEF PoolInv, TypeOK
<1>t. WritesLogged /\ CommitAts
  BY DEF ValuesInv, LogInv
<1> SUFFICES ASSUME NEW b \in Blocks PROVE Recovered[b] = DB[b]
  BY DEF Recoverable, Recovered, DB, Overlay
<1>o. PICK old : old = {p \in RecoverSet(saved) : log[p].blk = b}
  OBVIOUS
<1>1. Recovered[b] = IF old = {} THEN disk[b] ELSE log[Min(old)].val
  BY <1>o DEF Recovered
<1>2. CASE \A s \in Slots : ChangesOn(s, b) = {}
  <2>1. old = {}
    <3> SUFFICES ASSUME NEW p \in old PROVE FALSE
      OBVIOUS
    <3>1. p \in 1 .. saved /\ log[p].op = "setint" /\ ~ (\E q \in p .. saved : Ends(q, p))
      BY <1>o DEF RecoverSet, Ends
    <3>2. p \in Setints
      BY <1>0, <3>1 DEF Setints, PoolInv, TypeOK
    <3>3. PICK u \in Slots : p \in Changes(u)
      BY <3>1, <3>2 DEF LogInv, Accounted
    <3> QED BY <1>2, <1>o, <3>3 DEF ChangesOn
  <2>2. disk[b] = base[b]
    BY <1>2, Untouched
  <2>3. \A s \in Slots : writes[s][b] = NoVal
    BY <1>2, <1>t DEF WritesLogged
  <2>4. DB[b] = base[b]
    BY <2>3, <1>t, DBIs
  <2> QED BY <1>1, <2>1, <2>2, <2>4
<1>3. CASE \E s \in Slots : ChangesOn(s, b) # {}
  <2>1. PICK s \in Slots : ChangesOn(s, b) # {}
    BY <1>3
  <2>2. \A u \in Slots : u # s => ChangesOn(u, b) = {}
    BY <2>1, OneOwner
  <2>3. \A u \in Slots : u # s => writes[u][b] = NoVal
    BY <2>2, <1>t DEF WritesLogged
  <2>4. PICK p \in Changes(s) : log[p].blk = b
    BY <2>1 DEF ChangesOn
  <2>5. CASE old = {} /\ pc[s] \in {"force", "release"}
              /\ (op[s] = "commit" => commitAt[s] \in 1 .. saved)
    <3>1. Mine(s) = {}
      BY <2>5 DEF PoolInv, Unforgotten
    <3>2. Current(b) = disk[b]
      BY <2>1, <3>1, Flushed
    <3>3. op[s] \in {"commit", "rollback", "recover"}
      BY <2>5 DEF PoolInv, TypeOK, Threads, Calls
    <3>4. CASE op[s] = "commit"
      <4>1. s \in Committed
        BY <2>5, <3>4 DEF Committed
      <4>2. s # Sys
        <5> SUFFICES ASSUME s = Sys PROVE FALSE
          OBVIOUS
        <5>1. ~Recovering
          BY <2>5, <3>4 DEF Recovering, PoolInv, Threads, StartUps
        <5> QED BY <2>4, <5>1 DEF Changes
      <4>c. s \in Clients
        BY <4>2 DEF Slots
      <4>3. Current(b) = writes[s][b]
        BY <2>4, <3>4, <4>c DEF ValuesInv, WritesThere
      <4>4. writes[s][b] # NoVal
        BY <4>3, CurrentIs, TxAssumption
      <4>5. DB[b] = writes[s][b]
        BY <4>1, <4>4, <1>t, DBIs
      <4> QED BY <1>1, <2>5, <3>2, <4>3, <4>5
    <3>5. CASE op[s] # "commit"
      <4>1. Current(b) = base[b]
        BY <2>4, <2>5, <3>3, <3>5 DEF ValuesInv, AllUndone
      <4>2. s \notin Committed
        BY <3>5, <1>t DEF Committed, CommitAts
      <4>3. DB[b] = base[b]
        BY <2>3, <4>2, <1>t, DBIs
      <4> QED BY <1>1, <2>5, <3>2, <4>1, <4>3
    <3> QED BY <3>4, <3>5
  <2>6. CASE old = {p1 \in ChangesOn(s, b) : p1 <= saved} /\ s \notin Committed
    <3>1. DB[b] = base[b]
      BY <2>3, <2>6, <1>t, DBIs
    <3>2. CASE old = {}
      <4>1. disk[b] = base[b]
        BY <2>2, <2>6, <3>2 DEF ValuesInv, DiskCommitted
      <4> QED BY <1>1, <3>1, <3>2, <4>1
    <3>3. CASE old # {}
      <4>1. \A q \in ChangesOn(s, b) : q \in Nat
        BY ChangesAre DEF ChangesOn
      <4>2. PICK m : m = Min(old) /\ m \in old /\ \A q \in old : m <= q
        BY <2>6, <3>3, <4>1, MinIn
      <4>3. m \in ChangesOn(s, b) /\ m <= saved /\ m \in Nat
        BY <2>6, <4>1, <4>2
      <4>4. ASSUME NEW q \in ChangesOn(s, b) PROVE m <= q
        BY <1>0, <2>6, <4>1, <4>2, <4>3
      <4>5. m \in Changes(s) /\ log[m].blk = b
        BY <4>3 DEF ChangesOn
      <4>6. log[m].val = base[b]
        BY <4>4, <4>5 DEF ValuesInv, OldIsCommitted, First
      <4> QED BY <1>1, <3>1, <3>3, <4>2, <4>6
    <3> QED BY <3>2, <3>3
  <2> QED BY <1>o, <2>1, <2>5, <2>6, RecoverIs
<1> QED BY <1>2, <1>3

(* A transaction reads what it wrote, or else what is committed.           *)
LEMMA TxInvReads ==
  ASSUME TxInv
  PROVE  ReadsCommittedOrOwn
<1> USE DEF TxInv
<1> SUFFICES ASSUME NEW s \in Clients, NEW b \in Blocks,
                    pc[s] \in {"active", "pin"}, locks[s][b] # "none"
             PROVE  Current(b) = IF writes[s][b] # NoVal THEN writes[s][b] ELSE DB[b]
  BY DEF ReadsCommittedOrOwn
<1>0. s \in Slots /\ locks \in [Slots -> [Blocks -> {"none", "S", "X"}]] /\ NoVal \notin Values
  BY TxAssumption DEF Slots, PoolInv, TypeOK
<1>t. WritesLogged /\ CommitAts
  BY DEF ValuesInv, LogInv
<1>1. ASSUME NEW u \in Slots, u # s PROVE ChangesOn(u, b) = {}
  <2>1. CASE u = Sys
    BY <2>1, NoRecovery DEF ChangesOn
  <2>2. CASE u # Sys
    <3>1. locks[u][b] # "X"
      BY <1>0, <1>1 DEF LocksHeld
    <3> QED BY <1>1, <2>2, <3>1 DEF LocksHeld, ChangesOn, Slots
  <2> QED BY <2>1, <2>2
<1>2. CASE ChangesOn(s, b) # {}
  <2>1. Current(b) = writes[s][b]
    BY <1>2 DEF ChangesOn, ValuesInv, WritesThere
  <2> QED BY <1>0, <2>1, CurrentIs
<1>3. CASE ChangesOn(s, b) = {}
  <2>1. \A u \in Slots : ChangesOn(u, b) = {}
    BY <1>1, <1>3
  <2>2. Current(b) = base[b]
    BY <2>1, Untouched
  <2>3. \A u \in Slots : writes[u][b] = NoVal
    BY <2>1, <1>t DEF WritesLogged
  <2>4. DB[b] = base[b]
    BY <2>3, <1>t, DBIs
  <2> QED BY <1>0, <2>2, <2>3, <2>4
<1> QED BY <1>2, <1>3

-----------------------------------------------------------------------------
(* What the steps do to the changes.                                       *)

(* What is undone of the log up to n does not change when the log grows,   *)
LEMMA SetsKept ==
  ASSUME LogKept, TypeOK, NEW t, NEW n \in 0 .. Len(log)
  PROVE  RollbackSet(t, n)' = RollbackSet(t, n) /\ RecoverSet(n)' = RecoverSet(n)
<1>1. \A p \in 1 .. n : log'[p] = log[p]
  BY DEF LogKept, TypeOK
<1>2. RollbackSet(t, n)' = RollbackSet(t, n)
  BY <1>1 DEF RollbackSet
<1>3. RecoverSet(n)' = RecoverSet(n)
  BY <1>1 DEF RecoverSet
<1> QED BY <1>2, <1>3

(* and a new record adds to it only if it is a change of the transaction.  *)
LEMMA RollbackAppend ==
  ASSUME TypeOK, NEW r, AppendLog(r), NEW t, ~ (r.op = "start" /\ r.tx = t),
         NEW n, n = Len(log) + 1
  PROVE  RollbackSet(t, n)' = RollbackSet(t, Len(log))
                              \cup (IF r.op = "setint" /\ r.tx = t THEN {n} ELSE {})
<1>0. Len(log) \in Nat
  BY DEF TypeOK
<1>1. LogKept /\ log'[n] = r
  BY AppendKeeps
<1>2. \A p \in 1 .. Len(log) : log'[p] = log[p]
  BY <1>1 DEF LogKept
<1>3. 1 .. n = 1 .. Len(log) \cup {n}
  BY <1>0
<1>4. ASSUME NEW p \in 1 .. Len(log)
      PROVE  (\E q \in p .. n : log'[q].op = "start" /\ log'[q].tx = t)
             <=> (\E q \in p .. Len(log) : log[q].op = "start" /\ log[q].tx = t)
  <2>1. p .. n = p .. Len(log) \cup {n}
    BY <1>0
  <2>2. \A q \in p .. Len(log) : q \in 1 .. Len(log)
    BY <1>0
  <2> QED BY <1>1, <1>2, <2>1, <2>2
<1>5. \A q \in n .. n : q = n
  BY <1>0
<1>6. n \notin 1 .. Len(log) /\ n \in n .. n
  BY <1>0
<1>7. ASSUME NEW p
      PROVE  p \in RollbackSet(t, n)' <=> \/ p \in RollbackSet(t, Len(log))
                                          \/ p = n /\ r.op = "setint" /\ r.tx = t
  <2>1. CASE p \in 1 .. Len(log)
    BY <1>2, <1>3, <1>4, <1>6, <2>1 DEF RollbackSet
  <2>2. CASE p = n
    BY <1>1, <1>3, <1>5, <1>6, <2>2 DEF RollbackSet
  <2>3. CASE p \notin 1 .. n
    BY <1>3, <2>3 DEF RollbackSet
  <2> QED BY <1>3, <2>1, <2>2, <2>3
<1> QED BY <1>7

(* Recovery does not mind the start of a transaction.                      *)
LEMMA RecoverAppend ==
  ASSUME TypeOK, NEW r, AppendLog(r), r.op = "start", NEW n, n = Len(log) + 1
  PROVE  RecoverSet(n)' = RecoverSet(Len(log))
<1>0. Len(log) \in Nat
  BY DEF TypeOK
<1>1. LogKept /\ log'[n] = r
  BY AppendKeeps
<1>2. \A p \in 1 .. Len(log) : log'[p] = log[p]
  BY <1>1 DEF LogKept
<1>3. 1 .. n = 1 .. Len(log) \cup {n}
  BY <1>0
<1>4. ASSUME NEW p \in 1 .. Len(log)
      PROVE  (\E q \in p .. n : Ends(q, p)') <=> (\E q \in p .. Len(log) : Ends(q, p))
  <2>1. p .. n = p .. Len(log) \cup {n}
    BY <1>0
  <2>2. \A q \in p .. Len(log) : q \in 1 .. Len(log)
    BY <1>0
  <2>3. \A q \in p .. Len(log) : Ends(q, p)' <=> Ends(q, p)
    BY <1>2, <2>2 DEF Ends
  <2>4. ~ Ends(n, p)'
    BY <1>1 DEF Ends
  <2> QED BY <2>1, <2>3, <2>4
<1>5. \A p : p \in RecoverSet(n)' <=> p \in 1 .. n /\ log'[p].op = "setint" /\ ~ (\E q \in p .. n : Ends(q, p)')
  BY DEF RecoverSet, Ends
<1>6. \A p : p \in RecoverSet(Len(log))
             <=> p \in 1 .. Len(log) /\ log[p].op = "setint" /\ ~ (\E q \in p .. Len(log) : Ends(q, p))
  BY DEF RecoverSet, Ends
<1>7. log'[n].op # "setint"
  BY <1>1
<1>8. \A p : p \in RecoverSet(n)' <=> p \in RecoverSet(Len(log))
  BY <1>2, <1>3, <1>4, <1>5, <1>6, <1>7
<1> QED BY <1>8

(* Before it begins, and after its release.                                *)
Outside(l) == l \in {"idle", "unpin_all"}

(* A client's changes stay while its transaction goes on and does not      *)
(* write.                                                                  *)
LEMMA ClientChanges ==
  ASSUME PoolInv, NEW u \in Clients, Outside(pc'[u]) <=> Outside(pc[u]),
         ~Outside(pc[u]) => num'[u] = num[u],
         \/ log' = log
         \/ \E r : /\ AppendLog(r)
                   /\ ~Outside(pc[u]) => ~(r.op \in {"start", "setint"} /\ r.tx = num[u])
  PROVE  Changes(u)' = Changes(u)
<1>0. u # Sys /\ Len(log) \in Nat /\ TypeOK
  BY TxAssumption DEF PoolInv, TypeOK
<1>1. CASE Outside(pc[u])
  BY <1>0, <1>1 DEF Changes, Outside
<1>2. CASE ~Outside(pc[u])
  <2>1. Changes(u)' = RollbackSet(num[u], Len(log))'
    BY <1>0, <1>2 DEF Changes, Outside
  <2>2. Changes(u) = RollbackSet(num[u], Len(log))
    BY <1>0, <1>2 DEF Changes, Outside
  <2>3. num'[u] = num[u]
    BY <1>2
  <2>4. CASE log' = log
    BY <2>1, <2>2, <2>3, <2>4 DEF RollbackSet
  <2>5. ASSUME NEW r, AppendLog(r), ~(r.op \in {"start", "setint"} /\ r.tx = num[u])
        PROVE  Changes(u)' = Changes(u)
    <3>1. PICK t, n : t = num[u] /\ n = Len(log) + 1
      OBVIOUS
    <3>2. Len(log') = n /\ num'[u] = t
      BY <1>0, <2>3, <2>5, <3>1, AppendKeeps
    <3>3. Changes(u)' = RollbackSet(t, n)'
      BY <2>1, <3>2 DEF RollbackSet
    <3>4. RollbackSet(t, n)' = RollbackSet(t, Len(log)) \cup (IF r.op = "setint" /\ r.tx = t THEN {n} ELSE {})
      BY <1>0, <2>5, <3>1, RollbackAppend
    <3> QED BY <2>2, <2>5, <3>1, <3>3, <3>4
  <2> QED BY <1>2, <2>4, <2>5
<1> QED BY <1>1, <1>2

(* The changes that a start-up undoes stay.                                *)
LEMMA SysChanges ==
  ASSUME PoolInv, LogKept,
         \/ ~Recovering /\ ~Recovering'
         \/ Recovering /\ Recovering' /\ RecoverTop' = RecoverTop
  PROVE  Changes(Sys)' = Changes(Sys)
<1>1. CASE ~Recovering /\ ~Recovering'
  BY <1>1 DEF Changes
<1>2. CASE Recovering /\ Recovering' /\ RecoverTop' = RecoverTop
  <2>1. PICK n : n = RecoverTop
    OBVIOUS
  <2>2. n \in 0 .. Len(log)
    BY <2>1 DEF RecoverTop, PoolInv, TypeOK, Threads, Iterators, Slots
  <2>3. RecoverSet(n)' = RecoverSet(n)
    BY <2>2, SetsKept DEF PoolInv
  <2>4. Changes(Sys) = RecoverSet(n)
    BY <1>2, <2>1 DEF Changes
  <2>5. Changes(Sys)' = RecoverSet(n)'
    BY <1>2, <2>1 DEF Changes, RecoverSet
  <2> QED BY <2>3, <2>4, <2>5
<1> QED BY <1>1, <1>2

-----------------------------------------------------------------------------
(* What the steps do to the values of the blocks.                          *)

(* CurrentIs as a formula.                                                 *)
Currents ==
  \A b \in Blocks : /\ Current(b) \in Values
                    /\ \A i \in Buffs : buf[i].blk = b => Current(b) = buf[i].val
                    /\ (\A i \in Buffs : buf[i].blk # b) => Current(b) = disk[b]

(* It holds in this state, ...                                             *)
LEMMA CurrentsAre == PoolInv => Currents
BY CurrentIs DEF Currents

(* in the next one, ...                                                    *)
LEMMA CurrentsNext == PoolInv' => Currents'
BY CurrentsAre, PTL

(* and block by block.                                                     *)
LEMMA CurrentNext ==
  ASSUME PoolInv', NEW b \in Blocks
  PROVE  /\ Current(b)' \in Values
         /\ \A i \in Buffs : buf'[i].blk = b => Current(b)' = buf'[i].val
         /\ (\A i \in Buffs : buf'[i].blk # b) => Current(b)' = disk'[b]
BY CurrentsNext DEF Currents

(* No block changes its value, and no buffer becomes dirty: ...            *)
DirtyKept ==
  \A i \in Buffs : Dirty(i)' => /\ Dirty(i) /\ buf'[i].blk = buf[i].blk
                                /\ buf'[i].tx = buf[i].tx /\ buf'[i].lsn = buf[i].lsn
PoolFrame ==
  /\ \A b \in Blocks : Current(b)' = Current(b)
  /\ CleanSame' /\ DirtyKept
  /\ \A b \in Blocks : \/ disk'[b] = disk[b]
                       \/ \E i \in Buffs : Dirty(i) /\ buf[i].blk = b /\ buf[i].lsn <= saved

(* ... if the pool and the files are left alone,                           *)
LEMMA FrameSame ==
  ASSUME PoolInv, CleanSame, buf' = buf, disk' = disk
  PROVE  PoolFrame
<1>1. \A b \in Blocks : Current(b)' = Current(b)
  BY DEF Current, Existing
<1>2. CleanSame'
  BY DEF CleanSame, Dirty
<1>3. DirtyKept
  BY DEF DirtyKept, Dirty
<1> QED BY <1>1, <1>2, <1>3 DEF PoolFrame

(* if a block is pinned,                                                   *)
LEMMA FramePin ==
  ASSUME PoolInv, PoolInv', CleanSame, disk' = disk, NEW b \in Blocks, NEW i \in Buffs,
         \A j \in Buffs : j # i => buf'[j] = buf[j],
         buf'[i].blk = b, buf'[i].tx = buf[i].tx, buf'[i].lsn = buf[i].lsn,
         buf'[i].val = (IF Existing(b) # {} THEN buf[i].val ELSE disk[b]),
         Existing(b) # {} => buf[i].blk = b,
         Existing(b) = {} => buf[i].tx = -1
  PROVE  PoolFrame
<1>0. b # None /\ \A j \in Buffs : buf[j].blk = b => Existing(b) # {}
  BY TxAssumption DEF Existing
<1>1. ASSUME NEW c \in Blocks PROVE Current(c)' = Current(c)
  <2>1. CASE c = b
    <3>1. Current(b)' = buf'[i].val
      BY CurrentNext
    <3>2. Existing(b) # {} => Current(b) = buf[i].val
      BY CurrentIs
    <3>3. Existing(b) = {} => Current(b) = disk[b]
      BY <1>0, CurrentIs
    <3> QED BY <2>1, <3>1, <3>2, <3>3
  <2>2. CASE c # b /\ \E j \in Buffs : buf'[j].blk = c
    <3>1. PICK j \in Buffs : buf'[j].blk = c
      BY <2>2
    <3>2. buf'[j] = buf[j]
      BY <2>2, <3>1
    <3> QED BY <3>1, <3>2, CurrentIs, CurrentNext
  <2>3. CASE c # b /\ \A j \in Buffs : buf'[j].blk # c
    <3>1. Current(c)' = disk[c]
      BY <2>3, CurrentNext
    <3>2. CASE buf[i].blk = c
      <4>1. ~Dirty(i)
        BY <2>3, <3>2 DEF Dirty
      <4>2. buf[i].val = disk[c]
        BY <3>2, <4>1, TxAssumption DEF CleanSame
      <4> QED BY <3>1, <3>2, <4>2, CurrentIs
    <3>3. CASE buf[i].blk # c
      BY <2>3, <3>1, <3>3, CurrentIs
    <3> QED BY <3>2, <3>3
  <2> QED BY <2>1, <2>2, <2>3
<1>2. ASSUME NEW j \in Buffs PROVE Dirty(j)' => /\ Dirty(j) /\ buf'[j].blk = buf[j].blk
                                               /\ buf'[j].tx = buf[j].tx /\ buf'[j].lsn = buf[j].lsn
  <2>1. CASE j # i
    BY <2>1 DEF Dirty
  <2>2. CASE j = i
    BY <2>2 DEF Dirty
  <2> QED BY <2>1, <2>2
<1>3. ASSUME NEW j \in Buffs, ~Dirty(j)', buf'[j].blk # None PROVE buf'[j].val = disk[buf'[j].blk]
  <2>1. CASE j # i
    BY <1>3, <2>1 DEF Dirty, CleanSame
  <2>2. CASE j = i
    BY <1>3, <2>2, <1>0 DEF Dirty, CleanSame
  <2> QED BY <2>1, <2>2
<1>4. CleanSame'
  BY <1>3 DEF CleanSame
<1>5. DirtyKept
  BY <1>2 DEF DirtyKept
<1> QED BY <1>1, <1>4, <1>5 DEF PoolFrame

(* if blocks are unpinned,                                                 *)
LEMMA FrameUnpin ==
  ASSUME PoolInv, PoolInv', CleanSame, disk' = disk,
         \A j \in Buffs : /\ buf'[j].blk = buf[j].blk /\ buf'[j].val = buf[j].val
                          /\ buf'[j].tx = buf[j].tx /\ buf'[j].lsn = buf[j].lsn
  PROVE  PoolFrame
<1>1. ASSUME NEW c \in Blocks PROVE Current(c)' = Current(c)
  <2>1. CASE \E j \in Buffs : buf[j].blk = c
    BY <2>1, CurrentIs, CurrentNext
  <2>2. CASE \A j \in Buffs : buf[j].blk # c
    BY <2>2, CurrentIs, CurrentNext
  <2> QED BY <2>1, <2>2
<1>2. \A j \in Buffs : Dirty(j)' <=> Dirty(j)
  BY DEF Dirty
<1>3. CleanSame'
  BY <1>2 DEF CleanSame
<1>4. DirtyKept
  BY <1>2 DEF DirtyKept
<1> QED BY <1>1, <1>3, <1>4 DEF PoolFrame

(* and if a page is written.                                               *)
LEMMA FrameWrite ==
  ASSUME PoolInv, PoolInv', CleanSame, Honest, NEW s \in Slots, EndWrite(s)
  PROVE  PoolFrame
<1>1. /\ writing \in Buffs
      /\ \A j \in Buffs : j # writing => buf'[j] = buf[j]
      /\ buf'[writing].blk = buf[writing].blk /\ buf'[writing].val = buf[writing].val
      /\ buf'[writing].tx = -1
      /\ disk' = [disk EXCEPT ![buf[writing].blk] = buf[writing].val]
  BY EndWriteEffect
<1>2. writing # 0
  BY DEF EndWrite
<1>3. Dirty(writing) /\ buf[writing].lsn <= saved
  <2>1. Dirty(writing) /\ buf[writing].lsn <= promised
    BY <1>2 DEF PoolInv, Writing
  <2>2. buf[writing].lsn \in Int /\ promised \in Nat /\ saved \in Nat
    BY <1>1 DEF PoolInv, TypeOK
  <2> QED BY <2>1, <2>2 DEF Honest
<1>4. buf[writing].blk \in Blocks
  <2>1. buf[writing].blk # None
    BY <1>1, <1>3 DEF PoolInv, Buffers, Dirty
  <2> QED BY <1>1, <2>1 DEF PoolInv, TypeOK
<1>5. \A c \in Blocks : disk'[c] = IF c = buf[writing].blk THEN buf[writing].val ELSE disk[c]
  BY <1>1 DEF PoolInv, TypeOK
<1>6. \A j \in Buffs : buf'[j].blk = buf[j].blk /\ buf'[j].val = buf[j].val
  BY <1>1
<1>7. ASSUME NEW c \in Blocks PROVE Current(c)' = Current(c)
  <2>1. CASE \E j \in Buffs : buf[j].blk = c
    BY <1>6, <2>1, CurrentIs, CurrentNext
  <2>2. CASE \A j \in Buffs : buf[j].blk # c
    <3>1. disk'[c] = disk[c]
      BY <1>1, <1>5, <2>2
    <3> QED BY <1>6, <2>2, <3>1, CurrentIs, CurrentNext
  <2> QED BY <2>1, <2>2
<1>8. ASSUME NEW j \in Buffs, ~Dirty(j)', buf'[j].blk # None PROVE buf'[j].val = disk'[buf'[j].blk]
  <2>1. CASE j = writing
    BY <1>1, <1>4, <1>5, <2>1
  <2>2. CASE j # writing
    <3>1. buf[j].blk # buf[writing].blk
      BY <1>1, <1>4, <2>2, TxAssumption DEF PoolInv, Pins
    <3>2. buf[j].blk \in Blocks
      BY <1>1, <1>8, <2>2 DEF PoolInv, TypeOK
    <3>3. disk'[buf[j].blk] = disk[buf[j].blk]
      BY <1>5, <3>1, <3>2
    <3> QED BY <1>1, <1>8, <2>2, <3>3 DEF CleanSame, Dirty
  <2> QED BY <2>1, <2>2
<1>9. CleanSame'
  BY <1>8 DEF CleanSame
<1>10. DirtyKept
  BY <1>1 DEF DirtyKept, Dirty
<1>11. ASSUME NEW c \in Blocks, disk'[c] # disk[c]
       PROVE  \E i \in Buffs : Dirty(i) /\ buf[i].blk = c /\ buf[i].lsn <= saved
  <2>1. c = buf[writing].blk
    BY <1>5, <1>11
  <2> QED BY <1>1, <1>3, <2>1
<1> QED BY <1>7, <1>9, <1>10, <1>11 DEF PoolFrame

(* A write, logged or not, changes one block and makes its buffer dirty.   *)
LEMMA FrameChange ==
  ASSUME PoolInv, PoolInv', CleanSame, disk' = disk, NEW b \in Blocks, NEW i \in Buffs, NEW v,
         \A j \in Buffs : j # i => buf'[j] = buf[j],
         buf[i].blk = b, buf'[i].blk = b, buf'[i].val = v, buf'[i].tx \in Nat
  PROVE  /\ Current(b)' = v
         /\ \A c \in Blocks : c # b => Current(c)' = Current(c)
         /\ CleanSame'
<1>0. b # None
  BY TxAssumption
<1>1. Current(b)' = v
  BY CurrentNext
<1>2. ASSUME NEW c \in Blocks, c # b PROVE Current(c)' = Current(c)
  <2>1. CASE \E j \in Buffs : buf[j].blk = c
    <3>1. PICK j \in Buffs : buf[j].blk = c
      BY <2>1
    <3>2. buf'[j] = buf[j]
      BY <1>2, <3>1
    <3> QED BY <3>1, <3>2, CurrentIs, CurrentNext
  <2>2. CASE \A j \in Buffs : buf[j].blk # c
    <3>1. \A j \in Buffs : buf'[j].blk # c
      BY <1>2, <2>2
    <3> QED BY <2>2, <3>1, CurrentIs, CurrentNext
  <2> QED BY <2>1, <2>2
<1>3. ASSUME NEW j \in Buffs, ~Dirty(j)', buf'[j].blk # None PROVE buf'[j].val = disk[buf'[j].blk]
  <2>1. j # i
    BY <1>3 DEF Dirty
  <2> QED BY <1>3, <2>1 DEF Dirty, CleanSame
<1>4. CleanSame'
  BY <1>3 DEF CleanSame
<1> QED BY <1>1, <1>2, <1>4

-----------------------------------------------------------------------------
(* The steps, by what they do to the changes and to the values.            *)

(* A thread that takes no part in a step.                                  *)
Still(u) ==
  /\ pc'[u] = pc[u] /\ op'[u] = op[u] /\ num'[u] = num[u] /\ pos'[u] = pos[u] /\ top'[u] = top[u]
  /\ writes'[u] = writes[u] /\ commitAt'[u] = commitAt[u] /\ locks'[u] = locks[u]
  /\ Changes(u)' = Changes(u)
Others(s) == \A u \in Slots : u # s => Still(u)

(* Where a thread goes in a step that leaves log and values alone.         *)
Moves(s) ==
  \/ pc'[s] = pc[s] /\ op'[s] = op[s]
  \/ pc[s] = "active" /\ pc'[s] = "pin" /\ op'[s] = op[s]
  \/ pc[s] = "pin" /\ pc'[s] = "active" /\ op'[s] = op[s]
  \/ pc[s] = "active" /\ pc'[s] = "flush" /\ op'[s] = "commit"
  \/ s \in Clients /\ pc[s] \in {"active", "failed"} /\ pc'[s] = "iterate" /\ op'[s] = "rollback"
  \/ pc[s] = "iterate" /\ pc'[s] = "iterating" /\ op'[s] = op[s]
  \/ pc[s] = "undo" /\ pc'[s] \in {"restore", "failed"} /\ op'[s] = op[s]
  \/ pc[s] = "undo" /\ ToUndo(s) = {} /\ pc'[s] = "flush" /\ op'[s] = op[s]
  \/ pc[s] = "flush" /\ pc'[s] = "record" /\ op'[s] = op[s]
  \/ pc[s] = "unpin_all" /\ pc'[s] = "idle" /\ op'[s] = "none"

Quiet(s) ==
  /\ Others(s)
  /\ log' = log /\ saved <= saved'
  /\ base' = base /\ writes' = writes /\ commitAt' = commitAt
  /\ PoolFrame
  /\ locks' = locks \/ \E b \in Blocks : get_int(s, b)
  /\ Moves(s) /\ Changes(s)' = Changes(s)
  /\ pc[s] # "unpin_all" => num'[s] = num[s] /\ pos'[s] = pos[s] /\ top'[s] = top[s]

(* What the other threads are asked to keep.                               *)
OthersKeep(s) ==
  \A u \in Slots : u # s =>
    /\ pc'[u] = pc[u] /\ op'[u] = op[u] /\ num'[u] = num[u] /\ pos'[u] = pos[u] /\ top'[u] = top[u]
    /\ writes'[u] = writes[u] /\ commitAt'[u] = commitAt[u] /\ locks'[u] = locks[u]

(* Then they keep their changes, when no record is added that is theirs.   *)
LEMMA OthersStill ==
  ASSUME PoolInv, NEW s \in Slots, LogKept, OthersKeep(s),
         \/ log' = log
         \/ \E r : /\ AppendLog(r)
                   /\ r.op \in {"start", "setint"} =>
                        \A u \in Slots : u # s /\ ~Outside(pc[u]) => r.tx # num[u],
         s = Sys \/ (started = "done" /\ started' = "done" /\ op[Sys] = "none")
  PROVE  Others(s)
<1> SUFFICES ASSUME NEW u \in Slots, u # s PROVE Changes(u)' = Changes(u)
  BY DEF Others, OthersKeep, Still
<1>0. pc'[u] = pc[u] /\ num'[u] = num[u]
  BY DEF OthersKeep
<1>1. CASE u = Sys
  <2>1. ~Recovering /\ ~Recovering'
    BY <1>1 DEF Recovering, OthersKeep
  <2> QED BY <1>1, <2>1, SysChanges
<1>2. CASE u # Sys
  <2>1. u \in Clients
    BY <1>2 DEF Slots
  <2>2. CASE log' = log
    BY <1>0, <2>1, <2>2, ClientChanges
  <2>3. ASSUME NEW r, AppendLog(r), r.op \in {"start", "setint"} =>
                        \A w \in Slots : w # s /\ ~Outside(pc[w]) => r.tx # num[w]
        PROVE  Changes(u)' = Changes(u)
    <3>1. ~Outside(pc[u]) => ~(r.op \in {"start", "setint"} /\ r.tx = num[u])
      BY <2>3
    <3> QED BY <1>0, <2>1, <2>3, <3>1, ClientChanges
  <2> QED BY <2>2, <2>3
<1> QED BY <1>1, <1>2

(* A thread that leaves the log alone keeps its changes.                   *)
LEMMA QuietIf ==
  ASSUME PoolInv, NEW s \in Slots, s \in Clients => pc[s] # "idle",
         log' = log, saved <= saved', base' = base, writes' = writes, commitAt' = commitAt,
         PoolFrame, Moves(s), OthersKeep(s),
         locks' = locks \/ \E b \in Blocks : get_int(s, b),
         pc[s] # "unpin_all" => num'[s] = num[s] /\ pos'[s] = pos[s] /\ top'[s] = top[s],
         started' = IF s = Sys /\ pc[s] = "unpin_all" /\ pc'[s] = "idle" THEN "done" ELSE started
  PROVE  Quiet(s)
<1>0. Sys \in Slots /\ Sys \notin Clients
  BY TxAssumption DEF Slots
<1>1. LogKept
  BY DEF LogKept, PoolInv, TypeOK
<1>2. s # Sys => started = "done" /\ started' = "done" /\ op[Sys] = "none"
  BY NoRecovery DEF Slots
<1>3. Others(s)
  BY <1>1, <1>2, OthersStill
<1>4. CASE s # Sys
  <2>1. s \in Clients
    BY <1>4 DEF Slots
  <2>2. Outside(pc'[s]) <=> Outside(pc[s])
    BY DEF Moves, Outside
  <2>3. ~Outside(pc[s]) => num'[s] = num[s]
    BY DEF Outside
  <2>4. Changes(s)' = Changes(s)
    BY <2>1, <2>2, <2>3, ClientChanges
  <2> QED BY <1>3, <2>4 DEF Quiet
<1>5. CASE s = Sys
  <2>0. /\ op[Sys] # "rollback" /\ pc[Sys] \notin {"active", "pin"}
        /\ started = "doing" <=> pc[Sys] # "idle"
        /\ pc[Sys] = "unpin_all" => op[Sys] = "commit"
        /\ pc[Sys] = "failed" => op[Sys] = "recover"
        /\ pc[Sys] \in {"idle", "unpin_all"} => op[Sys] # "recover"
        /\ started \in {"no", "doing", "done"}
    BY <1>0 DEF PoolInv, TypeOK, Threads, Calls, StartUps
  <2>1. Changes(Sys)' = Changes(Sys)
    <3>1. CASE pc[Sys] = "unpin_all"
      <4>1. ~Recovering
        BY <2>0, <3>1 DEF Recovering
      <4>2. started' \in {"doing", "done"} /\ op'[Sys] # "recover"
        BY <1>5, <2>0, <3>1 DEF Moves
      <4>3. ~Recovering'
        BY <4>2 DEF Recovering
      <4> QED BY <1>1, <4>1, <4>3, SysChanges
    <3>2. CASE pc[Sys] # "unpin_all" /\ op'[Sys] = op[Sys]
      <4>1. started' = started /\ top'[Sys] = top[Sys]
        BY <1>5, <3>2
      <4>2. Recovering' <=> Recovering
        BY <3>2, <4>1 DEF Recovering
      <4>3. pc'[Sys] \in {"idle", "iterate", "iterating"}
              <=> pc[Sys] \in {"idle", "iterate", "iterating"}
        BY <1>5, <2>0, <3>2 DEF Moves
      <4>4. RecoverTop' = RecoverTop
        BY <4>1, <4>3 DEF RecoverTop
      <4> QED BY <1>1, <4>2, <4>4, SysChanges
    <3> QED BY <1>0, <1>5, <2>0, <3>1, <3>2 DEF Moves
  <2> QED BY <1>3, <1>5, <2>1 DEF Quiet
<1> QED BY <1>4, <1>5

(* Pins and unpins, page writes, calls and returns are quiet.              *)
LEMMA QuietSteps ==
  ASSUME PoolInv, PoolInv', CleanSame, Honest
  PROVE  /\ append_saves \/ AtBounds => Quiet(Sys)
         /\ \A s \in Clients : PinDone(s) \/ PinThrows(s) \/ CallCommit(s) \/ CallRollback(s) => Quiet(s)
         /\ \A s \in Clients, b \in Blocks : CallPin(s, b) \/ unpin(s, b) \/ get_int(s, b) => Quiet(s)
         /\ \A s \in Slots, i \in Buffs : StartWrite(s, i) /\ FlushesFor(s, i) => Quiet(s)
         /\ \A s \in Slots : pc[s] \in {"pin", "undo", "flush"} /\ EndWrite(s) => Quiet(s)
         /\ \A s \in Slots : UndoPins(s) \/ UndoThrows(s) \/ UndoEnds(s) \/ FlushEnds(s) \/ UnpinAll(s) => Quiet(s)
         /\ \A s \in Slots : iterator(s) => Quiet(s)
<1>0. Clients \subseteq Slots /\ Sys \in Slots /\ Sys \notin Clients
  BY TxAssumption DEF Slots
<1>t. ThreadTypes /\ RestTypes /\ LogTypes /\ Len(log) \in Nat
  BY TypesAre DEF PoolInv, LogTypes
<1>i. pc[Sys] \notin {"active", "pin"}
  BY DEF PoolInv, Threads, Calls
<1> USE DEF ThreadTypes, RestTypes, LogTypes
<1>1. ASSUME append_saves PROVE Quiet(Sys)
  <2>1. PoolFrame
    BY <1>1, FrameSame DEF append_saves, logv, pool, tx, ghosts, sysv
  <2>2. OthersKeep(Sys)
    BY <1>0, <1>t, <1>1 DEF append_saves, OthersKeep, logv, pool, tx, ghosts, sysv
  <2>3. Moves(Sys)
    BY <1>0, <1>t, <1>i, <1>1 DEF append_saves, Moves, logv, pool, tx, ghosts, sysv
  <2>4. /\ Sys \in Slots
        /\ Sys \in Clients => pc[Sys] # "idle"
        /\ log' = log /\ saved <= saved' /\ base' = base /\ writes' = writes /\ commitAt' = commitAt
        /\ pc[Sys] # "unpin_all" => num'[Sys] = num[Sys] /\ pos'[Sys] = pos[Sys] /\ top'[Sys] = top[Sys]
        /\ started' = IF Sys = Sys /\ pc[Sys] = "unpin_all" /\ pc'[Sys] = "idle" THEN "done" ELSE started
    BY <1>0, <1>t, <1>i, <1>1 DEF append_saves, logv, pool, tx, ghosts, sysv
  <2>5. locks' = locks \/ \E c \in Blocks : get_int(Sys, c)
    BY <1>1 DEF append_saves, logv, pool, tx, ghosts, sysv
  <2> QED BY <2>1, <2>2, <2>3, <2>4, <2>5, QuietIf
<1>2. ASSUME AtBounds PROVE Quiet(Sys)
  <2>1. PoolFrame
    BY <1>2, FrameSame DEF AtBounds, vars, logv, pool, tx, ghosts, sysv
  <2>2. OthersKeep(Sys)
    BY <1>0, <1>t, <1>2 DEF AtBounds, OthersKeep, vars, logv, pool, tx, ghosts, sysv
  <2>3. Moves(Sys)
    BY <1>0, <1>t, <1>i, <1>2 DEF AtBounds, Moves, vars, logv, pool, tx, ghosts, sysv
  <2>4. /\ Sys \in Slots
        /\ Sys \in Clients => pc[Sys] # "idle"
        /\ log' = log /\ saved <= saved' /\ base' = base /\ writes' = writes /\ commitAt' = commitAt
        /\ pc[Sys] # "unpin_all" => num'[Sys] = num[Sys] /\ pos'[Sys] = pos[Sys] /\ top'[Sys] = top[Sys]
        /\ started' = IF Sys = Sys /\ pc[Sys] = "unpin_all" /\ pc'[Sys] = "idle" THEN "done" ELSE started
    BY <1>0, <1>t, <1>i, <1>2 DEF AtBounds, vars, logv, pool, tx, ghosts, sysv
  <2>5. locks' = locks \/ \E c \in Blocks : get_int(Sys, c)
    BY <1>2 DEF AtBounds, vars, logv, pool, tx, ghosts, sysv
  <2> QED BY <2>1, <2>2, <2>3, <2>4, <2>5, QuietIf
<1>3. ASSUME NEW s \in Clients, PinDone(s) PROVE Quiet(s)
  <2>b. PICK b : b = want[s]
    OBVIOUS
  <2>e. /\ b \in Blocks /\ Target(b) \in Buffs
        /\ \A j \in Buffs : j # Target(b) => buf'[j] = buf[j]
        /\ buf'[Target(b)].blk = b
        /\ buf'[Target(b)].tx = buf[Target(b)].tx
        /\ buf'[Target(b)].lsn = buf[Target(b)].lsn
        /\ buf'[Target(b)].val = IF Existing(b) # {} THEN buf[Target(b)].val ELSE disk[b]
        /\ Existing(b) # {} => buf[Target(b)].blk = b
        /\ Existing(b) = {} => buf[Target(b)].tx = -1
    BY <1>3, <2>b, PinDoneEffect
  <2>d. disk' = disk
    BY <1>3 DEF PinDone
  <2>1. PoolFrame
    <3> HIDE DEF Target, Existing
    <3> QED BY <2>e, <2>d, FramePin
  <2>2. OthersKeep(s)
    BY <1>0, <1>t, <1>3 DEF PinDone, OthersKeep, Goto, logv, ghosts, sysv
  <2>3. Moves(s)
    BY <1>0, <1>t, <1>i, <1>3 DEF PinDone, Moves, Goto, logv, ghosts, sysv
  <2>4. /\ s \in Slots
        /\ s \in Clients => pc[s] # "idle"
        /\ log' = log /\ saved <= saved' /\ base' = base /\ writes' = writes /\ commitAt' = commitAt
        /\ pc[s] # "unpin_all" => num'[s] = num[s] /\ pos'[s] = pos[s] /\ top'[s] = top[s]
        /\ started' = IF s = Sys /\ pc[s] = "unpin_all" /\ pc'[s] = "idle" THEN "done" ELSE started
    BY <1>0, <1>t, <1>i, <1>3 DEF PinDone, Goto, logv, ghosts, sysv
  <2>5. locks' = locks \/ \E c \in Blocks : get_int(s, c)
    BY <1>3 DEF PinDone, Goto, logv, ghosts, sysv
  <2> QED BY <2>1, <2>2, <2>3, <2>4, <2>5, QuietIf
<1>4. ASSUME NEW s \in Clients, PinThrows(s) PROVE Quiet(s)
  <2>1. PoolFrame
    BY <1>4, FrameSame DEF PinThrows, Goto, logv, pool, ghosts, sysv
  <2>2. OthersKeep(s)
    BY <1>0, <1>t, <1>4 DEF PinThrows, OthersKeep, Goto, logv, pool, ghosts, sysv
  <2>3. Moves(s)
    BY <1>0, <1>t, <1>i, <1>4 DEF PinThrows, Moves, Goto, logv, pool, ghosts, sysv
  <2>4. /\ s \in Slots
        /\ s \in Clients => pc[s] # "idle"
        /\ log' = log /\ saved <= saved' /\ base' = base /\ writes' = writes /\ commitAt' = commitAt
        /\ pc[s] # "unpin_all" => num'[s] = num[s] /\ pos'[s] = pos[s] /\ top'[s] = top[s]
        /\ started' = IF s = Sys /\ pc[s] = "unpin_all" /\ pc'[s] = "idle" THEN "done" ELSE started
    BY <1>0, <1>t, <1>i, <1>4 DEF PinThrows, Goto, logv, pool, ghosts, sysv
  <2>5. locks' = locks \/ \E c \in Blocks : get_int(s, c)
    BY <1>4 DEF PinThrows, Goto, logv, pool, ghosts, sysv
  <2> QED BY <2>1, <2>2, <2>3, <2>4, <2>5, QuietIf
<1>5. ASSUME NEW s \in Clients, CallCommit(s) PROVE Quiet(s)
  <2>1. PoolFrame
    BY <1>5, FrameSame DEF CallCommit, Goto, logv, pool, ghosts, sysv
  <2>2. OthersKeep(s)
    BY <1>0, <1>t, <1>5 DEF CallCommit, OthersKeep, Goto, logv, pool, ghosts, sysv
  <2>3. Moves(s)
    BY <1>0, <1>t, <1>i, <1>5 DEF CallCommit, Moves, Goto, logv, pool, ghosts, sysv
  <2>4. /\ s \in Slots
        /\ s \in Clients => pc[s] # "idle"
        /\ log' = log /\ saved <= saved' /\ base' = base /\ writes' = writes /\ commitAt' = commitAt
        /\ pc[s] # "unpin_all" => num'[s] = num[s] /\ pos'[s] = pos[s] /\ top'[s] = top[s]
        /\ started' = IF s = Sys /\ pc[s] = "unpin_all" /\ pc'[s] = "idle" THEN "done" ELSE started
    BY <1>0, <1>t, <1>i, <1>5 DEF CallCommit, Goto, logv, pool, ghosts, sysv
  <2>5. locks' = locks \/ \E c \in Blocks : get_int(s, c)
    BY <1>5 DEF CallCommit, Goto, logv, pool, ghosts, sysv
  <2> QED BY <2>1, <2>2, <2>3, <2>4, <2>5, QuietIf
<1>6. ASSUME NEW s \in Clients, CallRollback(s) PROVE Quiet(s)
  <2>1. PoolFrame
    BY <1>6, FrameSame DEF CallRollback, Goto, logv, pool, ghosts, sysv
  <2>2. OthersKeep(s)
    BY <1>0, <1>t, <1>6 DEF CallRollback, OthersKeep, Goto, logv, pool, ghosts, sysv
  <2>3. Moves(s)
    BY <1>0, <1>t, <1>i, <1>6 DEF CallRollback, Moves, Goto, logv, pool, ghosts, sysv
  <2>4. /\ s \in Slots
        /\ s \in Clients => pc[s] # "idle"
        /\ log' = log /\ saved <= saved' /\ base' = base /\ writes' = writes /\ commitAt' = commitAt
        /\ pc[s] # "unpin_all" => num'[s] = num[s] /\ pos'[s] = pos[s] /\ top'[s] = top[s]
        /\ started' = IF s = Sys /\ pc[s] = "unpin_all" /\ pc'[s] = "idle" THEN "done" ELSE started
    BY <1>0, <1>t, <1>i, <1>6 DEF CallRollback, Goto, logv, pool, ghosts, sysv
  <2>5. locks' = locks \/ \E c \in Blocks : get_int(s, c)
    BY <1>6 DEF CallRollback, Goto, logv, pool, ghosts, sysv
  <2> QED BY <2>1, <2>2, <2>3, <2>4, <2>5, QuietIf
<1>7. ASSUME NEW s \in Clients, NEW b \in Blocks, CallPin(s, b) PROVE Quiet(s)
  <2>1. PoolFrame
    BY <1>7, FrameSame DEF CallPin, Goto, logv, pool, ghosts, sysv
  <2>2. OthersKeep(s)
    BY <1>0, <1>t, <1>7 DEF CallPin, OthersKeep, Goto, logv, pool, ghosts, sysv
  <2>3. Moves(s)
    BY <1>0, <1>t, <1>i, <1>7 DEF CallPin, Moves, Goto, logv, pool, ghosts, sysv
  <2>4. /\ s \in Slots
        /\ s \in Clients => pc[s] # "idle"
        /\ log' = log /\ saved <= saved' /\ base' = base /\ writes' = writes /\ commitAt' = commitAt
        /\ pc[s] # "unpin_all" => num'[s] = num[s] /\ pos'[s] = pos[s] /\ top'[s] = top[s]
        /\ started' = IF s = Sys /\ pc[s] = "unpin_all" /\ pc'[s] = "idle" THEN "done" ELSE started
    BY <1>0, <1>t, <1>i, <1>7 DEF CallPin, Goto, logv, pool, ghosts, sysv
  <2>5. locks' = locks \/ \E c \in Blocks : get_int(s, c)
    BY <1>7 DEF CallPin, Goto, logv, pool, ghosts, sysv
  <2> QED BY <2>1, <2>2, <2>3, <2>4, <2>5, QuietIf
<1>8. ASSUME NEW s \in Clients, NEW b \in Blocks, unpin(s, b) PROVE Quiet(s)
  <2>e. {b} \subseteq pinned[s] /\ buf' = Unpin({b}) /\ disk' = disk /\ s \in Slots
    BY <1>0, <1>8 DEF unpin
  <2>1. PoolFrame
    BY <2>e, UnpinEffect, FrameUnpin
  <2>2. OthersKeep(s)
    BY <1>0, <1>t, <1>8 DEF unpin, OthersKeep, logv, ghosts, sysv
  <2>3. Moves(s)
    BY <1>0, <1>t, <1>i, <1>8 DEF unpin, Moves, logv, ghosts, sysv
  <2>4. /\ s \in Slots
        /\ s \in Clients => pc[s] # "idle"
        /\ log' = log /\ saved <= saved' /\ base' = base /\ writes' = writes /\ commitAt' = commitAt
        /\ pc[s] # "unpin_all" => num'[s] = num[s] /\ pos'[s] = pos[s] /\ top'[s] = top[s]
        /\ started' = IF s = Sys /\ pc[s] = "unpin_all" /\ pc'[s] = "idle" THEN "done" ELSE started
    BY <1>0, <1>t, <1>i, <1>8 DEF unpin, logv, ghosts, sysv
  <2>5. locks' = locks \/ \E c \in Blocks : get_int(s, c)
    BY <1>8 DEF unpin, logv, ghosts, sysv
  <2> QED BY <2>1, <2>2, <2>3, <2>4, <2>5, QuietIf
<1>9. ASSUME NEW s \in Clients, NEW b \in Blocks, get_int(s, b) PROVE Quiet(s)
  <2>1. PoolFrame
    BY <1>9, FrameSame DEF get_int, logv, pool, tx, ghosts, sysv
  <2>2. OthersKeep(s)
    BY <1>0, <1>t, <1>9 DEF get_int, OthersKeep, logv, pool, tx, ghosts, sysv
  <2>3. Moves(s)
    BY <1>0, <1>t, <1>i, <1>9 DEF get_int, Moves, logv, pool, tx, ghosts, sysv
  <2>4. /\ s \in Slots
        /\ s \in Clients => pc[s] # "idle"
        /\ log' = log /\ saved <= saved' /\ base' = base /\ writes' = writes /\ commitAt' = commitAt
        /\ pc[s] # "unpin_all" => num'[s] = num[s] /\ pos'[s] = pos[s] /\ top'[s] = top[s]
        /\ started' = IF s = Sys /\ pc[s] = "unpin_all" /\ pc'[s] = "idle" THEN "done" ELSE started
    BY <1>0, <1>t, <1>i, <1>9 DEF get_int, logv, pool, tx, ghosts, sysv
  <2>5. locks' = locks \/ \E c \in Blocks : get_int(s, c)
    BY <1>9 DEF Compatible
  <2> QED BY <2>1, <2>2, <2>3, <2>4, <2>5, QuietIf
<1>10. ASSUME NEW s \in Slots, NEW i \in Buffs, StartWrite(s, i), FlushesFor(s, i) PROVE Quiet(s)
  <2>1. PoolFrame
    BY <1>10, FrameSame DEF StartWrite, FlushesFor, FlushLog, tx, ghosts, sysv
  <2>2. OthersKeep(s)
    BY <1>0, <1>t, <1>10 DEF StartWrite, OthersKeep, FlushesFor, FlushLog, tx, ghosts, sysv
  <2>3. Moves(s)
    BY <1>0, <1>t, <1>i, <1>10 DEF StartWrite, Moves, FlushesFor, FlushLog, tx, ghosts, sysv
  <2>4. /\ s \in Slots
        /\ s \in Clients => pc[s] # "idle"
        /\ log' = log /\ saved <= saved' /\ base' = base /\ writes' = writes /\ commitAt' = commitAt
        /\ pc[s] # "unpin_all" => num'[s] = num[s] /\ pos'[s] = pos[s] /\ top'[s] = top[s]
        /\ started' = IF s = Sys /\ pc[s] = "unpin_all" /\ pc'[s] = "idle" THEN "done" ELSE started
    BY <1>0, <1>t, <1>i, <1>10 DEF StartWrite, FlushesFor, FlushLog, tx, ghosts, sysv
  <2>5. locks' = locks \/ \E c \in Blocks : get_int(s, c)
    BY <1>10 DEF StartWrite, FlushesFor, FlushLog, tx, ghosts, sysv
  <2> QED BY <2>1, <2>2, <2>3, <2>4, <2>5, QuietIf
<1>11. ASSUME NEW s \in Slots, pc[s] \in {"pin", "undo", "flush"}, EndWrite(s) PROVE Quiet(s)
  <2>1. PoolFrame
    BY <1>11, FrameWrite
  <2>2. OthersKeep(s)
    BY <1>0, <1>t, <1>11 DEF EndWrite, OthersKeep, logv, tx, ghosts, sysv
  <2>3. Moves(s)
    BY <1>0, <1>t, <1>i, <1>11 DEF EndWrite, Moves, logv, tx, ghosts, sysv
  <2>4. /\ s \in Slots
        /\ s \in Clients => pc[s] # "idle"
        /\ log' = log /\ saved <= saved' /\ base' = base /\ writes' = writes /\ commitAt' = commitAt
        /\ pc[s] # "unpin_all" => num'[s] = num[s] /\ pos'[s] = pos[s] /\ top'[s] = top[s]
        /\ started' = IF s = Sys /\ pc[s] = "unpin_all" /\ pc'[s] = "idle" THEN "done" ELSE started
    BY <1>0, <1>t, <1>i, <1>11 DEF EndWrite, logv, tx, ghosts, sysv
  <2>5. locks' = locks \/ \E c \in Blocks : get_int(s, c)
    BY <1>11 DEF EndWrite, logv, tx, ghosts, sysv
  <2> QED BY <2>1, <2>2, <2>3, <2>4, <2>5, QuietIf
<1>12. ASSUME NEW s \in Slots, UndoPins(s) PROVE Quiet(s)
  <2>b. PICK b : b = UndoBlock(s)
    OBVIOUS
  <2>e. /\ b \in Blocks /\ Target(b) \in Buffs
        /\ \A j \in Buffs : j # Target(b) => buf'[j] = buf[j]
        /\ buf'[Target(b)].blk = b
        /\ buf'[Target(b)].tx = buf[Target(b)].tx
        /\ buf'[Target(b)].lsn = buf[Target(b)].lsn
        /\ buf'[Target(b)].val = IF Existing(b) # {} THEN buf[Target(b)].val ELSE disk[b]
        /\ Existing(b) # {} => buf[Target(b)].blk = b
        /\ Existing(b) = {} => buf[Target(b)].tx = -1
    BY <1>12, <2>b, UndoPinsEffect
  <2>d. disk' = disk
    BY <1>12 DEF UndoPins
  <2>1. PoolFrame
    <3> HIDE DEF Target, Existing
    <3> QED BY <2>e, <2>d, FramePin
  <2>2. OthersKeep(s)
    BY <1>0, <1>t, <1>12 DEF UndoPins, OthersKeep, Undoing, Goto, logv, ghosts, sysv
  <2>3. Moves(s)
    BY <1>0, <1>t, <1>i, <1>12 DEF UndoPins, Moves, Undoing, Goto, logv, ghosts, sysv
  <2>4. /\ s \in Slots
        /\ s \in Clients => pc[s] # "idle"
        /\ log' = log /\ saved <= saved' /\ base' = base /\ writes' = writes /\ commitAt' = commitAt
        /\ pc[s] # "unpin_all" => num'[s] = num[s] /\ pos'[s] = pos[s] /\ top'[s] = top[s]
        /\ started' = IF s = Sys /\ pc[s] = "unpin_all" /\ pc'[s] = "idle" THEN "done" ELSE started
    BY <1>0, <1>t, <1>i, <1>12 DEF UndoPins, Undoing, Goto, logv, ghosts, sysv
  <2>5. locks' = locks \/ \E c \in Blocks : get_int(s, c)
    BY <1>12 DEF UndoPins, Undoing, Goto, logv, ghosts, sysv
  <2> QED BY <2>1, <2>2, <2>3, <2>4, <2>5, QuietIf
<1>13. ASSUME NEW s \in Slots, UndoThrows(s) PROVE Quiet(s)
  <2>1. PoolFrame
    BY <1>13, FrameSame DEF UndoThrows, Undoing, Goto, logv, pool, ghosts, sysv
  <2>2. OthersKeep(s)
    BY <1>0, <1>t, <1>13 DEF UndoThrows, OthersKeep, Undoing, Goto, logv, pool, ghosts, sysv
  <2>3. Moves(s)
    BY <1>0, <1>t, <1>i, <1>13 DEF UndoThrows, Moves, Undoing, Goto, logv, pool, ghosts, sysv
  <2>4. /\ s \in Slots
        /\ s \in Clients => pc[s] # "idle"
        /\ log' = log /\ saved <= saved' /\ base' = base /\ writes' = writes /\ commitAt' = commitAt
        /\ pc[s] # "unpin_all" => num'[s] = num[s] /\ pos'[s] = pos[s] /\ top'[s] = top[s]
        /\ started' = IF s = Sys /\ pc[s] = "unpin_all" /\ pc'[s] = "idle" THEN "done" ELSE started
    BY <1>0, <1>t, <1>i, <1>13 DEF UndoThrows, Undoing, Goto, logv, pool, ghosts, sysv
  <2>5. locks' = locks \/ \E c \in Blocks : get_int(s, c)
    BY <1>13 DEF UndoThrows, Undoing, Goto, logv, pool, ghosts, sysv
  <2> QED BY <2>1, <2>2, <2>3, <2>4, <2>5, QuietIf
<1>14. ASSUME NEW s \in Slots, UndoEnds(s) PROVE Quiet(s)
  <2>1. PoolFrame
    BY <1>14, FrameSame DEF UndoEnds, Goto, logv, pool, ghosts, sysv
  <2>2. OthersKeep(s)
    BY <1>0, <1>t, <1>14 DEF UndoEnds, OthersKeep, Goto, logv, pool, ghosts, sysv
  <2>3. Moves(s)
    BY <1>0, <1>t, <1>i, <1>14 DEF UndoEnds, Moves, Goto, logv, pool, ghosts, sysv
  <2>4. /\ s \in Slots
        /\ s \in Clients => pc[s] # "idle"
        /\ log' = log /\ saved <= saved' /\ base' = base /\ writes' = writes /\ commitAt' = commitAt
        /\ pc[s] # "unpin_all" => num'[s] = num[s] /\ pos'[s] = pos[s] /\ top'[s] = top[s]
        /\ started' = IF s = Sys /\ pc[s] = "unpin_all" /\ pc'[s] = "idle" THEN "done" ELSE started
    BY <1>0, <1>t, <1>i, <1>14 DEF UndoEnds, Goto, logv, pool, ghosts, sysv
  <2>5. locks' = locks \/ \E c \in Blocks : get_int(s, c)
    BY <1>14 DEF UndoEnds, Goto, logv, pool, ghosts, sysv
  <2> QED BY <2>1, <2>2, <2>3, <2>4, <2>5, QuietIf
<1>15. ASSUME NEW s \in Slots, FlushEnds(s) PROVE Quiet(s)
  <2>1. PoolFrame
    BY <1>15, FrameSame DEF FlushEnds, Goto, logv, ghosts, sysv
  <2>2. OthersKeep(s)
    BY <1>0, <1>t, <1>15 DEF FlushEnds, OthersKeep, Goto, logv, ghosts, sysv
  <2>3. Moves(s)
    BY <1>0, <1>t, <1>i, <1>15 DEF FlushEnds, Moves, Goto, logv, ghosts, sysv
  <2>4. /\ s \in Slots
        /\ s \in Clients => pc[s] # "idle"
        /\ log' = log /\ saved <= saved' /\ base' = base /\ writes' = writes /\ commitAt' = commitAt
        /\ pc[s] # "unpin_all" => num'[s] = num[s] /\ pos'[s] = pos[s] /\ top'[s] = top[s]
        /\ started' = IF s = Sys /\ pc[s] = "unpin_all" /\ pc'[s] = "idle" THEN "done" ELSE started
    BY <1>0, <1>t, <1>i, <1>15 DEF FlushEnds, Goto, logv, ghosts, sysv
  <2>5. locks' = locks \/ \E c \in Blocks : get_int(s, c)
    BY <1>15 DEF FlushEnds, Goto, logv, ghosts, sysv
  <2> QED BY <2>1, <2>2, <2>3, <2>4, <2>5, QuietIf
<1>16. ASSUME NEW s \in Slots, UnpinAll(s) PROVE Quiet(s)
  <2>e. pinned[s] \subseteq pinned[s] /\ buf' = Unpin(pinned[s]) /\ disk' = disk /\ s \in Slots
    BY <1>0, <1>16 DEF UnpinAll
  <2>1. PoolFrame
    BY <2>e, UnpinEffect, FrameUnpin
  <2>2. OthersKeep(s)
    BY <1>0, <1>t, <1>16 DEF UnpinAll, OthersKeep, Goto, logv, ghosts
  <2>3. Moves(s)
    BY <1>0, <1>t, <1>i, <1>16 DEF UnpinAll, Moves, Goto, logv, ghosts
  <2>4. /\ s \in Slots
        /\ s \in Clients => pc[s] # "idle"
        /\ log' = log /\ saved <= saved' /\ base' = base /\ writes' = writes /\ commitAt' = commitAt
        /\ pc[s] # "unpin_all" => num'[s] = num[s] /\ pos'[s] = pos[s] /\ top'[s] = top[s]
        /\ started' = IF s = Sys /\ pc[s] = "unpin_all" /\ pc'[s] = "idle" THEN "done" ELSE started
    BY <1>0, <1>t, <1>i, <1>16 DEF UnpinAll, Goto, logv, ghosts
  <2>5. locks' = locks \/ \E c \in Blocks : get_int(s, c)
    BY <1>16 DEF UnpinAll, Goto, logv, ghosts
  <2> QED BY <2>1, <2>2, <2>3, <2>4, <2>5, QuietIf
<1>17. ASSUME NEW s \in Slots, iterator(s) PROVE Quiet(s)
  <2>1. PoolFrame
    BY <1>17, FrameSame DEF iterator, pool
  <2>2. OthersKeep(s)
    BY <1>0, <1>t, <1>17 DEF iterator, OthersKeep, Goto, ghosts
  <2>3. Moves(s)
    BY <1>0, <1>t, <1>i, <1>17 DEF iterator, Moves, Goto
  <2>4. /\ s \in Slots
        /\ s \in Clients => pc[s] # "idle"
        /\ log' = log /\ saved <= saved' /\ base' = base /\ writes' = writes /\ commitAt' = commitAt
        /\ pc[s] # "unpin_all" => num'[s] = num[s] /\ pos'[s] = pos[s] /\ top'[s] = top[s]
        /\ started' = IF s = Sys /\ pc[s] = "unpin_all" /\ pc'[s] = "idle" THEN "done" ELSE started
    BY <1>0, <1>t, <1>i, <1>17 DEF iterator, Goto, ghosts, sysv
  <2>5. locks' = locks \/ \E c \in Blocks : get_int(s, c)
    BY <1>17 DEF iterator
  <2> QED BY <2>1, <2>2, <2>3, <2>4, <2>5, QuietIf
<1> QED
  BY <1>0, <1>1, <1>2, <1>3, <1>4, <1>5, <1>6, <1>7, <1>8, <1>9, <1>10, <1>11, <1>12, <1>13, <1>14, <1>15, <1>16, <1>17

(* The others add a record, or let go of changes, or change a value.       *)
LEMMA BeginStep ==
  ASSUME PoolInv, CleanSame, NEW s \in Clients, Begin(s)
  PROVE  /\ Others(s) /\ PoolFrame /\ Changes(s) = {} /\ Changes(s)' = {}
         /\ LogKept /\ Len(log') = Len(log) + 1 /\ log'[Len(log) + 1].op = "start"
         /\ saved' = saved /\ base' = base /\ writes' = writes /\ commitAt' = commitAt
         /\ pc[s] = "idle" /\ pc'[s] = "active" /\ op'[s] = op[s]
<1>0. Clients \subseteq Slots /\ Sys \in Slots /\ s # Sys /\ s \in Slots
  BY TxAssumption DEF Slots
<1>t. ThreadTypes /\ RestTypes /\ LogTypes /\ Len(log) \in Nat /\ TypeOK
  BY TypesAre DEF PoolInv, LogTypes
<1>i. Threads
  BY DEF PoolInv
<1> USE DEF ThreadTypes, RestTypes
<1>1. PoolFrame
  BY FrameSame DEF Begin, pool
<1>2. OthersKeep(s)
  BY <1>0, <1>t DEF Begin, Goto, OthersKeep, ghosts
<1>3. PICK r : r = Record("start", nextTx + 1)
  OBVIOUS
<1>4. AppendLog(r) /\ r.op = "start" /\ r.tx = nextTx + 1 /\ r \in Records
  BY <1>3, <1>t, TxAssumption DEF Begin, Record, Records
<1>5. LogKept /\ Len(log') = Len(log) + 1 /\ log'[Len(log) + 1] = r
  BY <1>4, <1>t, AppendKeeps
<1>6. \A u \in Slots : r.tx # num[u]
  BY <1>4, <1>t, <1>i DEF Threads, Numbers
<1>7. started = "done" /\ started' = "done" /\ op[Sys] = "none"
  BY <1>0, <1>i, <1>t DEF Begin, Threads, StartUps, Calls
<1>8. Others(s)
  BY <1>0, <1>2, <1>4, <1>5, <1>6, <1>7, OthersStill
<1>9. pc[s] = "idle" /\ pc'[s] = "active" /\ num'[s] = nextTx + 1 /\ op' = op
  BY <1>0, <1>t DEF Begin, Goto
<1>10. Changes(s) = {}
  BY <1>0, <1>9 DEF Changes
<1>11. Changes(s)' = {}
  <2>1. PICK t, n : t = nextTx + 1 /\ n = Len(log) + 1
    OBVIOUS
  <2>2. Changes(s)' = RollbackSet(t, n)'
    BY <1>0, <1>5, <1>9, <2>1 DEF Changes, RollbackSet
  <2>3. log'[n].op = "start" /\ log'[n].tx = t
    BY <1>4, <1>5, <2>1
  <2>4. \A p \in 1 .. n : n \in p .. n
    BY <1>t, <2>1
  <2>5. RollbackSet(t, n)' = {}
    BY <2>3, <2>4 DEF RollbackSet
  <2> QED BY <2>2, <2>5
<1>12. UNCHANGED <<base, writes, commitAt, saved>>
  BY DEF Begin, ghosts, AppendLog
<1> QED BY <1>1, <1>4, <1>5, <1>8, <1>9, <1>10, <1>11, <1>12

(* The start-up begins: it answers for what recovery would undo.           *)
LEMMA StartupStep ==
  ASSUME PoolInv, CleanSame, Startup
  PROVE  /\ Others(Sys) /\ PoolFrame /\ Changes(Sys)' = Changes(Sys)
         /\ LogKept /\ Len(log') = Len(log) + 1 /\ log'[Len(log) + 1].op = "start"
         /\ saved' = saved /\ base' = base /\ writes' = writes /\ commitAt' = commitAt
         /\ pc[Sys] = "idle" /\ op[Sys] = "none" /\ saved = Len(log)
         /\ \/ pc'[Sys] = "iterate" /\ op'[Sys] = "recover"
            \/ pc'[Sys] = "flush" /\ op'[Sys] = "commit" /\ Changes(Sys) = {}
<1>0. Clients \subseteq Slots /\ Sys \in Slots /\ Sys \notin Clients
  BY TxAssumption DEF Slots
<1>t. ThreadTypes /\ RestTypes /\ LogTypes /\ Len(log) \in Nat /\ TypeOK
  BY TypesAre DEF PoolInv, LogTypes
<1>i. Threads
  BY DEF PoolInv
<1> USE DEF ThreadTypes, RestTypes
<1>1. PoolFrame
  BY FrameSame DEF Startup, pool
<1>2. OthersKeep(Sys)
  BY <1>0, <1>t DEF Startup, Goto, OthersKeep, ghosts
<1>3. PICK r : r = Record("start", 1)
  OBVIOUS
<1>4. AppendLog(r) /\ r.op = "start" /\ r.tx = 1 /\ r \in Records
  BY <1>3, <1>t, TxAssumption DEF Startup, Record, Records
<1>5. LogKept /\ Len(log') = Len(log) + 1 /\ log'[Len(log) + 1] = r
  BY <1>4, <1>t, AppendKeeps
<1>6. \A u \in Slots : u # Sys => Outside(pc[u])
  BY <1>0, <1>i DEF Threads, StartUps, Startup, Outside, Slots
<1>7. Others(Sys)
  BY <1>0, <1>2, <1>4, <1>5, <1>6, OthersStill
<1>8. /\ pc[Sys] = "idle" /\ op[Sys] = "none" /\ started = "no" /\ saved = Len(log)
      /\ isNew => log = <<>>
  BY <1>0, <1>i, <1>t DEF Startup, Threads, StartUps, Calls
<1>9. /\ started' = "doing"
      /\ IF isNew THEN op'[Sys] = "commit" /\ pc'[Sys] = "flush"
                  ELSE op'[Sys] = "recover" /\ pc'[Sys] = "iterate"
  BY <1>0, <1>t DEF Startup, Goto
<1>10. Changes(Sys) = RecoverSet(Len(log))
  BY <1>8 DEF Changes, Recovering, RecoverTop
<1>11. CASE isNew
  <2>1. Changes(Sys) = {}
    BY <1>8, <1>10, <1>11 DEF RecoverSet
  <2>2. Changes(Sys)' = {}
    BY <1>9, <1>11 DEF Changes, Recovering
  <2>3. UNCHANGED <<base, writes, commitAt, saved>>
    BY DEF Startup, ghosts, AppendLog
  <2> QED BY <1>1, <1>4, <1>5, <1>7, <1>8, <1>9, <1>11, <2>1, <2>2, <2>3
<1>12. CASE ~isNew
  <2>1. PICK n : n = Len(log) + 1
    OBVIOUS
  <2>2. Changes(Sys)' = RecoverSet(n)'
    BY <1>5, <1>9, <1>12, <2>1 DEF Changes, Recovering, RecoverTop, RecoverSet
  <2>3. RecoverSet(n)' = RecoverSet(Len(log))
    BY <1>4, <1>t, <2>1, RecoverAppend
  <2>4. UNCHANGED <<base, writes, commitAt, saved>>
    BY DEF Startup, ghosts, AppendLog
  <2> QED BY <1>1, <1>4, <1>5, <1>7, <1>8, <1>9, <1>10, <1>12, <2>2, <2>3, <2>4
<1> QED BY <1>11, <1>12

(* An iterator is made: all there is to undo has been saved, and is known. *)
LEMMA IterateStep ==
  ASSUME PoolInv, CleanSame, Honest, NEW s \in Slots, Iterate(s)
  PROVE  /\ Others(s) /\ PoolFrame /\ Changes(s)' = Changes(s)
         /\ log' = log /\ saved' = Len(log) /\ saved <= saved'
         /\ base' = base /\ writes' = writes /\ commitAt' = commitAt
         /\ pc[s] = "iterating" /\ pc'[s] = "undo" /\ op'[s] = op[s] /\ num'[s] = num[s]
         /\ pos'[s] = Len(log) /\ top'[s] = Len(log)
         /\ op[s] \in {"rollback", "recover"}
         /\ Going(s)' = Changes(s)
<1>0. Clients \subseteq Slots /\ Sys \in Slots /\ Sys \notin Clients
  BY TxAssumption DEF Slots
<1>t. ThreadTypes /\ RestTypes /\ LogTypes /\ Len(log) \in Nat /\ TypeOK
  BY TypesAre DEF PoolInv, LogTypes
<1>i. Threads
  BY DEF PoolInv
<1> USE DEF ThreadTypes, RestTypes
<1>1. PoolFrame
  BY FrameSame DEF Iterate, pool
<1>2. OthersKeep(s)
  BY <1>0, <1>t DEF Iterate, Goto, OthersKeep, ghosts
<1>3. /\ pc[s] = "iterating" /\ pc'[s] = "undo" /\ op'[s] = op[s] /\ num'[s] = num[s]
      /\ pos'[s] = Len(log) /\ top'[s] = Len(log)
      /\ log' = log /\ saved' = Len(log) /\ saved <= saved'
      /\ UNCHANGED <<base, writes, commitAt, started>>
  BY <1>t DEF Iterate, Goto, ghosts, sysv, LogTypes, Honest
<1>4. op[s] \in {"rollback", "recover"} /\ (s # Sys => op[s] = "rollback") /\ (s = Sys => op[s] = "recover")
  BY <1>0, <1>i, <1>3 DEF Threads, Calls, Slots
<1>5. LogKept
  BY <1>3, <1>t DEF LogKept
<1>6. s # Sys => started = "done" /\ op[Sys] = "none"
  BY <1>3, NoRecovery DEF Slots
<1>7. Others(s)
  BY <1>2, <1>3, <1>5, <1>6, OthersStill
<1>8. CASE s = Sys
  <2>1. Changes(s) = RecoverSet(Len(log))
    BY <1>3, <1>4, <1>8 DEF Changes, Recovering, RecoverTop
  <2>2. Changes(s)' = RecoverSet(Len(log))
    BY <1>3, <1>4, <1>8 DEF Changes, Recovering, RecoverTop, RecoverSet
  <2>3. Going(s)' = RecoverSet(Len(log))
    BY <1>3, <1>4, <1>8 DEF Going, RecoverSet
  <2> QED BY <1>1, <1>3, <1>4, <1>7, <2>1, <2>2, <2>3
<1>9. CASE s # Sys
  <2>1. Changes(s) = RollbackSet(num[s], Len(log))
    BY <1>3, <1>9 DEF Changes
  <2>2. Changes(s)' = RollbackSet(num[s], Len(log))
    BY <1>3, <1>9 DEF Changes, RollbackSet
  <2>3. Going(s)' = RollbackSet(num[s], Len(log))
    BY <1>3, <1>4, <1>9 DEF Going, RollbackSet
  <2> QED BY <1>1, <1>3, <1>4, <1>7, <2>1, <2>2, <2>3
<1> QED BY <1>8, <1>9

(* A write: one more change, on a block that no other thread has changed.  *)
LEMMA SetStep ==
  ASSUME PoolInv, PoolInv', CleanSame, LocksHeld,
         NEW s \in Clients, NEW b \in Blocks, NEW v \in Values, set_int(s, b, v)
  PROVE  /\ Others(s) /\ Changes(s)' = Changes(s) \cup {Len(log) + 1}
         /\ LogKept /\ Len(log') = Len(log) + 1
         /\ log'[Len(log) + 1] = SetRecord(num[s], b, Current(b))
         /\ saved' = saved /\ base' = base /\ commitAt' = commitAt
         /\ writes' = [writes EXCEPT ![s][b] = v]
         /\ pc[s] = "active" /\ pc'[s] = "active" /\ op'[s] = op[s]
         /\ Current(b)' = v /\ \A c \in Blocks : c # b => Current(c)' = Current(c)
         /\ CleanSame' /\ disk' = disk
         /\ \E i \in Buffs : /\ \A j \in Buffs : j # i => buf'[j] = buf[j]
                             /\ buf'[i].blk = b /\ buf'[i].tx = num[s] /\ buf'[i].lsn = Len(log) + 1
         /\ num'[s] = num[s]
         /\ \A u \in Slots : u # s => ChangesOn(u, b) = {}
         /\ locks' = [locks EXCEPT ![s][b] = "X"] /\ Compatible(s, b, "X")
<1>0. Clients \subseteq Slots /\ Sys \in Slots /\ s # Sys /\ s \in Slots
  BY TxAssumption DEF Slots
<1>t. ThreadTypes /\ RestTypes /\ LogTypes /\ Len(log) \in Nat /\ TypeOK
  BY TypesAre DEF PoolInv, LogTypes
<1>i. Threads
  BY DEF PoolInv
<1> USE DEF ThreadTypes, RestTypes
<1>e. PICK i \in Buffs : /\ i = Target(b)
                         /\ \A j \in Buffs : j # i => buf'[j] = buf[j]
                         /\ buf[i].blk = b /\ buf'[i].blk = b
                         /\ buf'[i].val = v /\ buf'[i].tx = num[s] /\ buf'[i].lsn = Len(log) + 1
  BY SetEffect
<1>3. PICK r : r = SetRecord(num[s], b, buf[i].val)
  OBVIOUS
<1>4. AppendLog(r) /\ r.op = "setint" /\ r.tx = num[s]
  BY <1>3, <1>e DEF set_int, SetRecord
<1>5. LogKept /\ Len(log') = Len(log) + 1 /\ log'[Len(log) + 1] = r
  BY <1>4, <1>t, AppendKeeps
<1>6. r = SetRecord(num[s], b, Current(b))
  BY <1>3, <1>e, CurrentIs
<1>1. /\ Current(b)' = v /\ \A c \in Blocks : c # b => Current(c)' = Current(c)
      /\ CleanSame'
  <2>1. disk' = disk /\ num[s] \in Nat
    BY <1>0, <1>t DEF set_int
  <2> QED BY <1>e, <2>1, FrameChange
<1>2. OthersKeep(s)
  BY <1>0, <1>t DEF set_int, OthersKeep, tx
<1>7. /\ pc[s] = "active" /\ UNCHANGED <<pc, op, num, started, saved, base, commitAt, disk>>
      /\ writes' = [writes EXCEPT ![s][b] = v]
      /\ locks' = [locks EXCEPT ![s][b] = "X"] /\ Compatible(s, b, "X")
  BY DEF set_int, tx, sysv, AppendLog
<1>8. started = "done" /\ op[Sys] = "none" /\ Changes(Sys) = {}
  BY <1>7, NoRecovery
<1>9. \A u \in Slots : u # s => r.tx # num[u]
  BY <1>0, <1>4, <1>7, <1>i DEF Threads, Numbers
<1>10. Others(s)
  BY <1>0, <1>2, <1>4, <1>5, <1>7, <1>8, <1>9, OthersStill
<1>11. Changes(s)' = Changes(s) \cup {Len(log) + 1}
  <2>1. PICK t, n : t = num[s] /\ n = Len(log) + 1
    OBVIOUS
  <2>2. Changes(s)' = RollbackSet(t, n)'
    BY <1>0, <1>5, <1>7, <2>1 DEF Changes, RollbackSet
  <2>3. Changes(s) = RollbackSet(t, Len(log))
    BY <1>0, <1>7, <2>1 DEF Changes
  <2>4. RollbackSet(t, n)' = RollbackSet(t, Len(log)) \cup {n}
    BY <1>4, <1>t, <2>1, RollbackAppend
  <2> QED BY <2>1, <2>2, <2>3, <2>4
<1>12. ASSUME NEW u \in Slots, u # s PROVE ChangesOn(u, b) = {}
  <2>1. CASE u = Sys
    BY <1>8, <2>1 DEF ChangesOn
  <2>2. CASE u # Sys
    <3>1. locks[u][b] # "X"
      BY <1>7, <1>12 DEF Compatible
    <3> QED BY <2>2, <3>1 DEF LocksHeld, ChangesOn, Slots
  <2> QED BY <2>1, <2>2
<1> QED BY <1>1, <1>5, <1>6, <1>7, <1>10, <1>11, <1>12, <1>e

(* A write is undone: the block shows the value it had before.             *)
LEMMA UndoStep ==
  ASSUME PoolInv, PoolInv', CleanSame, UndoKnown, NEW s \in Slots, Undo(s)
  PROVE  \E p \in Changes(s) : \E b \in Blocks :
         /\ b = log[p].blk /\ p <= pos[s] /\ \A q \in Changes(s) : q <= pos[s] => q <= p
         /\ Others(s) /\ Changes(s)' = Changes(s)
         /\ log' = log /\ saved' = saved
         /\ base' = base /\ writes' = writes /\ commitAt' = commitAt
         /\ pc[s] = "restore" /\ pc'[s] = "undo" /\ op'[s] = op[s] /\ num'[s] = num[s]
         /\ pos'[s] = p - 1 /\ top'[s] = top[s]
         /\ Current(b)' = log[p].val /\ \A c \in Blocks : c # b => Current(c)' = Current(c)
         /\ CleanSame' /\ disk' = disk
         /\ \E i \in Buffs : /\ \A j \in Buffs : j # i => buf'[j] = buf[j]
                             /\ buf'[i].blk = b /\ buf'[i].tx = num[s] /\ buf'[i].lsn = buf[i].lsn
         /\ locks' = [locks EXCEPT ![s][b] = "X"]
<1>0. Clients \subseteq Slots /\ Sys \in Slots /\ Sys \notin Clients
  BY TxAssumption DEF Slots
<1>t. ThreadTypes /\ RestTypes /\ LogTypes /\ Len(log) \in Nat /\ TypeOK
  BY TypesAre DEF PoolInv, LogTypes
<1>i. Threads
  BY DEF PoolInv
<1> USE DEF ThreadTypes, RestTypes
<1>b. PICK b : b = UndoBlock(s)
  OBVIOUS
<1>p. PICK p : p = Max(ToUndo(s))
  OBVIOUS
<1>3. /\ pc[s] = "restore" /\ pc'[s] = "undo" /\ op'[s] = op[s] /\ num'[s] = num[s]
      /\ pos'[s] = p - 1 /\ top'[s] = top[s]
      /\ log' = log /\ saved' = saved
      /\ UNCHANGED <<base, writes, commitAt, started, disk>>
      /\ locks' = [locks EXCEPT ![s][b] = "X"]
  BY <1>t, <1>b, <1>p DEF Undo, Goto, logv, ghosts, sysv
<1>4. ToUndo(s) # {} /\ top[s] <= Len(log)
  BY <1>3, <1>i DEF Threads, Iterators
<1>5. p \in ToUndo(s) /\ \A q \in ToUndo(s) : q <= p
  BY <1>4, <1>p, <1>t, UndoIs
<1>6. ToUndo(s) = {q \in Changes(s) : q <= pos[s]}
  BY <1>3 DEF UndoKnown, ToUndo, Going
<1>7. p \in Changes(s) /\ p <= pos[s] /\ \A q \in Changes(s) : q <= pos[s] => q <= p
  BY <1>5, <1>6
<1>8. b = log[p].blk
  BY <1>b, <1>p DEF UndoBlock
<1>e. PICK i \in Buffs : /\ b \in Blocks
                         /\ \A j \in Buffs : j # i => buf'[j] = buf[j]
                         /\ buf[i].blk = b /\ buf'[i].blk = b
                         /\ buf'[i].val = log[p].val /\ buf'[i].tx = num[s] /\ buf'[i].lsn = buf[i].lsn
  BY <1>b, <1>p, UndoEffect
<1>1. /\ Current(b)' = log[p].val /\ \A c \in Blocks : c # b => Current(c)' = Current(c)
      /\ CleanSame'
  <2>1. num[s] \in Nat
    BY <1>t
  <2> QED BY <1>e, <1>3, <2>1, FrameChange
<1>2. OthersKeep(s)
  BY <1>0, <1>t DEF Undo, Goto, OthersKeep, ghosts
<1>9. LogKept
  BY <1>3, <1>t DEF LogKept
<1>10. s # Sys => started = "done" /\ op[Sys] = "none"
  BY <1>3, NoRecovery DEF Slots
<1>11. Others(s)
  BY <1>2, <1>3, <1>9, <1>10, OthersStill
<1>12. Changes(s)' = Changes(s)
  <2>1. CASE s = Sys
    <3>1. (Recovering' <=> Recovering) /\ RecoverTop' = RecoverTop
      BY <1>3, <2>1 DEF Recovering, RecoverTop
    <3> QED BY <1>9, <2>1, <3>1, SysChanges
  <2>2. CASE s # Sys
    <3>1. s \in Clients /\ (Outside(pc'[s]) <=> Outside(pc[s]))
      BY <1>3, <2>2 DEF Outside, Slots
    <3> QED BY <1>3, <3>1, ClientChanges
  <2> QED BY <2>1, <2>2
<1> QED BY <1>1, <1>3, <1>7, <1>8, <1>11, <1>12, <1>e

(* The last record of a commit, a rollback or a recovery is added.         *)
LEMMA WriteRecordStep ==
  ASSUME PoolInv, CleanSame, NEW s \in Slots, WriteRecord(s)
  PROVE  /\ Others(s) /\ PoolFrame /\ Changes(s)' = Changes(s)
         /\ LogKept /\ Len(log') = Len(log) + 1
         /\ log'[Len(log) + 1].op = (IF op[s] = "recover" THEN "checkpoint" ELSE op[s])
         /\ op[s] # "recover" => log'[Len(log) + 1].tx = num[s]
         /\ saved' = saved /\ base' = base /\ writes' = writes
         /\ commitAt'[s] = (IF op[s] = "commit" THEN Len(log) + 1 ELSE 0)
         /\ pc[s] = "record" /\ pc'[s] = "force" /\ op'[s] = op[s] /\ num'[s] = num[s]
         /\ op[s] \in {"commit", "rollback", "recover"}
         /\ s # Sys => op[s] # "recover"
<1>0. Clients \subseteq Slots /\ Sys \in Slots /\ Sys \notin Clients
  BY TxAssumption DEF Slots
<1>t. ThreadTypes /\ RestTypes /\ LogTypes /\ Len(log) \in Nat /\ TypeOK
  BY TypesAre DEF PoolInv, LogTypes
<1>i. Threads
  BY DEF PoolInv
<1> USE DEF ThreadTypes, RestTypes
<1>1. PoolFrame
  BY FrameSame DEF WriteRecord, pool
<1>2. OthersKeep(s)
  BY <1>0, <1>t DEF WriteRecord, Goto, OthersKeep
<1>3. PICK r : r = IF op[s] = "recover" THEN Record("checkpoint", -1) ELSE Record(op[s], num[s])
  OBVIOUS
<1>p. pc[s] = "record"
  BY DEF WriteRecord
<1>o. op[s] \in {"commit", "rollback", "recover"} /\ (s # Sys => op[s] # "recover")
  BY <1>0, <1>t, <1>i, <1>p DEF Threads, Calls, Slots
<1>4. /\ AppendLog(r) /\ r.op = (IF op[s] = "recover" THEN "checkpoint" ELSE op[s])
      /\ op[s] # "recover" => r.tx = num[s]
  BY <1>3 DEF WriteRecord, Record
<1>5. LogKept /\ Len(log') = Len(log) + 1 /\ log'[Len(log) + 1] = r
  BY <1>4, <1>t, AppendKeeps
<1>6. r.op \notin {"start", "setint"}
  BY <1>4, <1>o
<1>7. /\ pc'[s] = "force" /\ op'[s] = op[s] /\ num'[s] = num[s]
      /\ commitAt'[s] = (IF op[s] = "commit" THEN Len(log) + 1 ELSE 0)
      /\ UNCHANGED <<base, writes, saved, started, top>>
  BY <1>5, <1>t DEF WriteRecord, Goto, sysv, AppendLog
<1>8. s # Sys => started = "done" /\ op[Sys] = "none"
  BY <1>p, NoRecovery DEF Slots
<1>9. Others(s)
  BY <1>2, <1>4, <1>5, <1>6, <1>7, <1>8, OthersStill
<1>10. Changes(s)' = Changes(s)
  <2>1. CASE s = Sys
    <3>1. (Recovering' <=> Recovering) /\ RecoverTop' = RecoverTop
      BY <1>p, <1>7, <2>1 DEF Recovering, RecoverTop
    <3> QED BY <1>5, <2>1, <3>1, SysChanges
  <2>2. CASE s # Sys
    <3>1. s \in Clients /\ (Outside(pc'[s]) <=> Outside(pc[s]))
      BY <1>p, <1>7, <2>2 DEF Outside, Slots
    <3> QED BY <1>4, <1>6, <1>7, <3>1, ClientChanges
  <2> QED BY <2>1, <2>2
<1> QED BY <1>1, <1>4, <1>5, <1>7, <1>9, <1>10, <1>p, <1>o

(* It is saved: recovery lets go of its changes.                           *)
LEMMA FlushRecordStep ==
  ASSUME PoolInv, CleanSame, Honest, NEW s \in Slots, FlushRecord(s)
  PROVE  /\ Others(s) /\ PoolFrame
         /\ Changes(s)' = IF op[s] = "recover" THEN {} ELSE Changes(s)
         /\ log' = log /\ saved <= saved'
         /\ base' = base /\ writes' = writes /\ commitAt' = commitAt
         /\ disk' = disk /\ pc[s] = "force" /\ num'[s] = num[s]
         /\ IF op[s] = "recover" THEN s = Sys /\ op'[s] = "commit" /\ pc'[s] = "flush"
            ELSE op'[s] = op[s] /\ pc'[s] = "release"
         /\ \A q \in 1 .. Len(log) : FinishRec(s, q) => q <= saved'
<1>0. Clients \subseteq Slots /\ Sys \in Slots /\ Sys \notin Clients
  BY TxAssumption DEF Slots
<1>t. ThreadTypes /\ RestTypes /\ LogTypes /\ Len(log) \in Nat /\ TypeOK
  BY TypesAre DEF PoolInv, LogTypes
<1>i. Threads
  BY DEF PoolInv
<1> USE DEF ThreadTypes, RestTypes
<1>1. PoolFrame
  BY FrameSame DEF FlushRecord, pool
<1>2. OthersKeep(s)
  BY <1>0, <1>t DEF FlushRecord, Goto, OthersKeep, ghosts
<1>3. /\ pc[s] = "force" /\ num'[s] = num[s] /\ log' = log /\ saved <= saved'
      /\ UNCHANGED <<base, writes, commitAt, started, top>>
      /\ IF op[s] = "recover" THEN op'[s] = "commit" /\ pc'[s] = "flush"
         ELSE op'[s] = op[s] /\ pc'[s] = "release"
  BY <1>t DEF FlushRecord, FlushLog, Goto, ghosts, sysv, LogTypes
<1>d. disk' = disk
  BY DEF FlushRecord, pool
<1>4. op[s] = "recover" => s = Sys
  BY <1>0, <1>i DEF Threads, Calls, Slots
<1>5. LogKept
  BY <1>3, <1>t DEF LogKept
<1>6. s # Sys => started = "done" /\ op[Sys] = "none"
  BY <1>3, NoRecovery DEF Slots
<1>7. Others(s)
  BY <1>2, <1>3, <1>5, <1>6, OthersStill
<1>8. Changes(s)' = IF op[s] = "recover" THEN {} ELSE Changes(s)
  <2>1. CASE s = Sys
    <3>1. started = "doing"
      BY <1>3, <1>i, <2>1 DEF Threads, StartUps
    <3>2. ~Recovering'
      BY <1>3, <2>1, <3>1 DEF Recovering
    <3>3. op[s] # "recover" => ~Recovering
      BY <2>1, <3>1 DEF Recovering
    <3> QED BY <2>1, <3>2, <3>3 DEF Changes
  <2>2. CASE s # Sys
    <3>1. s \in Clients /\ op[s] # "recover" /\ (Outside(pc'[s]) <=> Outside(pc[s]))
      BY <1>3, <1>4, <2>2 DEF Outside, Slots
    <3> QED BY <1>3, <3>1, ClientChanges
  <2> QED BY <2>1, <2>2
<1>9. ASSUME NEW q \in 1 .. Len(log), FinishRec(s, q) PROVE q <= saved'
  <2>1. PICK F : F = {p \in 1 .. Len(log) : \/ op[s] = "recover" /\ log[p].op = "checkpoint"
                                            \/ log[p].op = op[s] /\ log[p].tx = num[s]}
    OBVIOUS
  <2>2. q \in F
    BY <1>9, <2>1 DEF FinishRec
  <2>c. F \subseteq 1 .. Len(log)
    BY <2>1
  <2>3. F \subseteq 0 .. Len(log) /\ F # {}
    BY <1>t, <2>2, <2>c
  <2>4. PICK m : m = RecordAt(s)
    OBVIOUS
  <2>5. m = Max(F)
    BY <2>1, <2>4 DEF RecordAt
  <2>6. m \in F /\ \A y \in F : m >= y
    BY <1>t, <2>3, <2>5, MaxIn
  <2>7. q <= m /\ m <= Len(log) /\ m \in Nat /\ q \in Nat
    BY <1>t, <2>2, <2>3, <2>6
  <2>8. saved' = IF m >= promised THEN Len(log) ELSE saved
    BY <2>4 DEF FlushRecord, FlushLog
  <2> QED BY <1>t, <2>7, <2>8 DEF LogTypes, Honest
<1> QED BY <1>1, <1>3, <1>4, <1>7, <1>8, <1>9, <1>d

(* The locks go: the transaction's writes are final, or forgotten.         *)
LEMMA ReleaseStep ==
  ASSUME PoolInv, CleanSame, NEW s \in Slots, Release(s)
  PROVE  /\ Others(s) /\ PoolFrame /\ Changes(s)' = {}
         /\ log' = log /\ saved' = saved /\ disk' = disk
         /\ base' = (IF op[s] = "commit" THEN Overlay(base, {s}) ELSE base)
         /\ writes' = [writes EXCEPT ![s] = Nothing]
         /\ commitAt' = [commitAt EXCEPT ![s] = 0]
         /\ locks' = [locks EXCEPT ![s] = NoLocks]
         /\ pc[s] = "release" /\ pc'[s] = "unpin_all" /\ op'[s] = op[s] /\ num'[s] = num[s]
         /\ op[s] \in {"commit", "rollback"} /\ (s = Sys => Changes(s) = {} /\ op[s] = "commit")
<1>0. Clients \subseteq Slots /\ Sys \in Slots /\ Sys \notin Clients
  BY TxAssumption DEF Slots
<1>t. ThreadTypes /\ RestTypes /\ LogTypes /\ Len(log) \in Nat /\ TypeOK
  BY TypesAre DEF PoolInv, LogTypes
<1>i. Threads
  BY DEF PoolInv
<1> USE DEF ThreadTypes, RestTypes
<1>1. PoolFrame
  BY FrameSame DEF Release, pool
<1>2. OthersKeep(s)
  BY <1>0, <1>t DEF Release, Goto, OthersKeep
<1>3. /\ pc[s] = "release" /\ pc'[s] = "unpin_all" /\ op'[s] = op[s] /\ num'[s] = num[s]
      /\ log' = log /\ saved' = saved
      /\ base' = (IF op[s] = "commit" THEN Overlay(base, {s}) ELSE base)
      /\ writes' = [writes EXCEPT ![s] = Nothing]
      /\ commitAt' = [commitAt EXCEPT ![s] = 0]
      /\ locks' = [locks EXCEPT ![s] = NoLocks]
      /\ UNCHANGED <<started, top>>
  BY <1>t DEF Release, Goto, logv, sysv
<1>d. disk' = disk
  BY DEF Release, pool
<1>4. op[s] \in {"commit", "rollback"} /\ (s = Sys => op[s] = "commit")
  BY <1>0, <1>i, <1>3 DEF Threads, Calls
<1>5. LogKept
  BY <1>3, <1>t DEF LogKept
<1>6. s # Sys => started = "done" /\ op[Sys] = "none"
  BY <1>3, NoRecovery DEF Slots
<1>7. Others(s)
  BY <1>2, <1>3, <1>5, <1>6, OthersStill
<1>8. Changes(s)' = {} /\ (s = Sys => Changes(s) = {})
  <2>1. CASE s = Sys
    <3>1. ~Recovering /\ ~Recovering'
      BY <1>3, <1>4, <1>i, <2>1 DEF Recovering, Threads, StartUps
    <3> QED BY <2>1, <3>1 DEF Changes
  <2>2. CASE s # Sys
    BY <1>3, <2>2 DEF Changes
  <2> QED BY <2>1, <2>2
<1> QED BY <1>1, <1>3, <1>4, <1>7, <1>8, <1>d

(* Every step but a crash is one of these.                                 *)
LEMMA KindsOfSteps ==
  ASSUME PoolInv, PoolInv', CleanSame, Honest, [Next]_vars, ~Crash
  PROVE  \/ \E s \in Slots : Quiet(s)
         \/ \E s \in Clients : Begin(s)
         \/ \E s \in Clients : \E b \in Blocks : \E v \in Values : set_int(s, b, v)
         \/ Startup
         \/ \E s \in Slots : Iterate(s)
         \/ \E s \in Slots : Undo(s)
         \/ \E s \in Slots : WriteRecord(s)
         \/ \E s \in Slots : FlushRecord(s)
         \/ \E s \in Slots : Release(s)
<1>0. Clients \subseteq Slots /\ Sys \in Slots /\ Sys \notin Clients
  BY TxAssumption DEF Slots
<1>1. CASE UNCHANGED vars
  <2>1. PoolFrame
    BY <1>1, FrameSame DEF vars, pool
  <2>2. OthersKeep(Sys) /\ Moves(Sys)
    BY <1>1 DEF vars, tx, ghosts, OthersKeep, Moves
  <2>3. UNCHANGED <<log, saved, base, writes, commitAt, locks, num, pos, top, started, pc>>
    BY <1>1 DEF vars, tx, ghosts, logv, sysv
  <2>4. saved <= saved'
    BY <2>3 DEF PoolInv, TypeOK
  <2>5. /\ pc[Sys] # "unpin_all" => num'[Sys] = num[Sys] /\ pos'[Sys] = pos[Sys] /\ top'[Sys] = top[Sys]
        /\ started' = IF Sys = Sys /\ pc[Sys] = "unpin_all" /\ pc'[Sys] = "idle" THEN "done" ELSE started
    BY <2>3
  <2>6. Quiet(Sys)
    BY <1>0, <2>1, <2>2, <2>3, <2>4, <2>5, QuietIf
  <2> QED BY <1>0, <2>6
<1>2. CASE Next
  <2>1. CASE append_saves \/ AtBounds
    BY <1>0, <2>1, QuietSteps
  <2>2. ASSUME NEW s \in Clients, Begin(s) \/ PinDone(s) \/ PinThrows(s) \/ CallCommit(s) \/ CallRollback(s)
        PROVE  Begin(s) \/ Quiet(s)
    BY <2>2, QuietSteps
  <2>3. ASSUME NEW s \in Clients, NEW b \in Blocks, CallPin(s, b) \/ unpin(s, b) \/ get_int(s, b)
        PROVE  Quiet(s)
    BY <2>3, QuietSteps
  <2>4. ASSUME NEW s \in Slots, NEW i \in Buffs, StartWrite(s, i) /\ FlushesFor(s, i)
        PROVE  Quiet(s)
    BY <2>4, QuietSteps
  <2>5. ASSUME NEW s \in Slots, pc[s] \in {"pin", "undo", "flush"} /\ EndWrite(s)
        PROVE  Quiet(s)
    BY <2>5, QuietSteps
  <2>6. ASSUME NEW s \in Slots, UndoPins(s) \/ UndoThrows(s) \/ UndoEnds(s) \/ FlushEnds(s) \/ UnpinAll(s)
        PROVE  Quiet(s)
    BY <2>6, QuietSteps
  <2>7. ASSUME NEW s \in Slots, iterator(s) PROVE Quiet(s)
    BY <2>7, QuietSteps
  <2> QED BY <1>0, <1>2, <2>1, <2>2, <2>3, <2>4, <2>5, <2>6, <2>7, StepsAre
<1> QED BY <1>1, <1>2

-----------------------------------------------------------------------------
(* Every step but a crash keeps the invariant: the log.                    *)

(* Invariants, and the next state's pool.                                  *)
TxStep == TxInv /\ PoolInv' /\ [Next]_vars /\ ~Crash

(* The log only grows, and what is saved stays saved.                      *)
LEMMA StepKeeps ==
  ASSUME TxStep
  PROVE  /\ LogKept /\ saved <= saved' /\ CleanSame'
         /\ log \in Seq(Records) /\ Len(log) \in Nat /\ Len(log') \in Nat
         /\ saved \in 0 .. Len(log) /\ saved' \in 0 .. Len(log')
         /\ \/ log' = log
            \/ Len(log') = Len(log) + 1
<1> USE DEF TxStep, TxInv
<1>0. /\ log \in Seq(Records) /\ Len(log) \in Nat /\ Len(log') \in Nat
      /\ saved \in 0 .. Len(log) /\ saved' \in 0 .. Len(log')
  <2>1. LogTypes /\ LogTypes'
    BY TypesAre DEF PoolInv
  <2> QED BY <2>1 DEF LogTypes
<1>c. CleanSame /\ UndoKnown /\ Honest
  BY DEF ValuesInv, LogInv
<1>k. log' = log => LogKept
  BY <1>0 DEF LogKept
<1>1. ASSUME NEW s \in Slots, Quiet(s) PROVE LogKept /\ saved <= saved' /\ CleanSame' /\ log' = log
  BY <1>1, <1>k DEF Quiet, PoolFrame
<1>2. ASSUME NEW s \in Clients, Begin(s)
      PROVE  LogKept /\ saved <= saved' /\ CleanSame' /\ Len(log') = Len(log) + 1
  BY <1>0, <1>2, <1>c, BeginStep DEF PoolFrame
<1>3. ASSUME NEW s \in Clients, NEW b \in Blocks, NEW v \in Values, set_int(s, b, v)
      PROVE  LogKept /\ saved <= saved' /\ CleanSame' /\ Len(log') = Len(log) + 1
  BY <1>0, <1>3, <1>c, SetStep
<1>4. ASSUME Startup PROVE LogKept /\ saved <= saved' /\ CleanSame' /\ Len(log') = Len(log) + 1
  BY <1>0, <1>4, <1>c, StartupStep DEF PoolFrame
<1>5. ASSUME NEW s \in Slots, Iterate(s) PROVE LogKept /\ saved <= saved' /\ CleanSame' /\ log' = log
  BY <1>5, <1>c, <1>k, IterateStep DEF PoolFrame
<1>6. ASSUME NEW s \in Slots, Undo(s) PROVE LogKept /\ saved <= saved' /\ CleanSame' /\ log' = log
  BY <1>0, <1>6, <1>c, <1>k, UndoStep
<1>7. ASSUME NEW s \in Slots, WriteRecord(s)
      PROVE  LogKept /\ saved <= saved' /\ CleanSame' /\ Len(log') = Len(log) + 1
  BY <1>0, <1>7, <1>c, WriteRecordStep DEF PoolFrame
<1>8. ASSUME NEW s \in Slots, FlushRecord(s) PROVE LogKept /\ saved <= saved' /\ CleanSame' /\ log' = log
  BY <1>8, <1>c, <1>k, FlushRecordStep DEF PoolFrame
<1>9. ASSUME NEW s \in Slots, Release(s) PROVE LogKept /\ saved <= saved' /\ CleanSame' /\ log' = log
  <2>1. PoolFrame /\ log' = log /\ saved' = saved
    BY <1>9, <1>c, ReleaseStep
  <2> QED BY <1>0, <1>k, <2>1 DEF PoolFrame
<1> QED
  BY <1>0, <1>1, <1>2, <1>3, <1>4, <1>5, <1>6, <1>7, <1>8, <1>9, <1>c, KindsOfSteps

(* A thread's changes are the same, or grow by the write it logs, or are   *)
(* let go of when its last record is saved.                                *)
LEMMA ChangesStep ==
  ASSUME TxStep, NEW u \in Slots
  PROVE  \/ Changes(u)' = Changes(u)
         \/ /\ \E b \in Blocks : \E v \in Values : set_int(u, b, v)
            /\ u \in Clients /\ Changes(u)' = Changes(u) \cup {Len(log) + 1}
         \/ /\ Release(u) \/ (FlushRecord(u) /\ op[u] = "recover")
            /\ Changes(u)' = {}
<1> USE DEF TxStep, TxInv
<1>0. Clients \subseteq Slots /\ Sys \in Slots /\ Sys \notin Clients
  BY TxAssumption DEF Slots
<1>c. CleanSame /\ UndoKnown /\ Honest
  BY DEF ValuesInv, LogInv
<1>s. ASSUME NEW s \in Slots, Others(s), Changes(s)' = Changes(s) PROVE Changes(u)' = Changes(u)
  BY <1>s DEF Others, Still
<1>1. ASSUME NEW s \in Slots, Quiet(s) PROVE Changes(u)' = Changes(u)
  BY <1>1, <1>s DEF Quiet
<1>2. ASSUME NEW s \in Clients, Begin(s) PROVE Changes(u)' = Changes(u)
  BY <1>0, <1>2, <1>c, <1>s, BeginStep
<1>3. ASSUME NEW s \in Clients, NEW b \in Blocks, NEW v \in Values, set_int(s, b, v)
      PROVE  Changes(u)' = Changes(u) \/ (u = s /\ Changes(u)' = Changes(u) \cup {Len(log) + 1})
  BY <1>0, <1>3, <1>c, SetStep DEF Others, Still
<1>4. ASSUME Startup PROVE Changes(u)' = Changes(u)
  BY <1>0, <1>4, <1>c, <1>s, StartupStep
<1>5. ASSUME NEW s \in Slots, Iterate(s) PROVE Changes(u)' = Changes(u)
  BY <1>5, <1>c, <1>s, IterateStep
<1>6. ASSUME NEW s \in Slots, Undo(s) PROVE Changes(u)' = Changes(u)
  BY <1>6, <1>c, <1>s, UndoStep
<1>7. ASSUME NEW s \in Slots, WriteRecord(s) PROVE Changes(u)' = Changes(u)
  BY <1>7, <1>c, <1>s, WriteRecordStep
<1>8. ASSUME NEW s \in Slots, FlushRecord(s)
      PROVE  Changes(u)' = Changes(u) \/ (u = s /\ op[u] = "recover" /\ Changes(u)' = {})
  BY <1>8, <1>c, FlushRecordStep DEF Others, Still
<1>9. ASSUME NEW s \in Slots, Release(s)
      PROVE  Changes(u)' = Changes(u) \/ (u = s /\ Changes(u)' = {})
  BY <1>9, <1>c, ReleaseStep DEF Others, Still
<1> QED
  BY <1>1, <1>2, <1>3, <1>4, <1>5, <1>6, <1>7, <1>8, <1>9, <1>c, KindsOfSteps

(* Records, and what they end, are as they were.                           *)
LEMMA EndsKept ==
  ASSUME LogKept, NEW p \in 1 .. Len(log), NEW q \in 1 .. Len(log)
  PROVE  log'[p] = log[p] /\ (Ends(q, p)' <=> Ends(q, p))
BY DEF LogKept, Ends

(* What is said to be saved is saved, if an iterator() is left alone from  *)
(* its write to the end of its call.                                       *)
LEMMA HonestStep ==
  ASSUME TxStep, [Next /\ Undisturbed]_vars
  PROVE  Honest'
<1> USE DEF TxStep, TxInv
<1>0. Clients \subseteq Slots /\ Sys \in Slots
  BY DEF Slots
<1>h. Honest
  BY DEF LogInv
<1>t. ThreadTypes /\ LogTypes /\ LogTypes' /\ Len(log) \in Nat
  BY TypesAre DEF PoolInv, LogTypes
<1>1. CASE UNCHANGED vars
  BY <1>h, <1>1 DEF vars, logv, tx, Honest
<1>2. CASE Next /\ Undisturbed
  <2> DEFINE NoneEnters == \A u \in Slots : pc'[u] = "iterating" => pc[u] = "iterating"
             Left == saved' = saved /\ promised' = promised
             Saved == saved' = Len(log) /\ promised' = Len(log)
  <2>p. ASSUME pc' = pc \/ \E s \in Slots : \E l : l # "iterating" /\ Goto(s, l) PROVE NoneEnters
    BY <1>t, <2>p DEF ThreadTypes, Goto
  <2>1. ASSUME Startup \/ (\E s \in Clients : Begin(s)) \/ (\E s \in Slots : WriteRecord(s))
        PROVE  Left /\ NoneEnters
    <3>1. Left
      BY <2>1 DEF Startup, Begin, WriteRecord, AppendLog
    <3>2. NoneEnters
      BY <1>0, <2>1, <2>p DEF Startup, Begin, WriteRecord
    <3> QED BY <3>1, <3>2
  <2>2. ASSUME append_saves \/ AtBounds PROVE (Left \/ Saved) /\ NoneEnters
    <3>1. CASE append_saves
      BY <2>p, <3>1 DEF append_saves, tx
    <3>2. CASE AtBounds
      BY <2>p, <3>2 DEF AtBounds, vars, logv, tx
    <3> QED BY <2>2, <3>1, <3>2
  <2>3. ASSUME NEW s \in Slots, NEW i \in Buffs, StartWrite(s, i) PROVE (Left \/ Saved) /\ NoneEnters
    BY <2>3, <2>p DEF StartWrite, FlushLog, tx
  <2>4. ASSUME NEW s \in Slots, FlushRecord(s) PROVE (Left \/ Saved) /\ NoneEnters
    <3>1. Left \/ Saved
      BY <2>4 DEF FlushRecord, FlushLog
    <3>2. NoneEnters
      BY <2>4, <2>p DEF FlushRecord
    <3> QED BY <3>1, <3>2
  <2>5. ASSUME NEW s \in Clients, PinDone(s) \/ PinThrows(s) \/ CallCommit(s) \/ CallRollback(s)
        PROVE  Left /\ NoneEnters
    <3>1. Left
      BY <2>5 DEF PinDone, PinThrows, CallCommit, CallRollback, logv
    <3>2. NoneEnters
      BY <1>0, <2>5, <2>p DEF PinDone, PinThrows, CallCommit, CallRollback
    <3> QED BY <3>1, <3>2
  <2>6. ASSUME NEW s \in Clients, NEW b \in Blocks, CallPin(s, b) \/ unpin(s, b) \/ get_int(s, b)
        PROVE  Left /\ NoneEnters
    <3>1. Left
      BY <2>6 DEF CallPin, unpin, get_int, logv
    <3>2. NoneEnters
      BY <1>0, <2>6, <2>p DEF CallPin, unpin, get_int, tx
    <3> QED BY <3>1, <3>2
  <2>7. ASSUME NEW s \in Clients, NEW b \in Blocks, NEW v \in Values, set_int(s, b, v)
        PROVE  Left /\ NoneEnters
    BY <2>7, <2>p DEF set_int, AppendLog, tx
  <2>8. ASSUME NEW s \in Slots,
               EndWrite(s) \/ UndoPins(s) \/ Undo(s) \/ UndoThrows(s) \/ UndoEnds(s)
               \/ FlushEnds(s) \/ Release(s) \/ UnpinAll(s)
        PROVE  Left /\ NoneEnters
    <3>1. Left
      BY <2>8 DEF EndWrite, UndoPins, Undo, UndoThrows, UndoEnds, FlushEnds, Release, UnpinAll, logv
    <3>2. NoneEnters
      BY <2>8, <2>p DEF EndWrite, UndoPins, Undo, UndoThrows, UndoEnds, FlushEnds, Release, UnpinAll, tx
    <3> QED BY <3>1, <3>2
  <2>9. ((Left \/ Saved) /\ NoneEnters) \/ \E s \in Slots : iterator(s) \/ Iterate(s)
    <3> HIDE DEF Left, Saved, NoneEnters
    <3>1. CASE \E s \in Slots : FlushRecord(s)
      BY <2>4, <3>1
    <3>2. CASE \E s \in Slots, i \in Buffs : StartWrite(s, i) /\ FlushesFor(s, i)
      BY <2>3, <3>2
    <3> QED BY <1>2, <2>1, <2>2, <2>5, <2>6, <2>7, <2>8, <3>1, <3>2, StepsAre
  <2>10. CASE (Left \/ Saved) /\ NoneEnters
    <3>1. promised' <= saved'
      BY <1>h, <1>t, <2>10 DEF Honest
    <3>2. ASSUME NEW u \in Slots, pc'[u] = "iterating" PROVE saved' = Len(log')
      <4>1. UNCHANGED logv
        BY <1>2, <2>10, <3>2 DEF Undisturbed
      <4> QED BY <1>h, <2>10, <3>2, <4>1 DEF Honest, logv
    <3> QED BY <3>1, <3>2 DEF Honest
  <2>11. ASSUME NEW s \in Slots, iterator(s) PROVE Honest'
    <3>1. saved' = Len(log) /\ log' = log /\ promised' = promised
      BY <2>11 DEF iterator
    <3> QED BY <1>t, <3>1 DEF Honest, LogTypes
  <2>12. ASSUME NEW s \in Slots, Iterate(s) PROVE Honest'
    <3>1. saved' = saved /\ log' = log /\ promised' = Len(log) /\ saved = Len(log)
      BY <1>h, <2>12 DEF Iterate, Honest
    <3> QED BY <1>t, <3>1 DEF Honest
  <2> QED BY <2>9, <2>10, <2>11, <2>12
<1> QED BY <1>1, <1>2

(* Recovery finds no change but those that somebody answers for.           *)
LEMMA AccountedStep ==
  ASSUME TxStep
  PROVE  Accounted'
<1> USE DEF TxStep, TxInv
<1>k. /\ LogKept /\ saved <= saved'
      /\ Len(log) \in Nat /\ Len(log') \in Nat /\ saved \in 0 .. Len(log) /\ saved' \in 0 .. Len(log')
  BY StepKeeps
<1>c. CleanSame /\ Honest /\ UndoKnown /\ Accounted /\ Finishing
  BY DEF ValuesInv, LogInv
<1>a. ASSUME NEW p \in Setints,
             \A u \in Slots : p \in Changes(u) =>
               p \in Changes(u)' \/ \E q \in p .. Len(log) : Ends(q, p) /\ q <= saved'
      PROVE  (\E u \in Slots : p \in Changes(u)') \/ (\E q \in p .. saved' : Ends(q, p)')
  <2>0. p \in 1 .. Len(log)
    BY DEF Setints
  <2>1. ASSUME NEW q \in p .. Len(log), Ends(q, p), q <= saved' PROVE \E r \in p .. saved' : Ends(r, p)'
    <3>1. q \in 1 .. Len(log) /\ q \in p .. saved'
      BY <1>k, <2>0, <2>1
    <3> QED BY <1>k, <2>0, <2>1, <3>1, EndsKept
  <2>2. CASE \E q \in p .. saved : Ends(q, p)
    <3>1. PICK q \in p .. saved : Ends(q, p)
      BY <2>2
    <3>2. q \in p .. Len(log) /\ q <= saved'
      BY <1>k, <2>0
    <3> QED BY <2>1, <3>1, <3>2
  <2>3. CASE \E u \in Slots : p \in Changes(u)
    BY <1>a, <2>1, <2>3
  <2> QED BY <1>c, <2>2, <2>3 DEF Accounted
<1>b. ASSUME NEW p \in Setints' PROVE p \in Setints \/ (log' # log /\ p = Len(log) + 1)
  <2>1. p \in 1 .. Len(log') /\ log'[p].op = "setint"
    BY DEF Setints
  <2>2. CASE p <= Len(log)
    <3>1. p \in 1 .. Len(log)
      BY <1>k, <2>1, <2>2
    <3> QED BY <1>k, <2>1, <3>1 DEF LogKept, Setints
  <2>3. CASE ~(p <= Len(log))
    <3>1. Len(log') = Len(log) + 1 \/ log' = log
      BY StepKeeps
    <3> QED BY <1>k, <2>1, <2>3, <3>1
  <2> QED BY <2>2, <2>3
<1>d. ASSUME NEW p \in Setints, NEW u \in Slots, p \in Changes(u)
      PROVE  p \in Changes(u)' \/ \E q \in p .. Len(log) : Ends(q, p) /\ q <= saved'
  <2>0. p \in 1 .. Len(log)
    BY DEF Setints
  <2>1. CASE Release(u)
    <3>1. pc[u] = "release" /\ saved' = saved
      BY <1>c, <2>1, ReleaseStep
    <3>2. PICK q \in 1 .. Len(log) : FinishRec(u, q) /\ q <= saved /\ \A r \in Changes(u) : r < q
      BY <1>c, <3>1 DEF Finishing
    <3>3. Ends(q, p)
      BY <1>d, <3>1, <3>2, FinishEndsAll
    <3>4. q \in p .. Len(log)
      BY <1>d, <1>k, <2>0, <3>2
    <3> QED BY <3>1, <3>2, <3>3, <3>4
  <2>2. CASE FlushRecord(u)
    <3>1. pc[u] = "force"
      BY <1>c, <2>2, FlushRecordStep
    <3>2. PICK q \in 1 .. Len(log) : FinishRec(u, q) /\ \A r \in Changes(u) : r < q
      BY <1>c, <3>1 DEF Finishing
    <3>3. Ends(q, p)
      BY <1>d, <3>1, <3>2, FinishEndsAll
    <3>4. q <= saved'
      BY <1>c, <2>2, <3>2, FlushRecordStep
    <3>5. q \in p .. Len(log)
      BY <1>d, <1>k, <2>0, <3>2
    <3> QED BY <3>3, <3>4, <3>5
  <2>3. CASE ~Release(u) /\ ~FlushRecord(u)
    BY <1>d, <2>3, ChangesStep
  <2> QED BY <2>1, <2>2, <2>3
<1>e. ASSUME NEW p \in Setints', log' # log, p = Len(log) + 1
      PROVE  \E u \in Slots : p \in Changes(u)'
  <2>0. log'[Len(log) + 1].op = "setint"
    BY <1>e DEF Setints
  <2>1. ASSUME NEW s \in Clients, NEW b \in Blocks, NEW v \in Values, set_int(s, b, v)
        PROVE  s \in Slots /\ p \in Changes(s)'
    BY <1>c, <1>e, <2>1, SetStep DEF Slots
  <2>2. ASSUME NEW s \in Slots, Quiet(s) PROVE FALSE
    BY <1>e, <2>2 DEF Quiet
  <2>3. ASSUME NEW s \in Clients, Begin(s) PROVE FALSE
    BY <1>c, <2>0, <2>3, BeginStep
  <2>4. ASSUME Startup PROVE FALSE
    BY <1>c, <2>0, <2>4, StartupStep
  <2>5. ASSUME NEW s \in Slots, Iterate(s) \/ Undo(s) \/ FlushRecord(s) \/ Release(s) PROVE FALSE
    BY <1>c, <1>e, <2>5, IterateStep, UndoStep, FlushRecordStep, ReleaseStep
  <2>6. ASSUME NEW s \in Slots, WriteRecord(s) PROVE FALSE
    BY <1>c, <2>0, <2>6, WriteRecordStep
  <2> QED BY <1>c, <2>1, <2>2, <2>3, <2>4, <2>5, <2>6, KindsOfSteps
<1>f. ASSUME NEW p \in Setints'
      PROVE  (\E u \in Slots : p \in Changes(u)') \/ (\E q \in p .. saved' : Ends(q, p)')
  BY <1>a, <1>b, <1>d, <1>e, <1>f
<1> QED BY <1>f DEF Accounted

(* What one thread does in a step: nothing, or its own kind of step.       *)
LEMMA Actor ==
  ASSUME TxStep, NEW u \in Slots
  PROVE  \/ Still(u)
         \/ Quiet(u)
         \/ u \in Clients /\ Begin(u)
         \/ u \in Clients /\ \E b \in Blocks : \E v \in Values : set_int(u, b, v)
         \/ u = Sys /\ Startup
         \/ Iterate(u) \/ Undo(u) \/ WriteRecord(u) \/ FlushRecord(u) \/ Release(u)
<1> USE DEF TxStep, TxInv
<1>0. Clients \subseteq Slots /\ Sys \in Slots /\ Sys \notin Clients
  BY TxAssumption DEF Slots
<1>c. CleanSame /\ UndoKnown /\ Honest
  BY DEF ValuesInv, LogInv
<1>s. ASSUME NEW s \in Slots, Others(s) PROVE u = s \/ Still(u)
  BY <1>s DEF Others
<1>1. ASSUME NEW s \in Slots, Quiet(s) PROVE Others(s)
  BY <1>1 DEF Quiet
<1>2. ASSUME NEW s \in Clients, Begin(s) PROVE Others(s)
  BY <1>2, <1>c, BeginStep
<1>3. ASSUME NEW s \in Clients, NEW b \in Blocks, NEW v \in Values, set_int(s, b, v) PROVE Others(s)
  BY <1>3, <1>c, SetStep
<1>4. ASSUME Startup PROVE Others(Sys)
  BY <1>4, <1>c, StartupStep
<1>5. ASSUME NEW s \in Slots, Iterate(s) PROVE Others(s)
  BY <1>5, <1>c, IterateStep
<1>6. ASSUME NEW s \in Slots, Undo(s) PROVE Others(s)
  BY <1>6, <1>c, UndoStep
<1>7. ASSUME NEW s \in Slots, WriteRecord(s) PROVE Others(s)
  BY <1>7, <1>c, WriteRecordStep
<1>8. ASSUME NEW s \in Slots, FlushRecord(s) PROVE Others(s)
  BY <1>8, <1>c, FlushRecordStep
<1>9. ASSUME NEW s \in Slots, Release(s) PROVE Others(s)
  BY <1>9, <1>c, ReleaseStep
<1>p. CleanSame /\ Honest /\ PoolInv /\ PoolInv' /\ [Next]_vars /\ ~Crash
  BY <1>c
<1> USE <1>0
<1>q. CASE \E s \in Slots : Quiet(s)
  BY <1>q, <1>1, <1>s
<1>r. CASE \E s \in Clients : Begin(s)
  BY <1>r, <1>2, <1>s
<1>t. CASE \E s \in Clients : \E b \in Blocks : \E v \in Values : set_int(s, b, v)
  BY <1>t, <1>3, <1>s
<1>u. CASE Startup
  BY <1>u, <1>4, <1>s
<1>v. CASE \E s \in Slots : Iterate(s) \/ Undo(s) \/ WriteRecord(s)
  BY <1>v, <1>5, <1>6, <1>7, <1>s
<1>w. CASE \E s \in Slots : FlushRecord(s) \/ Release(s)
  BY <1>w, <1>8, <1>9, <1>s
<1> QED BY <1>p, <1>q, <1>r, <1>t, <1>u, <1>v, <1>w, KindsOfSteps

(* A thread that is past its release has no changes.                       *)
LEMMA DoneChanges ==
  ASSUME PoolInv, NEW s \in Slots, pc[s] = "unpin_all"
  PROVE  Changes(s) = {}
<1>1. CASE s = Sys
  <2>1. op[Sys] # "recover" /\ started # "no"
    BY <1>1 DEF PoolInv, Threads, Calls, StartUps
  <2> QED BY <1>1, <2>1 DEF Changes, Recovering
<1>2. CASE s # Sys
  BY <1>2 DEF Changes
<1> QED BY <1>1, <1>2

(* What a new record ends is what its writer has changed.                  *)
LEMMA NewRecord ==
  ASSUME TxStep, NEW n, n = Len(log) + 1, Len(log') = n,
         NEW u \in Slots, NEW p \in Changes(u)', Ends(n, p)'
  PROVE  WriteRecord(u) /\ p \in Changes(u) /\ p \in 1 .. Len(log)
<1> USE DEF TxStep, TxInv
<1>0. Clients \subseteq Slots /\ Sys \in Slots /\ Sys \notin Clients
  BY TxAssumption DEF Slots
<1>k. LogKept /\ Len(log) \in Nat
  BY StepKeeps
<1>c. CleanSame /\ UndoKnown /\ Honest
  BY DEF ValuesInv, LogInv
<1>1. log'[n].op \notin {"start", "setint"}
  BY DEF Ends
<1>2. PICK s \in Slots : WriteRecord(s)
  <2>1. ASSUME NEW s \in Clients, NEW b \in Blocks, NEW v \in Values, set_int(s, b, v) PROVE FALSE
    <3>1. log'[n] = SetRecord(num[s], b, Current(b))
      BY <1>c, <2>1, SetStep
    <3> QED BY <1>1, <3>1 DEF SetRecord
  <2>2. ASSUME NEW s \in Slots, Quiet(s) PROVE FALSE
    BY <1>k, <2>2 DEF Quiet
  <2>3. ASSUME NEW s \in Clients, Begin(s) PROVE FALSE
    BY <1>1, <1>c, <2>3, BeginStep
  <2>4. ASSUME Startup PROVE FALSE
    BY <1>1, <1>c, <2>4, StartupStep
  <2>5. ASSUME NEW s \in Slots, Iterate(s) \/ Undo(s) \/ FlushRecord(s) \/ Release(s) PROVE FALSE
    <3>1. log' = log
      <4>1. CASE Iterate(s)
        BY <1>c, <4>1, IterateStep
      <4>2. CASE Undo(s)
        BY <1>c, <4>2, UndoStep
      <4>3. CASE FlushRecord(s)
        BY <1>c, <4>3, FlushRecordStep
      <4>4. CASE Release(s)
        BY <1>c, <4>4, ReleaseStep
      <4> QED BY <2>5, <4>1, <4>2, <4>3, <4>4
    <3> QED BY <1>k, <3>1
  <2> QED BY <1>c, <2>1, <2>2, <2>3, <2>4, <2>5, KindsOfSteps
<1>3. /\ Others(s) /\ Changes(s)' = Changes(s)
      /\ log'[n].op = (IF op[s] = "recover" THEN "checkpoint" ELSE op[s])
      /\ op[s] # "recover" => log'[n].tx = num[s]
      /\ pc[s] = "record" /\ op[s] \in {"commit", "rollback", "recover"}
      /\ s # Sys => op[s] # "recover"
  BY <1>c, <1>2, WriteRecordStep
<1>4. p \in Changes(u)
  BY <1>3 DEF Others, Still
<1>5. p \in 1 .. Len(log) /\ (u # Sys => log[p].tx = num[u])
  BY <1>4, ChangesAre
<1>6. log'[p] = log[p]
  BY <1>5, <1>k DEF LogKept
<1>7. u = s
  <2>1. CASE u = Sys
    <3>1. s = Sys
      <4> SUFFICES ASSUME s # Sys PROVE FALSE
        OBVIOUS
      <4>1. s \in Clients /\ pc[s] # "idle"
        BY <1>3 DEF Slots
      <4> QED BY <1>4, <2>1, <4>1, NoRecovery
    <3> QED BY <2>1, <3>1
  <2>2. CASE u # Sys
    <3>1. u \in Clients /\ pc[u] # "idle"
      BY <1>4, <2>2, ChangesBusy DEF Slots
    <3>2. CASE s = Sys
      BY <1>3, <3>1, <3>2, NoRecovery
    <3>3. CASE s # Sys
      <4>1. log'[n].tx = log[p].tx
        BY <1>3, <1>6, <3>3 DEF Ends
      <4>2. num[s] = num[u]
        BY <1>3, <1>5, <2>2, <3>3, <4>1
      <4>3. num[u] # 0
        BY <3>1 DEF PoolInv, Threads, Numbers, Slots
      <4> QED BY <4>2, <4>3 DEF PoolInv, Threads, Numbers
    <3> QED BY <3>2, <3>3
  <2> QED BY <2>1, <2>2
<1> QED BY <1>2, <1>4, <1>5, <1>7

(* The changes somebody answers for are not ended before his last record.  *)
LEMMA UnendedStep ==
  ASSUME TxStep
  PROVE  Unended'
<1> USE DEF TxStep, TxInv
<1>k. /\ LogKept /\ Len(log) \in Nat /\ Len(log') \in Nat
      /\ log' = log \/ Len(log') = Len(log) + 1
  BY StepKeeps
<1>c. CleanSame /\ Honest /\ UndoKnown /\ Unended
  BY DEF ValuesInv, LogInv
<1> SUFFICES ASSUME NEW u \in Slots, NEW p \in Changes(u)', NEW q \in p .. Len(log'), Ends(q, p)'
             PROVE  /\ pc'[u] \in {"force", "release"} /\ FinishRec(u, q)'
                    /\ op'[u] = "commit" => q = commitAt'[u]
                    /\ \A r \in Changes(u)' : r < q
  BY DEF Unended
<1>1. CASE q = Len(log) + 1 /\ Len(log') = Len(log) + 1
  <2>1. WriteRecord(u)
    BY <1>1, NewRecord
  <2>2. /\ Changes(u)' = Changes(u) /\ pc'[u] = "force" /\ op'[u] = op[u] /\ num'[u] = num[u]
        /\ log'[Len(log) + 1].op = (IF op[u] = "recover" THEN "checkpoint" ELSE op[u])
        /\ op[u] # "recover" => log'[Len(log) + 1].tx = num[u]
        /\ commitAt'[u] = (IF op[u] = "commit" THEN Len(log) + 1 ELSE 0)
    BY <1>c, <2>1, WriteRecordStep
  <2>3. FinishRec(u, q)'
    BY <1>1, <2>2 DEF FinishRec
  <2>4. \A r \in Changes(u) : r < q
    BY <1>1, <1>k, ChangesAre
  <2> QED BY <1>1, <2>2, <2>3, <2>4
<1>2. CASE ~(q = Len(log) + 1 /\ Len(log') = Len(log) + 1)
  <2>0. p \in Nat /\ p >= 1
    <3>1. p \in Changes(u) \/ p = Len(log) + 1
      BY ChangesStep
    <3> QED BY <1>k, <3>1, ChangesAre
  <2>1. q \in p .. Len(log) /\ q \in 1 .. Len(log) /\ p \in 1 .. Len(log)
    BY <1>2, <1>k, <2>0
  <2>2. p \in Changes(u)
    BY <1>k, <2>1, ChangesStep
  <2>3. Ends(q, p)
    BY <1>k, <2>1, EndsKept
  <2>4. /\ pc[u] \in {"force", "release"} /\ FinishRec(u, q)
        /\ op[u] = "commit" => q = commitAt[u]
        /\ \A r \in Changes(u) : r < q
    BY <1>c, <2>1, <2>2, <2>3 DEF Unended
  <2>5. log'[q] = log[q]
    BY <1>k, <2>1 DEF LogKept
  <2>6. CASE Still(u)
    BY <2>4, <2>5, <2>6 DEF Still, FinishRec
  <2>7. CASE Quiet(u)
    BY <2>4, <2>5, <2>7 DEF Quiet, Moves, FinishRec
  <2>8. CASE FlushRecord(u)
    BY <1>c, <2>2, <2>4, <2>5, <2>8, FlushRecordStep DEF FinishRec
  <2>9. CASE ~Still(u) /\ ~Quiet(u) /\ ~FlushRecord(u)
    <3>1. CASE u \in Clients /\ Begin(u)
      BY <1>c, <2>4, <3>1, BeginStep
    <3>2. CASE u \in Clients /\ \E b \in Blocks : \E v \in Values : set_int(u, b, v)
      BY <1>c, <2>4, <3>2, SetStep
    <3>3. CASE u = Sys /\ Startup
      BY <1>c, <2>4, <3>3, StartupStep
    <3>4. CASE Iterate(u) \/ Undo(u) \/ WriteRecord(u)
      BY <1>c, <2>4, <3>4, IterateStep, UndoStep, WriteRecordStep
    <3>5. CASE Release(u)
      BY <1>c, <3>5, ReleaseStep
    <3> QED BY <2>9, <3>1, <3>2, <3>3, <3>4, <3>5, Actor
  <2> QED BY <2>6, <2>7, <2>8, <2>9
<1> QED BY <1>1, <1>2

(* The last record is there when it is needed.                             *)
LEMMA FinishingStep ==
  ASSUME TxStep
  PROVE  Finishing'
<1> USE DEF TxStep, TxInv
<1>k. /\ LogKept /\ Len(log) \in Nat /\ Len(log') \in Nat /\ Len(log) <= Len(log')
      /\ saved <= saved' /\ saved \in Nat /\ saved' \in Nat
  BY StepKeeps DEF LogKept
<1>c. CleanSame /\ Honest /\ UndoKnown /\ Finishing
  BY DEF ValuesInv, LogInv
<1> SUFFICES ASSUME NEW u \in Slots, pc'[u] \in {"force", "release"}
             PROVE  \E q \in 1 .. Len(log') : /\ FinishRec(u, q)'
                                              /\ op'[u] = "commit" => q = commitAt'[u]
                                              /\ \A r \in Changes(u)' : r < q
                                              /\ pc'[u] = "release" => q <= saved'
  BY DEF Finishing
<1>1. ASSUME pc[u] \in {"force", "release"}, op'[u] = op[u], num'[u] = num[u], commitAt'[u] = commitAt[u],
             Changes(u)' = Changes(u),
             pc'[u] = "release" => \A q \in 1 .. Len(log) : FinishRec(u, q) /\ (pc[u] = "release" => q <= saved)
                                                             => q <= saved'
      PROVE  \E q \in 1 .. Len(log') : /\ FinishRec(u, q)'
                                       /\ op'[u] = "commit" => q = commitAt'[u]
                                       /\ \A r \in Changes(u)' : r < q
                                       /\ pc'[u] = "release" => q <= saved'
  <2>1. PICK q \in 1 .. Len(log) : /\ FinishRec(u, q)
                                   /\ op[u] = "commit" => q = commitAt[u]
                                   /\ \A r \in Changes(u) : r < q
                                   /\ pc[u] = "release" => q <= saved
    BY <1>1, <1>c DEF Finishing
  <2>2. log'[q] = log[q] /\ q \in 1 .. Len(log')
    BY <1>k DEF LogKept
  <2>3. FinishRec(u, q)'
    BY <1>1, <2>1, <2>2 DEF FinishRec
  <2>4. pc'[u] = "release" => q <= saved'
    BY <1>1, <2>1
  <2> QED BY <1>1, <2>1, <2>2, <2>3, <2>4
<1>2. CASE Still(u)
  <2>1. pc'[u] = "release" => \A q \in 1 .. Len(log) : (pc[u] = "release" => q <= saved) => q <= saved'
    BY <1>2, <1>k DEF Still
  <2> QED BY <1>1, <1>2, <2>1 DEF Still
<1>3. CASE Quiet(u)
  <2>1. pc'[u] = "release" => \A q \in 1 .. Len(log) : (pc[u] = "release" => q <= saved) => q <= saved'
    BY <1>3, <1>k DEF Quiet, Moves
  <2>2. /\ pc[u] \in {"force", "release"} /\ op'[u] = op[u] /\ num'[u] = num[u]
        /\ commitAt'[u] = commitAt[u] /\ Changes(u)' = Changes(u)
    BY <1>3 DEF Quiet, Moves
  <2> QED BY <1>1, <2>1, <2>2
<1>4. CASE WriteRecord(u)
  <2>1. PICK q : q = Len(log) + 1
    OBVIOUS
  <2>2. /\ Changes(u)' = Changes(u) /\ pc'[u] = "force" /\ op'[u] = op[u] /\ num'[u] = num[u]
        /\ log'[q].op = (IF op[u] = "recover" THEN "checkpoint" ELSE op[u])
        /\ op[u] # "recover" => log'[q].tx = num[u]
        /\ commitAt'[u] = (IF op[u] = "commit" THEN q ELSE 0) /\ Len(log') = q
    BY <1>4, <1>c, <2>1, WriteRecordStep
  <2>3. FinishRec(u, q)'
    BY <2>2 DEF FinishRec
  <2>4. \A r \in Changes(u) : r < q
    BY <1>k, <2>1, ChangesAre
  <2>5. q \in 1 .. Len(log')
    BY <1>k, <2>1, <2>2
  <2> QED BY <2>2, <2>3, <2>4, <2>5
<1>5. CASE FlushRecord(u)
  <2>1. /\ pc[u] = "force" /\ num'[u] = num[u] /\ commitAt' = commitAt
        /\ Changes(u)' = IF op[u] = "recover" THEN {} ELSE Changes(u)
        /\ IF op[u] = "recover" THEN pc'[u] = "flush" ELSE op'[u] = op[u]
        /\ \A q \in 1 .. Len(log) : FinishRec(u, q) => q <= saved'
    BY <1>5, <1>c, FlushRecordStep
  <2> QED BY <1>1, <2>1
<1>6. CASE u \in Clients /\ Begin(u)
  BY <1>6, <1>c, BeginStep
<1>7. CASE u \in Clients /\ \E b \in Blocks : \E v \in Values : set_int(u, b, v)
  BY <1>7, <1>c, SetStep
<1>8. CASE u = Sys /\ Startup
  BY <1>8, <1>c, StartupStep
<1>9. CASE Iterate(u) \/ Undo(u) \/ Release(u)
  BY <1>9, <1>c, IterateStep, UndoStep, ReleaseStep
<1> QED BY <1>2, <1>3, <1>4, <1>5, <1>6, <1>7, <1>8, <1>9, Actor

(* commitAt is set from the commit record to the release.                  *)
LEMMA CommitAtsStep ==
  ASSUME TxStep
  PROVE  CommitAts'
<1> USE DEF TxStep, TxInv
<1>c. CleanSame /\ Honest /\ UndoKnown /\ CommitAts
  BY DEF ValuesInv, LogInv
<1> SUFFICES ASSUME NEW u \in Slots, commitAt'[u] # 0
             PROVE  pc'[u] \in {"force", "release"} /\ op'[u] = "commit"
  BY DEF CommitAts
<1>2. CASE Still(u)
  BY <1>2, <1>c DEF Still, CommitAts
<1>3. CASE Quiet(u)
  BY <1>3, <1>c DEF Quiet, Moves, CommitAts
<1>4. CASE WriteRecord(u)
  BY <1>4, <1>c, WriteRecordStep
<1>5. CASE FlushRecord(u)
  BY <1>5, <1>c, FlushRecordStep DEF CommitAts
<1>6. CASE u \in Clients /\ Begin(u)
  BY <1>6, <1>c, BeginStep DEF CommitAts
<1>7. CASE u \in Clients /\ \E b \in Blocks : \E v \in Values : set_int(u, b, v)
  BY <1>7, <1>c, SetStep DEF CommitAts
<1>8. CASE u = Sys /\ Startup
  BY <1>8, <1>c, StartupStep DEF CommitAts
<1>9. CASE Iterate(u) \/ Undo(u)
  BY <1>9, <1>c, IterateStep, UndoStep DEF CommitAts
<1>10. CASE Release(u)
  <2>1. commitAt' = [commitAt EXCEPT ![u] = 0]
    BY <1>10, <1>c, ReleaseStep
  <2> QED BY <2>1 DEF PoolInv, TypeOK
<1> QED BY <1>2, <1>3, <1>4, <1>5, <1>6, <1>7, <1>8, <1>9, <1>10, Actor

(* A thread that undoes knows all of its changes.                          *)
LEMMA UndoKnownStep ==
  ASSUME TxStep
  PROVE  UndoKnown'
<1> USE DEF TxStep, TxInv
<1>k. /\ LogKept /\ Len(log) \in Nat /\ Len(log') \in Nat
      /\ saved <= saved' /\ saved \in Nat /\ saved' \in Nat
  BY StepKeeps DEF LogKept
<1>c. CleanSame /\ UndoKnown /\ Honest
  BY DEF ValuesInv, LogInv
<1>g. ASSUME NEW u \in Slots, op'[u] = op[u], num'[u] = num[u], top'[u] = top[u],
             Changes(u)' = Changes(u), pc[u] \in {"undo", "restore"}
      PROVE  Going(u)' = Changes(u)'
  <2>1. PICK n, t : n = top[u] /\ t = num[u]
    OBVIOUS
  <2>2. n \in 0 .. Len(log)
    BY <1>k, <2>1 DEF PoolInv, TypeOK, Threads, Iterators
  <2>3. RollbackSet(t, n)' = RollbackSet(t, n) /\ RecoverSet(n)' = RecoverSet(n)
    BY <1>k, <2>2, SetsKept DEF PoolInv
  <2>4. Going(u) = IF op[u] = "recover" THEN RecoverSet(n) ELSE RollbackSet(t, n)
    BY <2>1 DEF Going
  <2>5. Going(u)' = IF op[u] = "recover" THEN RecoverSet(n)' ELSE RollbackSet(t, n)'
    BY <1>g, <2>1 DEF Going, RecoverSet, RollbackSet
  <2> QED BY <1>c, <1>g, <2>3, <2>4, <2>5 DEF UndoKnown
<1>s. ASSUME NEW u \in Slots, NEW p \in Changes(u), p <= saved PROVE p <= saved'
  <2>1. p \in Nat
    BY ChangesAre
  <2> QED BY <1>k, <1>s, <2>1
<1>1. ASSUME NEW u \in Slots
      PROVE  /\ pc'[u] \in {"undo", "restore"} => Going(u)' = Changes(u)'
             /\ op'[u] \in {"rollback", "recover"} /\ pc'[u] \notin {"iterate", "iterating"} =>
                  \A p \in Changes(u)' : p <= saved'
  <2>2. CASE Still(u)
    BY <1>c, <1>g, <1>s, <2>2 DEF Still, UndoKnown
  <2>3. CASE Quiet(u)
    <3>1. Changes(u)' = Changes(u) /\ Moves(u)
      BY <2>3 DEF Quiet
    <3>2. pc'[u] \in {"undo", "restore"} => Going(u)' = Changes(u)'
      BY <1>g, <2>3 DEF Quiet, Moves
    <3>3. pc[u] \in {"active", "pin"} => op[u] = "none"
      BY DEF PoolInv, Threads, Calls
    <3>4. op'[u] \in {"rollback", "recover"} /\ pc'[u] \notin {"iterate", "iterating"}
          => op[u] \in {"rollback", "recover"} /\ pc[u] \notin {"iterate", "iterating"}
      BY <3>1, <3>3 DEF Moves
    <3> QED BY <1>c, <1>s, <3>1, <3>2, <3>4 DEF UndoKnown
  <2>4. CASE WriteRecord(u)
    BY <1>c, <1>s, <2>4, WriteRecordStep DEF UndoKnown
  <2>5. CASE FlushRecord(u)
    BY <1>c, <1>s, <2>5, FlushRecordStep DEF UndoKnown
  <2>6. CASE u \in Clients /\ Begin(u)
    BY <1>c, <2>6, BeginStep
  <2>7. CASE u \in Clients /\ \E b \in Blocks : \E v \in Values : set_int(u, b, v)
    <3>1. pc[u] = "active" /\ pc'[u] = "active" /\ op'[u] = op[u]
      BY <1>c, <2>7, SetStep
    <3>2. op[u] = "none"
      BY <3>1 DEF PoolInv, Threads, Calls
    <3> QED BY <3>1, <3>2
  <2>8. CASE u = Sys /\ Startup
    BY <1>c, <2>8, StartupStep
  <2>9. CASE Iterate(u)
    <3>1. /\ Changes(u)' = Changes(u) /\ saved' = Len(log) /\ pc'[u] = "undo"
          /\ Going(u)' = Changes(u)
      BY <1>c, <2>9, IterateStep
    <3>2. \A p \in Changes(u) : p <= Len(log)
      BY ChangesAre
    <3> QED BY <3>1, <3>2
  <2>10. CASE Undo(u)
    <3>1. /\ Changes(u)' = Changes(u) /\ pc[u] = "restore" /\ pc'[u] = "undo" /\ op'[u] = op[u]
          /\ num'[u] = num[u] /\ top'[u] = top[u]
      BY <1>c, <2>10, UndoStep
    <3> QED BY <1>c, <1>g, <1>s, <3>1 DEF UndoKnown
  <2>11. CASE Release(u)
    BY <1>c, <2>11, ReleaseStep
  <2> QED BY <2>2, <2>3, <2>4, <2>5, <2>6, <2>7, <2>8, <2>9, <2>10, <2>11, Actor
<1> QED BY <1>1 DEF UndoKnown

-----------------------------------------------------------------------------
(* Every step but a crash keeps the invariant: the locks.                  *)

(* Nobody else has a lock on the block.                                    *)
Alone(s, b) == \A u \in Slots : u # s => locks[u][b] = "none"

(* What a step does to the locks: a shared lock that is granted, an        *)
(* exclusive one that nobody's is in the way of, or a release.             *)
LEMMA LocksStep ==
  ASSUME TxStep
  PROVE  \/ locks' = locks
         \/ \E s \in Slots : \E b \in Blocks : get_int(s, b)
         \/ \E s \in Slots : \E b \in Blocks :
              /\ locks' = [locks EXCEPT ![s][b] = "X"] /\ Alone(s, b)
              /\ pc'[s] \in {"active", "undo"}
         \/ \E s \in Slots : locks' = [locks EXCEPT ![s] = NoLocks] /\ Changes(s)' = {}
<1> USE DEF TxStep, TxInv
<1>0. Clients \subseteq Slots /\ Sys \in Slots /\ Sys \notin Clients /\ Slots = Clients \cup {Sys}
  BY TxAssumption DEF Slots
<1>c. CleanSame /\ Honest /\ UndoKnown /\ locks \in [Slots -> [Blocks -> {"none", "S", "X"}]]
  BY DEF ValuesInv, LogInv, PoolInv, TypeOK
<1>1. ASSUME NEW s \in Slots, Quiet(s)
      PROVE  locks' = locks \/ \E b \in Blocks : get_int(s, b)
  BY <1>1 DEF Quiet
<1>2. ASSUME NEW s \in Clients, Begin(s) PROVE locks' = locks
  BY <1>2 DEF Begin
<1>3. ASSUME NEW s \in Clients, NEW b \in Blocks, NEW v \in Values, set_int(s, b, v)
      PROVE  locks' = [locks EXCEPT ![s][b] = "X"] /\ Alone(s, b) /\ pc'[s] = "active"
  <2>1. locks' = [locks EXCEPT ![s][b] = "X"] /\ Compatible(s, b, "X") /\ pc'[s] = "active"
    BY <1>0, <1>3, <1>c, SetStep
  <2> QED BY <2>1 DEF Compatible, Alone
<1>4. ASSUME Startup PROVE locks' = locks
  BY <1>4 DEF Startup
<1>5. ASSUME NEW s \in Slots, Iterate(s) \/ WriteRecord(s) \/ FlushRecord(s) PROVE locks' = locks
  BY <1>5 DEF Iterate, WriteRecord, FlushRecord
<1>6. ASSUME NEW s \in Slots, Undo(s)
      PROVE  \E b \in Blocks : locks' = [locks EXCEPT ![s][b] = "X"] /\ Alone(s, b) /\ pc'[s] = "undo"
  <2>1. PICK p \in Changes(s), b \in Blocks :
             /\ b = log[p].blk /\ pc[s] = "restore" /\ pc'[s] = "undo"
             /\ locks' = [locks EXCEPT ![s][b] = "X"]
    BY <1>6, <1>c, UndoStep
  <2>2. CASE s = Sys
    <3>1. \A u \in Clients : pc[u] = "idle"
      BY <2>1, <2>2, NoRecovery
    <3>2. \A u \in Slots : u # s => locks[u] = NoLocks
      BY <1>0, <2>2, <3>1 DEF LocksHeld
    <3> QED BY <2>1, <3>2 DEF Alone, NoLocks
  <2>3. CASE s # Sys
    <3>1. locks[s][b] = "X"
      BY <1>0, <2>1, <2>3 DEF LocksHeld
    <3> QED BY <2>1, <3>1 DEF Alone, LocksHeld
  <2> QED BY <2>2, <2>3
<1>7. ASSUME NEW s \in Slots, Release(s)
      PROVE  locks' = [locks EXCEPT ![s] = NoLocks] /\ Changes(s)' = {}
  BY <1>7, <1>c, ReleaseStep
<1>8. CASE \E s \in Slots : Quiet(s)
  BY <1>1, <1>8
<1>9. CASE \E s \in Clients : \E b \in Blocks : \E v \in Values : set_int(s, b, v)
  BY <1>0, <1>3, <1>9
<1>10. CASE \E s \in Slots : Undo(s)
  <2>1. PICK s \in Slots : Undo(s)
    BY <1>10
  <2> QED BY <1>6, <2>1
<1>11. CASE Startup \/ (\E s \in Clients : Begin(s)) \/ (\E s \in Slots : Iterate(s) \/ WriteRecord(s) \/ FlushRecord(s))
  BY <1>2, <1>4, <1>5, <1>11
<1>12. CASE \E s \in Slots : Release(s)
  BY <1>7, <1>12
<1> QED BY <1>c, <1>8, <1>9, <1>10, <1>11, <1>12, KindsOfSteps

(* Exclusive locks stay exclusive; a thread that is done has none; and a   *)
(* change is under its transaction's lock until the release.               *)
LEMMA LocksHeldStep ==
  ASSUME TxStep
  PROVE  LocksHeld'
<1> USE DEF TxStep, TxInv
<1>0. Clients \subseteq Slots /\ Sys \in Slots /\ Sys \notin Clients
  BY TxAssumption DEF Slots
<1>c. CleanSame /\ Honest /\ UndoKnown /\ locks \in [Slots -> [Blocks -> {"none", "S", "X"}]]
  BY DEF ValuesInv, LogInv, PoolInv, TypeOK
<1>k. LogKept /\ Len(log) \in Nat
  BY StepKeeps
<1>1. ASSUME NEW x \in Slots, NEW y \in Slots, NEW c \in Blocks, x # y, locks'[x][c] = "X"
      PROVE  locks'[y][c] = "none"
  <2>0. locks[x][c] = "X" => locks[y][c] = "none"
    BY <1>1 DEF LocksHeld
  <2>1. CASE locks' = locks
    BY <1>1, <2>0, <2>1
  <2>2. ASSUME NEW s \in Slots, NEW b \in Blocks, get_int(s, b) PROVE locks'[y][c] = "none"
    <3>1. /\ locks' = [locks EXCEPT ![s][b] = "S"]
          /\ \A u \in Slots : u # s => locks[u][b] = "none" \/ locks[u][b] = "S"
      BY <2>2 DEF get_int, Compatible
    <3> QED BY <1>1, <1>c, <2>0, <3>1
  <2>3. ASSUME NEW s \in Slots, NEW b \in Blocks, locks' = [locks EXCEPT ![s][b] = "X"], Alone(s, b)
        PROVE  locks'[y][c] = "none"
    BY <1>1, <1>c, <2>0, <2>3 DEF Alone
  <2>4. ASSUME NEW s \in Slots, locks' = [locks EXCEPT ![s] = NoLocks]
        PROVE  locks'[y][c] = "none"
    BY <1>1, <1>c, <2>0, <2>4 DEF NoLocks
  <2> QED BY <2>1, <2>2, <2>3, <2>4, LocksStep
<1>2. ASSUME NEW x \in Slots, pc'[x] \in {"idle", "unpin_all"} PROVE locks'[x] = NoLocks
  <2>0. pc[x] \in {"idle", "unpin_all"} => locks[x] = NoLocks
    BY DEF LocksHeld
  <2>1. CASE Still(x)
    BY <1>2, <2>0, <2>1 DEF Still
  <2>2. CASE Quiet(x)
    <3>1. pc[x] \in {"idle", "unpin_all"}
      BY <1>2, <2>2 DEF Quiet, Moves
    <3>2. \A b \in Blocks : ~get_int(x, b)
      BY <3>1 DEF get_int
    <3> QED BY <2>0, <2>2, <3>1, <3>2 DEF Quiet
  <2>3. CASE Release(x)
    BY <1>c, <2>3, ReleaseStep
  <2>5. CASE x \in Clients /\ Begin(x)
    BY <1>2, <1>c, <2>5, BeginStep
  <2>6. CASE x \in Clients /\ \E b \in Blocks : \E v \in Values : set_int(x, b, v)
    BY <1>2, <1>c, <2>6, SetStep
  <2>7. CASE x = Sys /\ Startup
    BY <1>2, <1>c, <2>7, StartupStep
  <2>8. CASE Iterate(x)
    BY <1>2, <1>c, <2>8, IterateStep
  <2>9. CASE Undo(x)
    BY <1>2, <1>c, <2>9, UndoStep
  <2>10. CASE WriteRecord(x)
    BY <1>2, <1>c, <2>10, WriteRecordStep
  <2>11. CASE FlushRecord(x)
    BY <1>2, <1>c, <2>11, FlushRecordStep
  <2> QED BY <2>1, <2>2, <2>3, <2>5, <2>6, <2>7, <2>8, <2>9, <2>10, <2>11, Actor
<1>3. ASSUME NEW x \in Clients, NEW p \in Changes(x)' PROVE locks'[x][log'[p].blk] = "X"
  <2>x. x \in Slots /\ x # Sys
    BY <1>0
  <2>1. CASE p \in Changes(x)
    <3>1. p \in 1 .. Len(log) /\ log[p].blk \in Blocks /\ log'[p] = log[p]
      BY <1>k, <2>1, <2>x, ChangesAre DEF LogKept
    <3>2. PICK c \in Blocks : c = log[p].blk
      BY <3>1
    <3>3. locks[x][c] = "X" /\ ~ (\E u \in Slots : u # x /\ locks[u][c] # "none")
      BY <2>1, <2>x, <3>2 DEF LocksHeld
    <3>4. CASE locks' = locks
      BY <3>1, <3>2, <3>3, <3>4
    <3>5. ASSUME NEW s \in Slots, NEW b \in Blocks, get_int(s, b) PROVE locks'[x][c] = "X"
      <4>1. locks' = [locks EXCEPT ![s][b] = "S"] /\ locks[s][b] = "none"
        BY <3>5 DEF get_int
      <4> QED BY <1>c, <2>x, <3>3, <4>1
    <3>6. ASSUME NEW s \in Slots, NEW b \in Blocks, locks' = [locks EXCEPT ![s][b] = "X"]
          PROVE  locks'[x][c] = "X"
      BY <1>c, <2>x, <3>3, <3>6
    <3>7. ASSUME NEW s \in Slots, locks' = [locks EXCEPT ![s] = NoLocks], Changes(s)' = {}
          PROVE  locks'[x][c] = "X"
      <4>1. s # x
        BY <1>3, <3>7
      <4> QED BY <1>c, <2>x, <3>3, <3>7, <4>1
    <3> QED BY <3>1, <3>2, <3>4, <3>5, <3>6, <3>7, LocksStep
  <2>2. CASE p \notin Changes(x)
    <3>1. PICK b \in Blocks, v \in Values : set_int(x, b, v) /\ p = Len(log) + 1
      BY <2>2, <2>x, ChangesStep
    <3>2. /\ log'[Len(log) + 1] = SetRecord(num[x], b, Current(b))
          /\ locks' = [locks EXCEPT ![x][b] = "X"]
      BY <1>c, <3>1, SetStep
    <3>3. log'[p].blk = b
      BY <3>1, <3>2 DEF SetRecord
    <3> QED BY <1>c, <2>x, <3>2, <3>3
  <2> QED BY <2>1, <2>2
<1> QED BY <1>1, <1>2, <1>3 DEF LocksHeld
-----------------------------------------------------------------------------
(* Every step but a crash keeps the invariant: the values.                 *)

(* A thread that keeps its changes keeps them block by block.              *)
LEMMA ChangesOnKept ==
  ASSUME TxStep, NEW u \in Slots, Changes(u)' = Changes(u)
  PROVE  /\ \A b \in Blocks : ChangesOn(u, b)' = ChangesOn(u, b)
         /\ \A p \in Changes(u) : log'[p] = log[p] /\ log[p].blk \in Blocks /\ p \in Nat
<1> USE DEF TxStep, TxInv
<1>k. LogKept
  BY StepKeeps
<1>1. \A p \in Changes(u) : log'[p] = log[p] /\ log[p].blk \in Blocks /\ p \in Nat
  BY <1>k, ChangesAre DEF LogKept
<1>2. ASSUME NEW b \in Blocks PROVE ChangesOn(u, b)' = ChangesOn(u, b)
  BY <1>1 DEF ChangesOn
<1> QED BY <1>1, <1>2

(* A write adds its record to the changes of the block.                    *)
LEMMA SetChangesOn ==
  ASSUME TxStep, NEW s \in Clients, NEW b \in Blocks, NEW v \in Values, set_int(s, b, v),
         NEW n, n = Len(log) + 1
  PROVE  /\ ChangesOn(s, b)' = ChangesOn(s, b) \cup {n}
         /\ \A c \in Blocks : c # b => ChangesOn(s, c)' = ChangesOn(s, c)
         /\ \A p \in Changes(s) : log'[p] = log[p] /\ p \in Nat /\ p < n
         /\ log'[n].blk = b /\ log'[n].val = Current(b) /\ n \in Nat
<1> USE DEF TxStep, TxInv
<1>0. s \in Slots
  BY DEF Slots
<1>k. LogKept /\ Len(log) \in Nat
  BY StepKeeps
<1>c. CleanSame /\ Honest
  BY DEF ValuesInv, LogInv
<1>1. \A p \in Changes(s) : log'[p] = log[p] /\ p \in Nat /\ p < n
  BY <1>0, <1>k, ChangesAre DEF LogKept
<1>2. Changes(s)' = Changes(s) \cup {n} /\ log'[n] = SetRecord(num[s], b, Current(b))
  BY <1>c, SetStep
<1>3. log'[n].blk = b /\ log'[n].val = Current(b)
  BY <1>2 DEF SetRecord
<1>4. ASSUME NEW c, NEW p PROVE p \in ChangesOn(s, c)' <=> p \in ChangesOn(s, c) \/ (p = n /\ c = b)
  <2>1. p \in ChangesOn(s, c)' <=> p \in Changes(s) \cup {n} /\ log'[p].blk = c
    BY <1>2 DEF ChangesOn
  <2>2. p \in ChangesOn(s, c) <=> p \in Changes(s) /\ log[p].blk = c
    BY DEF ChangesOn
  <2>3. n \notin Changes(s)
    BY <1>1, <1>k
  <2> QED BY <1>1, <1>3, <2>1, <2>2, <2>3
<1>6. ChangesOn(s, b)' = ChangesOn(s, b) \cup {n}
  BY <1>4
<1>7. ASSUME NEW c \in Blocks, c # b PROVE ChangesOn(s, c)' = ChangesOn(s, c)
  <2>1. ChangesOn(s, c)' \subseteq ChangesOn(s, c) /\ ChangesOn(s, c) \subseteq ChangesOn(s, c)'
    BY <1>4, <1>7
  <2> QED BY <2>1
<1> QED BY <1>1, <1>3, <1>6, <1>7, <1>k

(* The committed value of a block changes at the release of a transaction  *)
(* that has committed, to what that transaction wrote.                     *)
LEMMA BaseStep ==
  ASSUME TxStep, NEW b \in Blocks, base'[b] # base[b]
  PROVE  \E s \in Slots : /\ Release(s) /\ op[s] = "commit" /\ s \in Clients
                          /\ writes[s][b] # NoVal /\ base'[b] = writes[s][b]
                          /\ ChangesOn(s, b) # {} /\ Changes(s)' = {} /\ disk' = disk
<1> USE DEF TxStep, TxInv
<1>c. CleanSame /\ Honest /\ UndoKnown /\ WritesLogged
  BY DEF ValuesInv, LogInv
<1>1. ASSUME NEW s \in Slots, Release(s)
      PROVE  /\ op[s] = "commit" /\ s \in Clients /\ writes[s][b] # NoVal /\ base'[b] = writes[s][b]
             /\ ChangesOn(s, b) # {} /\ Changes(s)' = {} /\ disk' = disk
  <2>1. base' = (IF op[s] = "commit" THEN Overlay(base, {s}) ELSE base) /\ disk' = disk /\ Changes(s)' = {}
    BY <1>1, <1>c, ReleaseStep
  <2>2. op[s] = "commit" /\ base'[b] = (IF \E x \in {s} : writes[x][b] # NoVal
                                         THEN writes[CHOOSE x \in {s} : writes[x][b] # NoVal][b]
                                         ELSE base[b])
    BY <2>1 DEF Overlay
  <2>3. writes[s][b] # NoVal
    BY <2>2
  <2>4. (CHOOSE x \in {s} : writes[x][b] # NoVal) = s
    BY <2>3
  <2>5. s # Sys
    BY <1>c, <2>3 DEF WritesLogged
  <2> QED BY <1>c, <2>1, <2>2, <2>3, <2>4, <2>5 DEF WritesLogged, Slots
<1>2. CASE \E s \in Slots : Release(s)
  BY <1>1, <1>2
<1>3. CASE ~ \E s \in Slots : Release(s)
  <2>1. ASSUME NEW s \in Slots, Quiet(s) PROVE base' = base
    BY <2>1 DEF Quiet
  <2>2. ASSUME NEW s \in Slots, Undo(s) PROVE base' = base
    BY <2>2 DEF Undo, ghosts
  <2>3. ASSUME NEW s \in Slots, Iterate(s) \/ WriteRecord(s) \/ FlushRecord(s) PROVE base' = base
    BY <2>3 DEF Iterate, WriteRecord, FlushRecord, ghosts
  <2>4. ASSUME NEW s \in Clients, NEW c \in Blocks, NEW v \in Values, Begin(s) \/ set_int(s, c, v)
        PROVE  base' = base
    BY <2>4 DEF Begin, set_int, ghosts
  <2>5. ASSUME Startup PROVE base' = base
    BY <2>5 DEF Startup, ghosts
  <2>6. base' = base
    <3>1. CASE \E s \in Slots : Quiet(s) \/ Undo(s)
      BY <2>1, <2>2, <3>1
    <3>2. CASE \E s \in Slots : Iterate(s) \/ WriteRecord(s) \/ FlushRecord(s)
      BY <2>3, <3>2
    <3>3. CASE \E s \in Clients : Begin(s) \/ \E c \in Blocks : \E v \in Values : set_int(s, c, v)
      <4>1. PICK s \in Clients : Begin(s) \/ \E c \in Blocks : \E v \in Values : set_int(s, c, v)
        BY <3>3
      <4> QED BY <2>4, <4>1 DEF Begin, ghosts
    <3> QED BY <1>c, <1>3, <2>5, <3>1, <3>2, <3>3, KindsOfSteps
  <2> QED BY <2>6
<1> QED BY <1>2, <1>3

(* The committed values under a thread's changes stay while it has them.   *)
LEMMA BaseKept ==
  ASSUME TxStep, NEW u \in Slots, NEW b \in Blocks, ChangesOn(u, b) # {}, Changes(u)' # {}
  PROVE  base'[b] = base[b]
<1> USE DEF TxStep, TxInv
<1> SUFFICES ASSUME base'[b] # base[b] PROVE FALSE
  OBVIOUS
<1>1. PICK s \in Slots : ChangesOn(s, b) # {} /\ Changes(s)' = {}
  BY BaseStep
<1> QED BY <1>1, OneOwner

(* The old value of a transaction's first change stays the committed one.  *)
LEMMA OldIsCommittedStep ==
  ASSUME TxStep
  PROVE  OldIsCommitted'
<1> USE DEF TxStep, TxInv
<1>k. Len(log) \in Nat
  BY StepKeeps
<1>c. CleanSame /\ Honest /\ UndoKnown /\ OldIsCommitted
  BY DEF ValuesInv, LogInv
<1> SUFFICES ASSUME NEW u \in Slots, NEW p \in Changes(u)', First(u, p)'
             PROVE  log'[p].val = base'[log'[p].blk]
  BY DEF OldIsCommitted
<1>f. PICK d : d = log'[p].blk
  OBVIOUS
<1>g. \A q \in ChangesOn(u, d)' : p <= q
  BY <1>f DEF First, ChangesOn
<1>a. ASSUME p \in Changes(u), log'[p] = log[p], d \in Blocks, ChangesOn(u, d) \subseteq ChangesOn(u, d)'
      PROVE  log'[p].val = base'[d]
  <2>1. First(u, p)
    BY <1>a, <1>f, <1>g DEF First
  <2>2. log[p].val = base[d]
    BY <1>a, <1>c, <1>f, <2>1 DEF OldIsCommitted
  <2>3. p \in ChangesOn(u, d)
    BY <1>a, <1>f DEF ChangesOn
  <2>4. base'[d] = base[d]
    BY <1>a, <2>3, BaseKept
  <2> QED BY <1>a, <2>2, <2>4
<1>1. CASE Changes(u)' = Changes(u)
  <2>1. p \in Changes(u) /\ log'[p] = log[p] /\ log[p].blk \in Blocks
    BY <1>1, ChangesOnKept
  <2>2. ChangesOn(u, d)' = ChangesOn(u, d) /\ d \in Blocks
    BY <1>1, <1>f, <2>1, ChangesOnKept
  <2> QED BY <1>a, <1>f, <2>1, <2>2
<1>2. ASSUME NEW b \in Blocks, NEW v \in Values, set_int(u, b, v), u \in Clients,
             Changes(u)' = Changes(u) \cup {Len(log) + 1}
      PROVE  log'[p].val = base'[d]
  <2>1. PICK n : n = Len(log) + 1
    OBVIOUS
  <2>2. /\ ChangesOn(u, b)' = ChangesOn(u, b) \cup {n}
        /\ \A c \in Blocks : c # b => ChangesOn(u, c)' = ChangesOn(u, c)
        /\ \A q \in Changes(u) : log'[q] = log[q] /\ q \in Nat /\ q < n
        /\ log'[n].blk = b /\ log'[n].val = Current(b) /\ n \in Nat
    BY <1>2, <2>1, SetChangesOn
  <2>3. CASE p \in Changes(u)
    <3>1. log[p].blk \in Blocks /\ log'[p] = log[p]
      BY <2>2, <2>3, ChangesAre
    <3>2. d \in Blocks /\ ChangesOn(u, d) \subseteq ChangesOn(u, d)'
      BY <1>f, <2>2, <3>1
    <3> QED BY <1>a, <2>3, <3>1, <3>2
  <2>4. CASE p \notin Changes(u)
    <3>1. p = n /\ d = b
      BY <1>2, <1>f, <2>1, <2>2, <2>4
    <3>3. ChangesOn(u, b) = {}
      <4> SUFFICES ASSUME NEW q \in ChangesOn(u, b) PROVE FALSE
        OBVIOUS
      <4>1. n <= q
        BY <1>g, <2>2, <3>1
      <4>2. q \in Nat /\ q < n
        BY <2>2 DEF ChangesOn
      <4> QED BY <2>2, <4>1, <4>2
    <3>4. \A w \in Slots : ChangesOn(w, b) = {}
      BY <1>2, <1>c, <3>3, SetStep
    <3>5. Current(b) = base[b]
      BY <3>4, Untouched
    <3>6. base' = base
      BY <1>2, <1>c, SetStep
    <3> QED BY <2>2, <3>1, <3>5, <3>6
  <2> QED BY <2>3, <2>4
<1> QED BY <1>1, <1>2, <1>f, ChangesStep
(* What a step writes is what its change is of.                            *)
LEMMA WritesStep ==
  ASSUME TxStep, NEW u \in Slots
  PROVE  \/ Changes(u)' = Changes(u) /\ writes'[u] = writes[u]
         \/ /\ u \in Clients
            /\ \E b \in Blocks : \E v \in Values :
                 set_int(u, b, v) /\ writes'[u] = [writes[u] EXCEPT ![b] = v]
         \/ \A b \in Blocks : writes'[u][b] = NoVal
<1> USE DEF TxStep, TxInv
<1>c. CleanSame /\ Honest /\ UndoKnown /\ WritesLogged /\ writes \in [Slots -> [Blocks -> Values \cup {NoVal}]]
  BY DEF ValuesInv, LogInv, PoolInv, TypeOK
<1>1. CASE Still(u)
  BY <1>1 DEF Still
<1>2. CASE Quiet(u)
  BY <1>2 DEF Quiet
<1>3. CASE u \in Clients /\ Begin(u)
  BY <1>3, <1>c, BeginStep
<1>4. CASE u \in Clients /\ \E b \in Blocks : \E v \in Values : set_int(u, b, v)
  <2>1. PICK b \in Blocks, v \in Values : set_int(u, b, v)
    BY <1>4
  <2>2. writes' = [writes EXCEPT ![u][b] = v]
    BY <1>4, <1>c, <2>1, SetStep
  <2> QED BY <1>4, <1>c, <2>1, <2>2
<1>5. CASE u = Sys /\ Startup
  BY <1>5, <1>c, StartupStep
<1>6. CASE Iterate(u)
  BY <1>6, <1>c, IterateStep
<1>7. CASE Undo(u)
  BY <1>7, <1>c, UndoStep
<1>8. CASE WriteRecord(u)
  BY <1>8, <1>c, WriteRecordStep
<1>9. CASE FlushRecord(u)
  <2>1. writes' = writes /\ (u # Sys => Changes(u)' = Changes(u))
    BY <1>9, <1>c, FlushRecordStep
  <2> QED BY <1>c, <2>1 DEF WritesLogged
<1>10. CASE Release(u)
  <2>1. writes' = [writes EXCEPT ![u] = Nothing]
    BY <1>10, <1>c, ReleaseStep
  <2> QED BY <1>c, <2>1 DEF Nothing
<1> QED BY <1>1, <1>2, <1>3, <1>4, <1>5, <1>6, <1>7, <1>8, <1>9, <1>10, Actor

(* What was written was logged.                                            *)
LEMMA WritesLoggedStep ==
  ASSUME TxStep
  PROVE  WritesLogged'
<1> USE DEF TxStep, TxInv
<1>0. Sys \in Slots /\ Sys \notin Clients
  BY TxAssumption DEF Slots
<1>c. WritesLogged /\ writes \in [Slots -> [Blocks -> Values \cup {NoVal}]]
  BY DEF ValuesInv, PoolInv, TypeOK
<1>1. ASSUME NEW u \in Slots, NEW b \in Blocks, writes'[u][b] # NoVal
      PROVE  ChangesOn(u, b)' # {} /\ u # Sys
  <2>1. CASE Changes(u)' = Changes(u) /\ writes'[u] = writes[u]
    <3>1. ChangesOn(u, b)' = ChangesOn(u, b)
      BY <2>1, ChangesOnKept
    <3> QED BY <1>1, <1>c, <2>1, <3>1 DEF WritesLogged
  <2>2. ASSUME NEW c \in Blocks, NEW v \in Values, set_int(u, c, v), u \in Clients,
               writes'[u] = [writes[u] EXCEPT ![c] = v]
        PROVE  ChangesOn(u, b)' # {} /\ u # Sys
    <3>1. PICK n : n = Len(log) + 1
      OBVIOUS
    <3>2. /\ ChangesOn(u, c)' = ChangesOn(u, c) \cup {n}
          /\ b # c => ChangesOn(u, b)' = ChangesOn(u, b)
      BY <2>2, <3>1, SetChangesOn
    <3>3. b # c => writes[u][b] # NoVal
      BY <1>1, <1>c, <2>2
    <3> QED BY <1>0, <1>c, <2>2, <3>2, <3>3 DEF WritesLogged
  <2> QED BY <1>1, <2>1, <2>2, WritesStep
<1> QED BY <1>0, <1>1 DEF WritesLogged

(* The value of a block changes by a write or an undo of its owner.        *)
LEMMA CurrentStep ==
  ASSUME TxStep, NEW c \in Blocks, Current(c)' # Current(c), NEW u \in Slots, ChangesOn(u, c) # {}
  PROVE  (u \in Clients /\ \E v \in Values : set_int(u, c, v)) \/ Undo(u)
<1> USE DEF TxStep, TxInv
<1>0. Clients \subseteq Slots
  BY DEF Slots
<1>c. CleanSame /\ UndoKnown /\ Honest
  BY DEF ValuesInv, LogInv
<1>1. ASSUME NEW s \in Clients, NEW b \in Blocks, NEW v \in Values, set_int(s, b, v)
      PROVE  u = s /\ c = b
  <2>1. /\ \A d \in Blocks : d # b => Current(d)' = Current(d)
        /\ \A w \in Slots : w # s => ChangesOn(w, b) = {}
    BY <1>1, <1>c, SetStep
  <2> QED BY <2>1
<1>2. ASSUME NEW s \in Slots, Undo(s) PROVE u = s
  <2>1. PICK p \in Changes(s), b \in Blocks : b = log[p].blk /\ \A d \in Blocks : d # b => Current(d)' = Current(d)
    BY <1>2, <1>c, UndoStep
  <2>2. ChangesOn(s, c) # {}
    BY <2>1 DEF ChangesOn
  <2> QED BY <2>2, OneOwner
<1>3. ASSUME NEW s \in Slots, Quiet(s) PROVE FALSE
  BY <1>3 DEF Quiet, PoolFrame
<1>4. ASSUME NEW s \in Clients, Begin(s) PROVE FALSE
  BY <1>4, <1>c, BeginStep DEF PoolFrame
<1>5. ASSUME Startup PROVE FALSE
  BY <1>5, <1>c, StartupStep DEF PoolFrame
<1>6. ASSUME NEW s \in Slots, Iterate(s) PROVE FALSE
  BY <1>6, <1>c, IterateStep DEF PoolFrame
<1>7. ASSUME NEW s \in Slots, WriteRecord(s) PROVE FALSE
  BY <1>7, <1>c, WriteRecordStep DEF PoolFrame
<1>8. ASSUME NEW s \in Slots, FlushRecord(s) PROVE FALSE
  BY <1>8, <1>c, FlushRecordStep DEF PoolFrame
<1>9. ASSUME NEW s \in Slots, Release(s) PROVE FALSE
  BY <1>9, <1>c, ReleaseStep DEF PoolFrame
<1> QED BY <1>c, <1>1, <1>2, <1>3, <1>4, <1>5, <1>6, <1>7, <1>8, <1>9, KindsOfSteps

(* What was written is there until it is undone.                           *)
LEMMA WritesThereStep ==
  ASSUME TxStep
  PROVE  WritesThere'
<1> USE DEF TxStep, TxInv
<1>0. Clients \subseteq Slots /\ Sys \notin Clients
  BY TxAssumption DEF Slots
<1>c. CleanSame /\ Honest /\ UndoKnown /\ WritesThere /\ writes \in [Slots -> [Blocks -> Values \cup {NoVal}]]
  BY DEF ValuesInv, LogInv, PoolInv, TypeOK
<1> SUFFICES ASSUME NEW u \in Clients, pc'[u] \in {"active", "pin"} \/ op'[u] = "commit",
                    NEW p \in Changes(u)', NEW d, d = log'[p].blk
             PROVE  Current(d)' = writes'[u][d]
  BY DEF WritesThere
<1>u. u \in Slots /\ u # Sys
  BY <1>0
<1>a. ASSUME pc[u] \in {"active", "pin"} \/ op[u] = "commit", ~Undo(u),
             Changes(u)' = Changes(u), writes'[u] = writes[u],
             ~ \E b \in Blocks : \E v \in Values : set_int(u, b, v)
      PROVE  Current(d)' = writes'[u][d]
  <2>1. p \in Changes(u) /\ log'[p] = log[p] /\ d \in Blocks
    BY <1>a, <1>u, ChangesOnKept
  <2>2. Current(d) = writes[u][d]
    BY <1>a, <1>c, <2>1 DEF WritesThere
  <2>3. ChangesOn(u, d) # {}
    BY <2>1 DEF ChangesOn
  <2>4. Current(d)' = Current(d)
    BY <1>a, <1>u, <2>1, <2>3, CurrentStep
  <2> QED BY <1>a, <2>2, <2>4
<1>1. ASSUME NEW b \in Blocks, NEW v \in Values, set_int(u, b, v) PROVE Current(d)' = writes'[u][d]
  <2>1. PICK n : n = Len(log) + 1
    OBVIOUS
  <2>2. /\ Changes(u)' = Changes(u) \cup {n} /\ pc[u] = "active"
        /\ writes' = [writes EXCEPT ![u][b] = v]
        /\ Current(b)' = v /\ \A c \in Blocks : c # b => Current(c)' = Current(c)
    BY <1>1, <1>c, <2>1, SetStep
  <2>3. /\ \A q \in Changes(u) : log'[q] = log[q]
        /\ log'[n].blk = b
    BY <1>1, <2>1, SetChangesOn
  <2>4. CASE d = b
    BY <1>c, <1>u, <2>2, <2>4
  <2>5. CASE d # b
    <3>1. p \in Changes(u) /\ d = log[p].blk /\ d \in Blocks
      BY <1>u, <2>2, <2>3, <2>5, ChangesAre
    <3>2. Current(d) = writes[u][d]
      BY <1>c, <2>2, <3>1 DEF WritesThere
    <3> QED BY <1>c, <1>u, <2>2, <2>5, <3>1, <3>2
  <2> QED BY <2>4, <2>5
<1>2. CASE Still(u) /\ ~ \E b \in Blocks : \E v \in Values : set_int(u, b, v)
  <2>1. ~Undo(u)
    <3> SUFFICES ASSUME Undo(u) PROVE FALSE
      OBVIOUS
    <3>1. pc[u] = "restore" /\ pc'[u] = "undo"
      BY <1>c, <1>u, UndoStep
    <3> QED BY <1>2, <3>1 DEF Still
  <2> QED BY <1>2, <1>a, <2>1 DEF Still
<1>3. CASE Quiet(u) /\ ~ \E b \in Blocks : \E v \in Values : set_int(u, b, v)
  <2>1. Changes(u)' = Changes(u) /\ writes'[u] = writes[u]
    BY <1>3 DEF Quiet
  <2>2. pc[u] \in {"active", "pin"} \/ op[u] = "commit"
    BY <1>3 DEF Quiet, Moves
  <2>3. ~Undo(u)
    <3> SUFFICES ASSUME Undo(u) PROVE FALSE
      OBVIOUS
    <3>1. pc[u] = "restore" /\ pc'[u] = "undo"
      BY <1>c, <1>u, UndoStep
    <3> QED BY <1>3, <3>1 DEF Quiet, Moves
  <2> QED BY <1>3, <1>a, <2>1, <2>2, <2>3
<1>4. CASE Begin(u)
  BY <1>4, <1>c, BeginStep
<1>5. CASE Iterate(u)
  BY <1>5, <1>c, <1>u, IterateStep
<1>6. CASE Undo(u)
  <2>1. pc[u] = "restore" /\ pc'[u] = "undo" /\ op'[u] = op[u]
    BY <1>6, <1>c, <1>u, UndoStep
  <2>2. op[u] \in {"rollback", "recover"}
    BY <1>u, <2>1 DEF PoolInv, Threads, Calls
  <2> QED BY <2>1, <2>2
<1>7. CASE WriteRecord(u)
  <2>1. /\ Changes(u)' = Changes(u) /\ writes' = writes /\ pc[u] = "record" /\ op'[u] = op[u]
        /\ pc'[u] = "force"
    BY <1>7, <1>c, <1>u, WriteRecordStep
  <2>2. ~Undo(u) /\ ~ \E b \in Blocks : \E v \in Values : set_int(u, b, v)
    BY <2>1 DEF Undo, set_int
  <2> QED BY <1>a, <2>1, <2>2
<1>8. CASE FlushRecord(u)
  <2>1. /\ Changes(u)' = Changes(u) /\ writes' = writes /\ pc[u] = "force" /\ op'[u] = op[u]
        /\ pc'[u] = "release"
    BY <1>8, <1>c, <1>u, FlushRecordStep
  <2>2. ~Undo(u) /\ ~ \E b \in Blocks : \E v \in Values : set_int(u, b, v)
    BY <2>1 DEF Undo, set_int
  <2> QED BY <1>a, <2>1, <2>2
<1>9. CASE Release(u)
  BY <1>9, <1>c, <1>u, ReleaseStep
<1> QED BY <1>u, <1>1, <1>2, <1>3, <1>4, <1>5, <1>6, <1>7, <1>8, <1>9, Actor
(* The owner of a dirty buffer keeps its number and its changes.           *)
LEMMA OwnerStays ==
  ASSUME TxStep, NEW i \in Buffs, Dirty(i), NEW s \in Slots, num[s] = buf[i].tx,
         NEW b \in Blocks, NEW p \in ChangesOn(s, b)
  PROVE  num'[s] = num[s] /\ p \in ChangesOn(s, b)'
<1> USE DEF TxStep, TxInv
<1>c. CleanSame /\ UndoKnown /\ Honest
  BY DEF ValuesInv, LogInv
<1>1. p \in Changes(s)
  BY DEF ChangesOn
<1>2. num[s] # 0
  BY DEF Dirty, PoolInv, Buffers
<1>3. pc[s] # "idle"
  BY <1>2 DEF PoolInv, Threads, Numbers
<1>4. pc[s] # "unpin_all"
  BY <1>1, DoneChanges
<1>5. pc[s] \notin {"force", "release"}
  BY DEF PoolInv, Unforgotten, Mine
<1>6. num'[s] = num[s]
  <2>1. CASE Still(s)
    BY <2>1 DEF Still
  <2>2. CASE Quiet(s)
    BY <1>4, <2>2 DEF Quiet
  <2>3. CASE s \in Clients /\ Begin(s)
    BY <1>3, <1>c, <2>3, BeginStep
  <2>4. CASE s \in Clients /\ \E c \in Blocks : \E v \in Values : set_int(s, c, v)
    BY <1>c, <2>4, SetStep
  <2>5. CASE s = Sys /\ Startup
    BY <1>3, <1>c, <2>5, StartupStep
  <2>6. CASE Iterate(s)
    BY <1>c, <2>6, IterateStep
  <2>7. CASE Undo(s)
    BY <1>c, <2>7, UndoStep
  <2>8. CASE WriteRecord(s)
    BY <1>c, <2>8, WriteRecordStep
  <2>9. CASE FlushRecord(s)
    BY <1>c, <2>9, FlushRecordStep
  <2>10. CASE Release(s)
    BY <1>c, <2>10, ReleaseStep
  <2> QED BY <2>1, <2>2, <2>3, <2>4, <2>5, <2>6, <2>7, <2>8, <2>9, <2>10, Actor
<1>7. CASE Changes(s)' = Changes(s)
  <2>1. ChangesOn(s, b)' = ChangesOn(s, b)
    BY <1>7, ChangesOnKept
  <2> QED BY <1>6, <2>1
<1>8. CASE s \in Clients /\ \E c \in Blocks : \E v \in Values : set_int(s, c, v)
  <2>1. PICK c \in Blocks, v \in Values : set_int(s, c, v)
    BY <1>8
  <2>2. PICK n : n = Len(log) + 1
    OBVIOUS
  <2>3. p \in ChangesOn(s, b)'
    BY <1>8, <2>1, <2>2, SetChangesOn
  <2> QED BY <1>6, <2>3
<1>9. CASE Release(s) \/ FlushRecord(s)
  BY <1>5, <1>9 DEF Release, FlushRecord
<1> QED BY <1>7, <1>8, <1>9, ChangesStep

(* Who made a buffer dirty: it was, or it was written or restored.         *)
LEMMA DirtyStep ==
  ASSUME TxStep, NEW i \in Buffs, Dirty(i)'
  PROVE  \/ /\ Dirty(i) /\ buf'[i].blk = buf[i].blk /\ buf'[i].tx = buf[i].tx
            /\ buf'[i].lsn = buf[i].lsn
         \/ \E s \in Clients : \E b \in Blocks : \E v \in Values :
              /\ set_int(s, b, v) /\ num'[s] = num[s]
              /\ buf'[i].blk = b /\ buf'[i].tx = num[s] /\ buf'[i].lsn = Len(log) + 1
         \/ \E s \in Slots : \E p \in Changes(s) :
              /\ Changes(s)' = Changes(s) /\ num'[s] = num[s] /\ p <= saved /\ saved' = saved
              /\ buf'[i].blk = log[p].blk /\ buf'[i].tx = num[s]
<1> USE DEF TxStep, TxInv
<1>c. CleanSame /\ UndoKnown /\ Honest
  BY DEF ValuesInv, LogInv
<1>f. ASSUME PoolFrame
      PROVE  /\ Dirty(i) /\ buf'[i].blk = buf[i].blk /\ buf'[i].tx = buf[i].tx
             /\ buf'[i].lsn = buf[i].lsn
  BY <1>f DEF PoolFrame, DirtyKept
<1>o. ASSUME buf'[i] = buf[i]
      PROVE  /\ Dirty(i) /\ buf'[i].blk = buf[i].blk /\ buf'[i].tx = buf[i].tx
             /\ buf'[i].lsn = buf[i].lsn
  BY <1>o DEF Dirty
<1>1. ASSUME NEW s \in Clients, NEW b \in Blocks, NEW v \in Values, set_int(s, b, v), buf'[i] # buf[i]
      PROVE  /\ set_int(s, b, v) /\ num'[s] = num[s]
             /\ buf'[i].blk = b /\ buf'[i].tx = num[s] /\ buf'[i].lsn = Len(log) + 1
  BY <1>1, <1>c, SetStep
<1>2. ASSUME NEW s \in Slots, Undo(s), buf'[i] # buf[i]
      PROVE  \E p \in Changes(s) :
               /\ Changes(s)' = Changes(s) /\ num'[s] = num[s] /\ p <= saved /\ saved' = saved
               /\ buf'[i].blk = log[p].blk /\ buf'[i].tx = num[s]
  <2>1. PICK p \in Changes(s) :
             /\ Changes(s)' = Changes(s) /\ num'[s] = num[s] /\ saved' = saved /\ pc[s] = "restore"
             /\ buf'[i].blk = log[p].blk /\ buf'[i].tx = num[s]
    BY <1>2, <1>c, UndoStep
  <2>2. op[s] \in {"rollback", "recover"}
    BY <2>1 DEF PoolInv, Threads, Calls
  <2>3. p <= saved
    BY <1>c, <2>1, <2>2 DEF UndoKnown
  <2> QED BY <2>1, <2>3
<1>3. ASSUME NEW s \in Slots, Quiet(s) PROVE PoolFrame
  BY <1>3 DEF Quiet
<1>4. ASSUME NEW s \in Clients, Begin(s) PROVE PoolFrame
  BY <1>4, <1>c, BeginStep
<1>5. ASSUME Startup PROVE PoolFrame
  BY <1>5, <1>c, StartupStep
<1>6. ASSUME NEW s \in Slots, Iterate(s) PROVE PoolFrame
  BY <1>6, <1>c, IterateStep
<1>7. ASSUME NEW s \in Slots, WriteRecord(s) PROVE PoolFrame
  BY <1>7, <1>c, WriteRecordStep
<1>8. ASSUME NEW s \in Slots, FlushRecord(s) PROVE PoolFrame
  BY <1>8, <1>c, FlushRecordStep
<1>9. ASSUME NEW s \in Slots, Release(s) PROVE PoolFrame
  BY <1>9, <1>c, ReleaseStep
<1>10. CASE buf'[i] = buf[i]
  BY <1>o, <1>10
<1>11. CASE PoolFrame
  BY <1>f, <1>11
<1>12. CASE buf'[i] # buf[i] /\ ~PoolFrame
  <2>1. \/ \E s \in Slots : Undo(s)
        \/ \E s \in Clients : \E b \in Blocks : \E v \in Values : set_int(s, b, v)
    BY <1>c, <1>3, <1>4, <1>5, <1>6, <1>7, <1>8, <1>9, <1>12, KindsOfSteps
  <2>2. CASE \E s \in Slots : Undo(s)
    <3>1. PICK s \in Slots : Undo(s)
      BY <2>2
    <3> QED BY <1>2, <1>12, <3>1
  <2>3. CASE \E s \in Clients : \E b \in Blocks : \E v \in Values : set_int(s, b, v)
    BY <1>1, <1>12, <2>3
  <2> QED BY <2>1, <2>2, <2>3
<1> QED BY <1>10, <1>11, <1>12

(* Dirty buffers are changed ones, their log records saved before them.    *)
LEMMA DirtyChangedStep ==
  ASSUME TxStep
  PROVE  DirtyChanged'
<1> USE DEF TxStep, TxInv
<1>k. /\ Len(log) \in Nat /\ saved <= saved' /\ saved \in Nat /\ saved' \in Nat
      /\ \A s \in Slots : \A p \in Changes(s) : p \in Nat
  BY StepKeeps, ChangesAre
<1>c. CleanSame /\ Honest /\ UndoKnown /\ DirtyChanged
  BY DEF ValuesInv, LogInv
<1> SUFFICES ASSUME NEW i \in Buffs, Dirty(i)', NEW d, d = buf'[i].blk
             PROVE  \E s \in Slots : /\ num'[s] = buf'[i].tx
                                     /\ \E p \in ChangesOn(s, d)' : p <= saved' \/ p <= buf'[i].lsn
  BY DEF DirtyChanged, ChangesOn
<1>1. CASE Dirty(i) /\ buf'[i].blk = buf[i].blk /\ buf'[i].tx = buf[i].tx /\ buf'[i].lsn = buf[i].lsn
  <2>1. PICK s \in Slots : /\ num[s] = buf[i].tx
                           /\ \E p \in ChangesOn(s, d) : p <= saved \/ p <= buf[i].lsn
    BY <1>1, <1>c DEF DirtyChanged
  <2>2. PICK p \in ChangesOn(s, d) : p <= saved \/ p <= buf[i].lsn
    BY <2>1
  <2>3. d \in Blocks /\ p \in Nat
    BY <2>2, <1>k, ChangesAre DEF ChangesOn
  <2>4. num'[s] = num[s] /\ p \in ChangesOn(s, d)'
    BY <1>1, <2>1, <2>3, OwnerStays
  <2>5. p <= saved' \/ p <= buf'[i].lsn
    BY <1>1, <1>k, <2>2, <2>3
  <2> QED BY <1>1, <2>1, <2>4, <2>5
<1>2. ASSUME NEW s \in Clients, NEW b \in Blocks, NEW v \in Values, set_int(s, b, v), num'[s] = num[s],
             buf'[i].blk = b, buf'[i].tx = num[s], buf'[i].lsn = Len(log) + 1
      PROVE  \E u \in Slots : /\ num'[u] = buf'[i].tx
                              /\ \E p \in ChangesOn(u, d)' : p <= saved' \/ p <= buf'[i].lsn
  <2>1. PICK n : n = Len(log) + 1
    OBVIOUS
  <2>2. n \in ChangesOn(s, d)' /\ n \in Nat
    BY <1>2, <2>1, SetChangesOn
  <2>3. s \in Slots /\ n <= buf'[i].lsn
    BY <1>2, <2>1, <2>2 DEF Slots
  <2> QED BY <1>2, <2>2, <2>3
<1>3. ASSUME NEW s \in Slots, NEW p \in Changes(s), Changes(s)' = Changes(s), num'[s] = num[s],
             p <= saved, saved' = saved, buf'[i].blk = log[p].blk, buf'[i].tx = num[s]
      PROVE  \E u \in Slots : /\ num'[u] = buf'[i].tx
                              /\ \E q \in ChangesOn(u, d)' : q <= saved' \/ q <= buf'[i].lsn
  <2>1. p \in ChangesOn(s, d) /\ d \in Blocks
    BY <1>3, ChangesAre DEF ChangesOn
  <2>2. p \in ChangesOn(s, d)'
    BY <1>3, <2>1, ChangesOnKept
  <2> QED BY <1>3, <2>2
<1> QED BY <1>1, <1>2, <1>3, DirtyStep

(* When a thread lets go of its changes, they are on the disk as they are  *)
(* committed.                                                              *)
LEMMA DoneOnDisk ==
  ASSUME TxStep, NEW s \in Slots, NEW b \in Blocks, ChangesOn(s, b) # {},
         Release(s) \/ (FlushRecord(s) /\ op[s] = "recover")
  PROVE  disk'[b] = base'[b]
<1> USE DEF TxStep, TxInv
<1>c. CleanSame /\ UndoKnown /\ Honest
  BY DEF ValuesInv, LogInv
<1>1. PICK p \in Changes(s) : log[p].blk = b
  BY DEF ChangesOn
<1>2. /\ disk' = disk /\ pc[s] \in {"force", "release"}
      /\ base' = (IF op[s] = "commit" THEN Overlay(base, {s}) ELSE base)
      /\ op[s] \in {"commit", "rollback", "recover"}
      /\ op[s] = "commit" => s # Sys
  <2>1. CASE Release(s)
    BY <1>1, <1>c, <2>1, ReleaseStep
  <2>2. CASE FlushRecord(s) /\ op[s] = "recover"
    BY <1>c, <2>2, FlushRecordStep
  <2> QED BY <2>1, <2>2
<1>3. Mine(s) = {}
  BY <1>2 DEF PoolInv, Unforgotten
<1>4. disk'[b] = Current(b)
  BY <1>2, <1>3, Flushed
<1>5. CASE op[s] = "commit"
  <2>1. s \in Clients
    BY <1>2, <1>5 DEF Slots
  <2>2. Current(b) = writes[s][b]
    BY <1>1, <1>5, <2>1 DEF ValuesInv, WritesThere
  <2>3. writes[s][b] # NoVal
    BY <2>2, CurrentIs, TxAssumption
  <2>4. base'[b] = (IF \E x \in {s} : writes[x][b] # NoVal
                    THEN writes[CHOOSE x \in {s} : writes[x][b] # NoVal][b]
                    ELSE base[b])
    BY <1>2, <1>5 DEF Overlay
  <2>5. (CHOOSE x \in {s} : writes[x][b] # NoVal) = s
    BY <2>3
  <2> QED BY <1>4, <2>2, <2>3, <2>4, <2>5
<1>6. CASE op[s] # "commit"
  <2>1. Current(b) = base[b]
    BY <1>1, <1>2, <1>6 DEF ValuesInv, AllUndone
  <2> QED BY <1>2, <1>4, <1>6, <2>1
<1> QED BY <1>5, <1>6

(* A page is written of a buffer whose log records are saved.              *)
LEMMA DiskStep ==
  ASSUME TxStep, NEW b \in Blocks, disk'[b] # disk[b]
  PROVE  \E i \in Buffs : Dirty(i) /\ buf[i].blk = b /\ buf[i].lsn <= saved
<1> USE DEF TxStep, TxInv
<1>c. CleanSame /\ UndoKnown /\ Honest
  BY DEF ValuesInv, LogInv
<1>f. ASSUME PoolFrame
      PROVE  \E i \in Buffs : Dirty(i) /\ buf[i].blk = b /\ buf[i].lsn <= saved
  BY <1>f DEF PoolFrame
<1>1. ASSUME NEW s \in Clients, NEW c \in Blocks, NEW v \in Values, set_int(s, c, v) PROVE FALSE
  BY <1>1, <1>c, SetStep
<1>2. ASSUME NEW s \in Slots, Undo(s) PROVE FALSE
  <2>1. disk' = disk
    BY <1>2, <1>c, UndoStep
  <2> QED BY <2>1
<1>3. ASSUME NEW s \in Slots, Quiet(s) PROVE PoolFrame
  BY <1>3 DEF Quiet
<1>4. ASSUME NEW s \in Clients, Begin(s) PROVE PoolFrame
  BY <1>4, <1>c, BeginStep
<1>5. ASSUME Startup PROVE PoolFrame
  BY <1>5, <1>c, StartupStep
<1>6. ASSUME NEW s \in Slots, Iterate(s) PROVE PoolFrame
  BY <1>6, <1>c, IterateStep
<1>7. ASSUME NEW s \in Slots, WriteRecord(s) PROVE PoolFrame
  BY <1>7, <1>c, WriteRecordStep
<1>8. ASSUME NEW s \in Slots, FlushRecord(s) PROVE PoolFrame
  BY <1>8, <1>c, FlushRecordStep
<1>9. ASSUME NEW s \in Slots, Release(s) PROVE PoolFrame
  BY <1>9, <1>c, ReleaseStep
<1> QED BY <1>c, <1>f, <1>1, <1>2, <1>3, <1>4, <1>5, <1>6, <1>7, <1>8, <1>9, KindsOfSteps

(* What the files have and the database has not is what is known of.       *)
LEMMA DiskCommittedStep ==
  ASSUME TxStep
  PROVE  DiskCommitted'
<1> USE DEF TxStep, TxInv
<1>k. /\ Len(log) \in Nat /\ saved <= saved' /\ saved \in Nat /\ saved' \in Nat
      /\ \A s \in Slots : \A p \in Changes(s) : p \in Nat
  BY StepKeeps, ChangesAre
<1>c. CleanSame /\ Honest /\ UndoKnown /\ DirtyChanged /\ DiskCommitted
  BY DEF ValuesInv, LogInv
<1> SUFFICES ASSUME NEW b \in Blocks, disk'[b] # base'[b]
             PROVE  \E s \in Slots : \E p \in ChangesOn(s, b)' : p <= saved'
  BY DEF DiskCommitted
<1>1. base'[b] = base[b]
  BY BaseStep, DoneOnDisk
<1>2. CASE disk'[b] # disk[b]
  <2>1. PICK i \in Buffs : Dirty(i) /\ buf[i].blk = b /\ buf[i].lsn <= saved
    BY <1>2, DiskStep
  <2>2. PICK s \in Slots : /\ num[s] = buf[i].tx
                           /\ \E p \in ChangesOn(s, b) : p <= saved \/ p <= buf[i].lsn
    BY <1>c, <2>1 DEF DirtyChanged
  <2>3. PICK p \in ChangesOn(s, b) : p <= saved \/ p <= buf[i].lsn
    BY <2>2
  <2>4. p \in ChangesOn(s, b)'
    BY <2>1, <2>2, OwnerStays
  <2>5. p \in Nat /\ buf[i].lsn \in Int
    BY <1>k DEF ChangesOn, PoolInv, TypeOK
  <2>6. p <= saved'
    BY <1>k, <2>1, <2>3, <2>5
  <2> QED BY <2>4, <2>6
<1>3. CASE disk'[b] = disk[b]
  <2>1. PICK s \in Slots : \E p \in ChangesOn(s, b) : p <= saved
    BY <1>1, <1>3, <1>c DEF DiskCommitted
  <2>2. PICK p \in ChangesOn(s, b) : p <= saved
    BY <2>1
  <2>3. p <= saved'
    <3>1. p \in Nat
      BY <1>k DEF ChangesOn
    <3> QED BY <1>k, <2>2, <3>1
  <2>4. ~ (Release(s) \/ (FlushRecord(s) /\ op[s] = "recover"))
    BY DoneOnDisk
  <2>5. CASE Changes(s)' = Changes(s)
    <3>1. p \in ChangesOn(s, b)'
      BY <2>5, ChangesOnKept
    <3> QED BY <2>3, <3>1
  <2>6. CASE s \in Clients /\ \E c \in Blocks : \E v \in Values : set_int(s, c, v)
    <3>1. PICK c \in Blocks, v \in Values : set_int(s, c, v)
      BY <2>6
    <3>2. PICK n : n = Len(log) + 1
      OBVIOUS
    <3>3. p \in ChangesOn(s, b)'
      BY <2>6, <3>1, <3>2, SetChangesOn
    <3> QED BY <2>3, <3>3
  <2> QED BY <2>4, <2>5, <2>6, ChangesStep
<1> QED BY <1>2, <1>3
(* What has been undone shows the oldest of the values undone.             *)
LEMMA UndoneStep ==
  ASSUME TxStep
  PROVE  Undone'
<1> USE DEF TxStep, TxInv
<1>k. Len(log) \in Nat
  BY StepKeeps
<1>c. CleanSame /\ Honest /\ UndoKnown /\ Undone
  BY DEF ValuesInv, LogInv
<1> SUFFICES ASSUME NEW u \in Slots, pc'[u] \in {"undo", "restore"},
                    NEW p \in Changes(u)', p > pos'[u], FirstUndone(u, p)', NEW d, d = log'[p].blk
             PROVE  Current(d)' = log'[p].val
  BY DEF Undone
<1>p. pos[u] \in Nat
  BY DEF PoolInv, TypeOK
<1>f. \A q \in ChangesOn(u, d)' : q > pos'[u] => p <= q
  BY DEF FirstUndone, ChangesOn
<1>s. ASSUME Changes(u)' = Changes(u)
      PROVE  p \in Changes(u) /\ log'[p] = log[p] /\ d \in Blocks /\ p \in Nat /\ d = log[p].blk
             /\ ChangesOn(u, d)' = ChangesOn(u, d) /\ p \in ChangesOn(u, d)
  BY <1>s, ChangesOnKept DEF ChangesOn
<1>a. ASSUME pc[u] \in {"undo", "restore"}, pos'[u] = pos[u], Changes(u)' = Changes(u),
             ~ (u \in Clients /\ \E v \in Values : set_int(u, d, v)), ~Undo(u)
      PROVE  Current(d)' = log'[p].val
  <2>1. /\ p \in Changes(u) /\ log'[p] = log[p] /\ d \in Blocks /\ p \in Nat /\ d = log[p].blk
        /\ ChangesOn(u, d)' = ChangesOn(u, d) /\ p \in ChangesOn(u, d)
    BY <1>a, <1>s
  <2>2. FirstUndone(u, p)
    BY <1>a, <1>f, <2>1 DEF FirstUndone
  <2>3. Current(d) = log[p].val
    BY <1>a, <1>c, <2>1, <2>2 DEF Undone
  <2>4. Current(d)' = Current(d)
    BY <1>a, <2>1, CurrentStep
  <2> QED BY <2>1, <2>3, <2>4
<1>1. CASE Undo(u)
  <2>1. PICK r \in Changes(u), b \in Blocks :
             /\ b = log[r].blk /\ r <= pos[u] /\ \A q \in Changes(u) : q <= pos[u] => q <= r
             /\ Changes(u)' = Changes(u) /\ pc[u] = "restore" /\ pos'[u] = r - 1
             /\ Current(b)' = log[r].val /\ \A c \in Blocks : c # b => Current(c)' = Current(c)
    BY <1>1, <1>c, UndoStep
  <2>2. /\ p \in Changes(u) /\ log'[p] = log[p] /\ d \in Blocks /\ p \in Nat /\ d = log[p].blk
        /\ ChangesOn(u, d)' = ChangesOn(u, d) /\ p \in ChangesOn(u, d)
    BY <1>s, <2>1
  <2>3. r \in Nat /\ \A q \in ChangesOn(u, d) : q \in Nat
    BY <2>1, ChangesAre DEF ChangesOn
  <2>4. CASE d = b
    <3>1. r \in ChangesOn(u, d)
      BY <2>1, <2>4 DEF ChangesOn
    <3>2. p <= r
      BY <1>f, <2>1, <2>2, <2>3, <3>1
    <3>3. p = r
      BY <2>1, <2>2, <2>3, <3>2
    <3> QED BY <2>1, <2>2, <2>4, <3>3
  <2>5. CASE d # b
    <3>1. p # r
      BY <2>1, <2>2, <2>5
    <3>2. p > pos[u]
      BY <1>p, <2>1, <2>2, <2>3, <3>1
    <3>3. \A q \in ChangesOn(u, d) : q > pos[u] => p <= q
      BY <1>f, <1>p, <2>1, <2>2, <2>3
    <3>4. FirstUndone(u, p)
      BY <2>2, <3>3 DEF FirstUndone
    <3>5. Current(d) = log[p].val
      BY <1>c, <2>1, <2>2, <3>2, <3>4 DEF Undone
    <3> QED BY <2>1, <2>2, <2>5, <3>5
  <2> QED BY <2>4, <2>5
<1>2. CASE Still(u) /\ ~Undo(u) /\ ~ (u \in Clients /\ \E b \in Blocks : \E v \in Values : set_int(u, b, v))
  BY <1>2, <1>a, <1>s DEF Still
<1>3. CASE Quiet(u) /\ ~Undo(u) /\ ~ (u \in Clients /\ \E b \in Blocks : \E v \in Values : set_int(u, b, v))
  <2>1. pc[u] \in {"undo", "restore"}
    BY <1>3 DEF Quiet, Moves
  <2>2. pos'[u] = pos[u] /\ Changes(u)' = Changes(u)
    BY <1>3, <2>1 DEF Quiet
  <2> QED BY <1>3, <1>a, <1>s, <2>1, <2>2
<1>4. CASE u \in Clients /\ \E b \in Blocks : \E v \in Values : set_int(u, b, v)
  BY <1>4, <1>c, SetStep
<1>5. CASE u \in Clients /\ Begin(u)
  BY <1>5, <1>c, BeginStep
<1>6. CASE u = Sys /\ Startup
  BY <1>6, <1>c, StartupStep
<1>7. CASE Iterate(u)
  <2>1. Changes(u)' = Changes(u) /\ pos'[u] = Len(log)
    BY <1>7, <1>c, IterateStep
  <2>2. p \in 1 .. Len(log)
    BY <2>1, ChangesAre
  <2> QED BY <1>k, <2>1, <2>2
<1>8. CASE WriteRecord(u)
  BY <1>8, <1>c, WriteRecordStep
<1>9. CASE FlushRecord(u)
  BY <1>9, <1>c, FlushRecordStep
<1>10. CASE Release(u)
  BY <1>10, <1>c, ReleaseStep
<1> QED BY <1>1, <1>2, <1>3, <1>4, <1>5, <1>6, <1>7, <1>8, <1>9, <1>10, Actor

(* When all is undone, the blocks have their committed values.             *)
LEMMA UndoneAll ==
  ASSUME TxInv, NEW u \in Slots, pc[u] = "undo", ToUndo(u) = {}, NEW p \in Changes(u)
  PROVE  Current(log[p].blk) = base[log[p].blk]
<1> USE DEF TxInv
<1>1. PICK d \in Blocks : d = log[p].blk
  BY ChangesAre
<1>2. Going(u) = Changes(u) /\ pos[u] \in Nat
  BY DEF LogInv, UndoKnown, PoolInv, TypeOK
<1>3. ToUndo(u) = {q \in Going(u) : q <= pos[u]}
  BY DEF ToUndo, Going
<1>4. \A q \in Changes(u) : q \in Nat /\ q > pos[u]
  BY <1>2, <1>3, ChangesAre
<1>5. ChangesOn(u, d) \subseteq Nat /\ p \in ChangesOn(u, d)
  BY <1>1, <1>4 DEF ChangesOn
<1>6. PICK m \in ChangesOn(u, d) : \A q \in ChangesOn(u, d) : m <= q
  BY <1>5, MinIn
<1>7. m \in Changes(u) /\ log[m].blk = d
  BY DEF ChangesOn
<1>8. FirstUndone(u, m) /\ First(u, m)
  BY <1>6, <1>7 DEF FirstUndone, First
<1>9. Current(d) = log[m].val
  BY <1>4, <1>7, <1>8 DEF ValuesInv, Undone
<1>10. log[m].val = base[d]
  BY <1>7, <1>8 DEF ValuesInv, OldIsCommitted
<1> QED BY <1>1, <1>9, <1>10

(* And so they stay until the thread lets go of its changes.               *)
LEMMA AllUndoneStep ==
  ASSUME TxStep
  PROVE  AllUndone'
<1> USE DEF TxStep, TxInv
<1>c. CleanSame /\ Honest /\ UndoKnown /\ AllUndone
  BY DEF ValuesInv, LogInv
<1> SUFFICES ASSUME NEW u \in Slots, op'[u] \in {"rollback", "recover"},
                    pc'[u] \in {"flush", "record", "force", "release"},
                    NEW p \in Changes(u)', NEW d, d = log'[p].blk
             PROVE  Current(d)' = base'[d]
  BY DEF AllUndone
<1>a. ASSUME Changes(u)' = Changes(u), \A q \in Changes(u) : Current(log[q].blk) = base[log[q].blk],
             ~ (u \in Clients /\ \E v \in Values : set_int(u, d, v)), ~Undo(u)
      PROVE  Current(d)' = base'[d]
  <2>1. p \in Changes(u) /\ d \in Blocks /\ d = log[p].blk /\ p \in ChangesOn(u, d)
    BY <1>a, ChangesOnKept DEF ChangesOn
  <2>2. Current(d)' = Current(d)
    BY <1>a, <2>1, CurrentStep
  <2>3. base'[d] = base[d]
    BY <1>a, <2>1, BaseKept
  <2> QED BY <1>a, <2>1, <2>2, <2>3
<1>b. ASSUME op[u] \in {"rollback", "recover"}, pc[u] \in {"flush", "record", "force", "release"}
      PROVE  \A q \in Changes(u) : Current(log[q].blk) = base[log[q].blk]
  BY <1>b, <1>c DEF AllUndone
<1>1. CASE Undo(u)
  <2>1. pc'[u] = "undo"
    BY <1>1, <1>c, UndoStep
  <2> QED BY <2>1
<1>2. CASE Still(u) /\ ~Undo(u) /\ ~ (u \in Clients /\ \E b \in Blocks : \E v \in Values : set_int(u, b, v))
  <2>1. op[u] \in {"rollback", "recover"} /\ pc[u] \in {"flush", "record", "force", "release"}
        /\ Changes(u)' = Changes(u)
    BY <1>2 DEF Still
  <2> QED BY <1>2, <1>a, <1>b, <2>1, ChangesOnKept
<1>3. CASE Quiet(u) /\ ~Undo(u) /\ ~ (u \in Clients /\ \E b \in Blocks : \E v \in Values : set_int(u, b, v))
  <2>1. Changes(u)' = Changes(u)
    BY <1>3 DEF Quiet
  <2>2. d \in Blocks
    BY <2>1, ChangesOnKept
  <2>3. CASE pc[u] = "undo" /\ ToUndo(u) = {}
    BY <1>3, <1>a, <2>1, <2>2, <2>3, UndoneAll
  <2>4. CASE ~ (pc[u] = "undo" /\ ToUndo(u) = {})
    <3>1. op[u] \in {"rollback", "recover"} /\ pc[u] \in {"flush", "record", "force", "release"}
      BY <1>3, <2>4 DEF Quiet, Moves
    <3> QED BY <1>3, <1>a, <1>b, <2>1, <2>2, <3>1
  <2> QED BY <2>3, <2>4
<1>4. CASE u \in Clients /\ \E b \in Blocks : \E v \in Values : set_int(u, b, v)
  BY <1>4, <1>c, SetStep
<1>5. CASE u \in Clients /\ Begin(u)
  BY <1>5, <1>c, BeginStep
<1>6. CASE u = Sys /\ Startup
  BY <1>6, <1>c, StartupStep
<1>7. CASE Iterate(u)
  BY <1>7, <1>c, IterateStep
<1>8. CASE WriteRecord(u)
  <2>1. Changes(u)' = Changes(u) /\ pc[u] = "record" /\ op'[u] = op[u]
    BY <1>8, <1>c, WriteRecordStep
  <2>2. ~Undo(u) /\ ~ (u \in Clients /\ \E v \in Values : set_int(u, d, v))
    BY <2>1 DEF Undo, set_int
  <2> QED BY <1>a, <1>b, <2>1, <2>2
<1>9. CASE FlushRecord(u)
  <2>1. /\ op[u] # "recover" /\ op'[u] = op[u] /\ pc[u] = "force" /\ Changes(u)' = Changes(u)
    BY <1>9, <1>c, FlushRecordStep
  <2>2. ~Undo(u) /\ ~ (u \in Clients /\ \E v \in Values : set_int(u, d, v))
    BY <2>1 DEF Undo, set_int
  <2> QED BY <1>a, <1>b, <2>1, <2>2
<1>10. CASE Release(u)
  BY <1>10, <1>c, ReleaseStep
<1> QED BY <1>1, <1>2, <1>3, <1>4, <1>5, <1>6, <1>7, <1>8, <1>9, <1>10, Actor

-----------------------------------------------------------------------------
(* A crash keeps the invariant, and it holds at first.                     *)

(* After a crash the new process answers for what recovery will undo.      *)
LEMMA CrashChanges ==
  ASSUME TxInv, Crash
  PROVE  /\ \A p \in 1 .. saved : log'[p] = log[p]
         /\ Len(log') = saved /\ saved' = saved /\ saved \in Nat
         /\ Changes(Sys)' = RecoverSet(saved)
         /\ \A s \in Slots : s # Sys => Changes(s)' = {}
<1>0. log \in Seq(Records) /\ saved \in 0 .. Len(log) /\ Len(log) \in Nat
  BY DEF TxInv, PoolInv, TypeOK
<1>1. log' = SubSeq(log, 1, saved) /\ saved' = saved
  BY DEF Crash
<1>2. Len(log') = saved /\ \A p \in 1 .. saved : log'[p] = log[p]
  BY <1>0, <1>1
<1>3. started' = "no" /\ \A s \in Slots : pc'[s] = "idle"
  BY DEF Crash, All
<1>4. PICK n : n = saved
  OBVIOUS
<1>5. RecoverSet(n)' = RecoverSet(n)
  BY <1>2, <1>4 DEF RecoverSet
<1>6. Sys \in Slots
  BY DEF Slots
<1>7. RecoverTop' = n /\ Recovering'
  BY <1>2, <1>3, <1>4, <1>6 DEF RecoverTop, Recovering
<1>8. Changes(Sys)' = RecoverSet(n)'
  BY <1>7 DEF Changes, RecoverSet
<1>9. \A s \in Slots : s # Sys => Changes(s)' = {}
  BY <1>3 DEF Changes
<1> QED BY <1>0, <1>1, <1>2, <1>4, <1>5, <1>8, <1>9

(* A crash keeps the invariant.                                            *)
LEMMA CrashStep ==
  ASSUME TxInv, Crash, PoolInv'
  PROVE  TxInv'
<1>0. Clients \subseteq Slots /\ Sys \in Slots /\ Sys \notin Clients
  BY TxAssumption DEF Slots
<1>1. /\ \A p \in 1 .. saved : log'[p] = log[p]
      /\ Len(log') = saved /\ saved' = saved /\ saved \in Nat
      /\ Changes(Sys)' = RecoverSet(saved)
      /\ \A s \in Slots : s # Sys => Changes(s)' = {}
  BY CrashChanges
<1>2. /\ \A s \in Slots : pc'[s] = "idle" /\ op'[s] = "none" /\ commitAt'[s] = 0
                          /\ locks'[s] = NoLocks /\ writes'[s] = Nothing
      /\ \A i \in Buffs : buf'[i] = FreeBuffer
      /\ base' = DB /\ disk' = disk
  BY DEF Crash, All
<1>3. DB = Recovered
  BY TxInvRecoverable DEF Recoverable
<1>4. \A p \in RecoverSet(saved) : p \in 1 .. saved /\ log[p].op = "setint" /\ log'[p] = log[p]
  BY <1>1 DEF RecoverSet
<1>5. \A b : ChangesOn(Sys, b)' = {p \in RecoverSet(saved) : log[p].blk = b}
  <2> TAKE b
  <2>1. ChangesOn(Sys, b)' = {p \in RecoverSet(saved) : log'[p].blk = b}
    BY <1>1 DEF ChangesOn
  <2> QED BY <1>4, <2>1
<1>6. Accounted'
  <2> SUFFICES ASSUME NEW p \in Setints'
               PROVE  (\E s \in Slots : p \in Changes(s)') \/ (\E q \in p .. saved' : Ends(q, p)')
    BY DEF Accounted
  <2>1. p \in 1 .. saved /\ log'[p].op = "setint" /\ log'[p] = log[p]
    BY <1>1 DEF Setints
  <2>2. CASE \E q \in p .. saved : Ends(q, p)
    <3>1. PICK q \in p .. saved : Ends(q, p)
      BY <2>2
    <3>2. q \in 1 .. saved
      BY <1>1, <2>1
    <3>3. Ends(q, p)'
      BY <1>1, <2>1, <3>1, <3>2 DEF Ends
    <3> QED BY <1>1, <3>3
  <2>3. CASE ~ \E q \in p .. saved : Ends(q, p)
    <3>1. p \in RecoverSet(saved)
      BY <2>1, <2>3 DEF RecoverSet, Ends
    <3> QED BY <1>0, <1>1, <3>1
  <2> QED BY <2>2, <2>3
<1>7. Unended'
  <2> SUFFICES ASSUME NEW s \in Slots, NEW p \in Changes(s)', NEW q \in p .. saved, Ends(q, p)'
               PROVE  FALSE
    BY <1>1 DEF Unended
  <2>1. s = Sys /\ p \in RecoverSet(saved)
    BY <1>1
  <2>2. q \in 1 .. saved /\ p \in 1 .. saved
    BY <1>1, <1>4, <2>1
  <2>3. Ends(q, p)
    BY <1>1, <2>2 DEF Ends
  <2> QED BY <2>1, <2>3 DEF RecoverSet, Ends
<1>8. Finishing' /\ CommitAts' /\ UndoKnown'
  BY <1>2 DEF Finishing, CommitAts, UndoKnown
<1>9. LocksHeld'
  BY <1>0, <1>1, <1>2 DEF LocksHeld, NoLocks
<1>10. OldIsCommitted'
  <2> SUFFICES ASSUME NEW s \in Slots, NEW p \in Changes(s)', First(s, p)', NEW b, b = log'[p].blk
               PROVE  log'[p].val = base'[b]
    BY DEF OldIsCommitted
  <2>1. s = Sys /\ p \in RecoverSet(saved)
    BY <1>1
  <2>2. \A q \in ChangesOn(Sys, b)' : p <= q
    BY <2>1 DEF First, ChangesOn
  <2>3. PICK old : old = {q \in RecoverSet(saved) : log[q].blk = b}
    OBVIOUS
  <2>4. p \in old /\ old \subseteq Nat /\ \A q \in old : p <= q
    BY <1>1, <1>4, <1>5, <2>1, <2>2, <2>3
  <2>5. Min(old) = p
    <3>1. Min(old) \in old /\ \A q \in old : Min(old) <= q
      BY <2>4, MinIn
    <3>2. Min(old) <= p /\ p <= Min(old) /\ p \in Nat /\ Min(old) \in Nat
      BY <2>4, <3>1
    <3> QED BY <3>2
  <2>6. b \in Blocks
    <3>1. p \in 1 .. Len(log')
      BY <1>1, <1>4, <2>1
    <3>2. log'[p].op = "setint"
      BY <1>4, <2>1
    <3> QED BY <3>1, <3>2 DEF PoolInv, Threads, Iterators
  <2>7. Recovered[b] = log[p].val
    BY <2>3, <2>4, <2>5, <2>6 DEF Recovered
  <2> QED BY <1>2, <1>3, <1>4, <2>1, <2>7
<1>11. WritesLogged'
  BY <1>0, <1>2 DEF WritesLogged, Nothing
<1>12. WritesThere'
  BY <1>0, <1>1 DEF WritesThere
<1>13. DirtyChanged' /\ CleanSame'
  BY <1>2 DEF DirtyChanged, CleanSame, Dirty, FreeBuffer
<1>14. DiskCommitted'
  <2> SUFFICES ASSUME NEW b \in Blocks, disk'[b] # base'[b]
               PROVE  \E s \in Slots : \E p \in ChangesOn(s, b)' : p <= saved'
    BY DEF DiskCommitted
  <2>1. Recovered[b] # disk[b]
    BY <1>2, <1>3
  <2>2. PICK p \in RecoverSet(saved) : log[p].blk = b
    BY <2>1 DEF Recovered
  <2>3. p \in ChangesOn(Sys, b)' /\ p <= saved'
    BY <1>1, <1>4, <1>5, <2>2
  <2> QED BY <1>0, <2>3
<1>15. Undone' /\ AllUndone'
  BY <1>2 DEF Undone, AllUndone
<1>16. Honest'
  <2>1. promised' = saved
    BY DEF Crash
  <2> QED BY <1>1, <1>2, <2>1 DEF Honest
<1> QED
  BY <1>6, <1>7, <1>8, <1>9, <1>10, <1>11, <1>12, <1>13, <1>14, <1>15, <1>16 DEF TxInv, LogInv, ValuesInv

(* At first there is no log, and nothing to answer for.                    *)
LEMMA TxInvInit ==
  ASSUME Init
  PROVE  TxInv
<1>0. Clients \subseteq Slots /\ Sys \in Slots /\ Sys \notin Clients /\ PoolInv
  BY TxAssumption, PoolInvInit DEF Slots
<1>1. Len(log) = 0 /\ saved = 0 /\ Setints = {}
  BY DEF Init, Setints
<1>2. \A s \in Slots : pc[s] = "idle" /\ op[s] = "none" /\ commitAt[s] = 0
                       /\ locks[s] = NoLocks /\ writes[s] = Nothing
  BY DEF Init, All
<1>3. \A s \in Slots : Changes(s) = {}
  <2>1. RecoverTop = 0
    BY <1>0, <1>1, <1>2 DEF RecoverTop
  <2>2. RecoverSet(0) = {}
    BY DEF RecoverSet
  <2> QED BY <1>2, <2>1, <2>2 DEF Changes
<1>4. \A s \in Slots : \A b : ChangesOn(s, b) = {}
  BY <1>3 DEF ChangesOn
<1>5. LogInv
  <2>1. promised = 0
    BY DEF Init
  <2>2. Honest
    BY <1>1, <1>2, <2>1 DEF Honest
  <2> QED BY <1>1, <1>2, <1>3, <2>2 DEF LogInv, Accounted, Unended, Finishing, CommitAts, UndoKnown
<1>6. LocksHeld
  BY <1>0, <1>2, <1>3 DEF LocksHeld, NoLocks
<1>7. \A i \in Buffs : buf[i] = FreeBuffer
  BY DEF Init
<1>8. DirtyChanged /\ CleanSame
  BY <1>7 DEF DirtyChanged, CleanSame, Dirty, FreeBuffer
<1>9. DiskCommitted
  BY DEF Init, DiskCommitted
<1>10. OldIsCommitted /\ WritesLogged /\ WritesThere /\ Undone /\ AllUndone
  BY <1>0, <1>2, <1>3 DEF OldIsCommitted, WritesLogged, WritesThere, Undone, AllUndone, Nothing
<1> QED BY <1>0, <1>5, <1>6, <1>8, <1>9, <1>10 DEF TxInv, ValuesInv

(* Every step keeps the invariant.                                         *)
LEMMA TxInvStep ==
  ASSUME TxInv, [Next /\ Undisturbed]_vars
  PROVE  TxInv'
<1>1. PoolInv'
  BY PoolInvStep, PoolInvStutter DEF TxInv
<1>2. CASE Crash
  BY <1>1, <1>2, CrashStep
<1>3. CASE ~Crash
  <2>1. TxStep
    BY <1>1, <1>3 DEF TxStep
  <2>2. LogInv'
    BY <2>1, HonestStep, AccountedStep, UnendedStep, FinishingStep, CommitAtsStep, UndoKnownStep
       DEF LogInv
  <2>3. LocksHeld'
    BY <2>1, LocksHeldStep
  <2>4. CleanSame'
    BY <2>1, StepKeeps
  <2>5. ValuesInv'
    BY <2>1, <2>4, OldIsCommittedStep, WritesLoggedStep, WritesThereStep, DirtyChangedStep,
       DiskCommittedStep, UndoneStep, AllUndoneStep DEF ValuesInv
  <2> QED BY <1>1, <2>2, <2>3, <2>5 DEF TxInv
<1> QED BY <1>2, <1>3

-----------------------------------------------------------------------------
(* Theorems.                                                               *)

(* The inductive invariant of transactions, recovery and crashes.  It      *)
(* holds if no append, flush or other iterator() comes between the two     *)
(* steps of an iterator(): log_manager::iterator takes no mutex, and two   *)
(* connections can make what it promises untrue.                           *)
THEOREM TxInvariant == UndisturbedSpec => []TxInv
<1>1. Init => TxInv
  BY TxInvInit
<1>2. TxInv /\ [Next /\ Undisturbed]_vars => TxInv'
  BY TxInvStep
<1> QED BY <1>1, <1>2, PTL DEF UndisturbedSpec

(* Whenever the process dies, do_recover turns the data files into the     *)
(* committed database: any number of connections, blocks, buffers,         *)
(* transactions and crashes, also in a commit, a rollback or a recovery,   *)
(* as long as nobody else uses the log within a call of iterator().        *)
THEOREM AlwaysRecoverable == UndisturbedSpec => []Recoverable
<1>1. TxInv => Recoverable
  BY TxInvRecoverable
<1> QED BY <1>1, TxInvariant, PTL

(* Under its lock a transaction reads what it wrote, or else the last      *)
(* committed value, whatever the others commit, undo or evict, also after  *)
(* a crash: this too needs the log to hold what iterator() says it does.   *)
THEOREM Isolation == UndisturbedSpec => []ReadsCommittedOrOwn
<1>1. TxInv => ReadsCommittedOrOwn
  BY TxInvReads
<1> QED BY <1>1, TxInvariant, PTL

-----------------------------------------------------------------------------
(* TxSystem implements TxSpec.                                             *)

(* What the abstract transactions have written: those that have committed  *)
(* have nothing left to commit.                                            *)
AbsWrites == [s \in Slots |-> IF s \in Committed THEN Nothing ELSE writes[s]]

(* The database is what a recovery would find, block by block.             *)
DBAre ==
  /\ Recovered = DB
  /\ \A b \in Blocks :
       /\ \A s \in Slots : s \in Committed /\ writes[s][b] # NoVal => DB[b] = writes[s][b]
       /\ (\A s \in Slots : s \in Committed => writes[s][b] = NoVal) => DB[b] = base[b]

(* The invariant says so in this state ...                                 *)
LEMMA DBsAre == TxInv => DBAre
<1> SUFFICES ASSUME TxInv PROVE DBAre
  OBVIOUS
<1>1. Recovered = DB
  BY TxInvRecoverable DEF Recoverable
<1>2. PoolInv /\ LocksHeld /\ WritesLogged /\ CommitAts
  BY DEF TxInv, ValuesInv, LogInv
<1> QED BY <1>1, <1>2, DBIs DEF DBAre

(* ... and in the next.                                                    *)
LEMMA DBsNext == TxInv' => DBAre'
BY DBsAre, PTL

(* A database that is the same block by block is the same.                 *)
LEMMA SameDB ==
  ASSUME DBAre, DBAre', \A b \in Blocks : DB[b]' = DB[b]
  PROVE  Recovered' = Recovered
<1>1. DB = [b \in Blocks |-> DB[b]] /\ DB' = [b \in Blocks |-> DB[b]']
  BY DEF DB, Overlay
<1>2. DB' = DB
  BY <1>1
<1> QED BY <1>2 DEF DBAre

(* It is if those that have committed are, with what they wrote, and the   *)
(* committed values below.                                                 *)
LEMMA DBKept ==
  ASSUME DBAre, DBAre', base' = base, Committed' = Committed,
         \A s \in Committed : writes'[s] = writes[s]
  PROVE  Recovered' = Recovered
<1>1. ASSUME NEW b \in Blocks PROVE DB[b]' = DB[b]
  <2>0. Committed \subseteq Slots
    BY DEF Committed
  <2>1. CASE \E s \in Committed : writes[s][b] # NoVal
    <3>1. PICK s \in Committed : writes[s][b] # NoVal
      BY <2>1
    <3>2. DB[b] = writes[s][b] /\ DB[b]' = writes'[s][b]
      BY <2>0, <3>1 DEF DBAre
    <3> QED BY <3>2
  <2>2. CASE \A s \in Committed : writes[s][b] = NoVal
    <3>1. DB[b] = base[b] /\ DB[b]' = base'[b]
      BY <2>2 DEF DBAre
    <3> QED BY <3>1
  <2> QED BY <2>1, <2>2
<1> QED BY <1>1, SameDB

(* A step of which the ghosts know at most that more commit records are    *)
(* saved commits those transactions together.                              *)
LEMMA CommitTogether ==
  ASSUME DBAre, DBAre', base' = base, writes' = writes, Committed \subseteq Committed'
  PROVE  Abstract!Next
<1>s. PICK S : S = Committed' \ Committed
  OBVIOUS
<1>0. Committed \subseteq Slots /\ Committed' \subseteq Slots
  BY DEF Committed
<1>1. ASSUME NEW b \in Blocks
      PROVE  DB[b]' = IF \E s \in S : AbsWrites[s][b] # NoVal
                      THEN AbsWrites[CHOOSE s \in S : AbsWrites[s][b] # NoVal][b]
                      ELSE DB[b]
  <2>0. \A s \in S : AbsWrites[s] = writes[s]
    BY <1>0, <1>s DEF AbsWrites
  <2>1. CASE \E s \in S : AbsWrites[s][b] # NoVal
    <3>1. PICK w : w = CHOOSE s \in S : AbsWrites[s][b] # NoVal
      OBVIOUS
    <3>2. w \in S /\ AbsWrites[w][b] # NoVal
      BY <2>1, <3>1
    <3>3. w \in Slots /\ w \in Committed' /\ writes'[w][b] # NoVal
      BY <1>0, <1>s, <2>0, <3>2
    <3>4. DB[b]' = writes'[w][b]
      BY <3>3 DEF DBAre
    <3> QED BY <2>0, <2>1, <3>1, <3>2, <3>4
  <2>2. CASE \A s \in S : AbsWrites[s][b] = NoVal
    <3>1. CASE \E s \in Committed : writes[s][b] # NoVal
      <4>1. PICK s \in Committed : writes[s][b] # NoVal
        BY <3>1
      <4>2. DB[b] = writes[s][b] /\ DB[b]' = writes'[s][b]
        BY <1>0, <4>1 DEF DBAre
      <4> QED BY <2>2, <4>2
    <3>2. CASE \A s \in Committed : writes[s][b] = NoVal
      <4>1. \A s \in Committed' : writes'[s][b] = NoVal
        BY <1>0, <1>s, <2>0, <2>2, <3>2
      <4>2. DB[b] = base[b] /\ DB[b]' = base'[b]
        BY <3>2, <4>1 DEF DBAre
      <4> QED BY <2>2, <4>2
    <3> QED BY <3>1, <3>2
  <2> QED BY <2>1, <2>2
<1>2. DB' = [b \in Blocks |-> DB[b]']
  BY DEF DB, Overlay
<1>3. AbsWrites' = [s \in Slots |-> IF s \in S THEN Nothing ELSE AbsWrites[s]]
  BY <1>0, <1>s DEF AbsWrites
<1>4. Recovered = DB /\ Recovered' = DB'
  BY DEF DBAre
<1>5. DB' = [b \in Blocks |-> IF \E s \in S : AbsWrites[s][b] # NoVal
                              THEN AbsWrites[CHOOSE s \in S : AbsWrites[s][b] # NoVal][b]
                              ELSE DB[b]]
  BY <1>1, <1>2
<1>6. S \in SUBSET Slots
  BY <1>0, <1>s
<1>7. Abstract!Commit(S)
  <2>1. Recovered' = [b \in Blocks |-> IF \E s \in S : AbsWrites[s][b] # NoVal
                                      THEN AbsWrites[CHOOSE s \in S : AbsWrites[s][b] # NoVal][b]
                                      ELSE Recovered[b]]
    BY <1>4, <1>5
  <2>2. AbsWrites' = [s \in Slots |-> IF s \in S THEN Abstract!Nothing ELSE AbsWrites[s]]
    BY <1>3 DEF Abstract!Nothing, Nothing
  <2> QED BY <2>1, <2>2 DEF Abstract!Commit, AbsWrites
<1> QED BY <1>6, <1>7 DEF Abstract!Next

(* set_int is a write of the transaction: nobody else writes the block.    *)
LEMMA WriteImplemented ==
  ASSUME TxStep, DBAre, DBAre', NEW s \in Clients, NEW b \in Blocks, NEW v \in Values, set_int(s, b, v)
  PROVE  Abstract!Next
<1> USE DEF TxStep, TxInv
<1>0. s \in Slots
  BY DEF Slots
<1>c. CleanSame /\ Honest /\ CommitAts /\ WritesLogged /\ writes \in [Slots -> [Blocks -> Values \cup {NoVal}]]
  BY DEF ValuesInv, LogInv, PoolInv, TypeOK
<1>1. /\ saved' = saved /\ base' = base /\ commitAt' = commitAt
      /\ writes' = [writes EXCEPT ![s][b] = v] /\ pc[s] = "active"
      /\ \A u \in Slots : u # s => ChangesOn(u, b) = {}
  BY <1>c, SetStep
<1>2. Committed' = Committed
  BY <1>1 DEF Committed
<1>3. s \notin Committed
  BY <1>1, <1>c DEF Committed, CommitAts
<1>4. \A u \in Slots \ {s} : AbsWrites[u][b] = NoVal
  BY <1>1, <1>c DEF WritesLogged, AbsWrites, Nothing
<1>5. \A u \in Committed : writes'[u] = writes[u]
  BY <1>1, <1>3, <1>c DEF Committed
<1>6. Recovered' = Recovered
  BY <1>1, <1>2, <1>5, DBKept
<1>7. AbsWrites' = [AbsWrites EXCEPT ![s][b] = v]
  <2>1. ASSUME NEW u \in Slots PROVE AbsWrites'[u] = [AbsWrites EXCEPT ![s][b] = v][u]
    <3>1. CASE u = s
      BY <1>0, <1>1, <1>2, <1>3, <1>c, <3>1 DEF AbsWrites
    <3>2. CASE u # s
      BY <1>0, <1>1, <1>2, <1>c, <3>2 DEF AbsWrites
    <3> QED BY <3>1, <3>2
  <2> QED BY <2>1 DEF AbsWrites
<1>8. Abstract!Write(s, b, v)
  BY <1>4, <1>6, <1>7 DEF Abstract!Write, AbsWrites
<1> QED BY <1>0, <1>8 DEF Abstract!Next

(* A release after a commit changes nothing, one after a rollback is the   *)
(* abort.                                                                  *)
LEMMA ReleaseImplemented ==
  ASSUME TxStep, DBAre, DBAre', NEW s \in Slots, Release(s)
  PROVE  Abstract!Next \/ (Recovered' = Recovered /\ AbsWrites' = AbsWrites)
<1> USE DEF TxStep, TxInv
<1>c. /\ CleanSame /\ Honest /\ CommitAts /\ WritesLogged /\ Finishing
      /\ writes \in [Slots -> [Blocks -> Values \cup {NoVal}]]
      /\ commitAt \in [Slots -> Nat] /\ saved \in Nat
  <2>1. CleanSame /\ Honest /\ CommitAts /\ WritesLogged /\ Finishing
    BY DEF ValuesInv, LogInv
  <2>2. writes \in [Slots -> [Blocks -> Values \cup {NoVal}]] /\ commitAt \in [Slots -> Nat]
    BY DEF PoolInv, TypeOK
  <2> QED BY <2>1, <2>2, StepKeeps
<1>1. /\ saved' = saved /\ pc[s] = "release" /\ op[s] \in {"commit", "rollback"}
      /\ base' = (IF op[s] = "commit" THEN Overlay(base, {s}) ELSE base)
      /\ writes' = [writes EXCEPT ![s] = Nothing]
      /\ commitAt' = [commitAt EXCEPT ![s] = 0]
  BY <1>c, ReleaseStep
<1>2. /\ \A u \in Slots : u # s => writes'[u] = writes[u] /\ commitAt'[u] = commitAt[u]
      /\ writes'[s] = Nothing /\ commitAt'[s] = 0
  BY <1>1, <1>c
<1>3. Committed' = Committed \ {s}
  BY <1>1, <1>2 DEF Committed
<1>4. AbsWrites' = [AbsWrites EXCEPT ![s] = Nothing]
  <2>1. ASSUME NEW u \in Slots PROVE AbsWrites'[u] = [AbsWrites EXCEPT ![s] = Nothing][u]
    <3>1. CASE u = s
      BY <1>2, <1>3, <3>1 DEF AbsWrites
    <3>2. CASE u # s
      BY <1>2, <1>3, <3>2 DEF AbsWrites
    <3> QED BY <3>1, <3>2
  <2> QED BY <2>1 DEF AbsWrites
<1>5. CASE op[s] = "commit"
  <2>1. s \in Committed
    BY <1>1, <1>5, <1>c DEF Finishing, Committed
  <2>2. AbsWrites' = AbsWrites
    <3>1. AbsWrites[s] = Nothing
      BY <2>1 DEF AbsWrites
    <3> QED BY <1>4, <3>1 DEF AbsWrites
  <2>3. ASSUME NEW b \in Blocks PROVE DB[b]' = DB[b]
    <3>0. Committed \subseteq Slots /\ Committed' \subseteq Slots
      BY DEF Committed
    <3>1. base'[b] = (IF \E x \in {s} : writes[x][b] # NoVal
                      THEN writes[CHOOSE x \in {s} : writes[x][b] # NoVal][b]
                      ELSE base[b])
      BY <1>1, <1>5 DEF Overlay
    <3>2. CASE writes[s][b] # NoVal
      <4>1. DB[b] = writes[s][b]
        BY <2>1, <3>2 DEF DBAre
      <4>2. \A u \in Slots : u # s => writes[u][b] = NoVal
        BY <1>c, <3>2, OneOwner DEF WritesLogged
      <4>3. \A u \in Slots : u \in Committed' => writes'[u][b] = NoVal
        BY <1>2, <1>3, <4>2
      <4>4. DB[b]' = base'[b]
        BY <4>3 DEF DBAre
      <4>5. (CHOOSE x \in {s} : writes[x][b] # NoVal) = s
        BY <3>2
      <4> QED BY <3>1, <3>2, <4>1, <4>4, <4>5
    <3>3. CASE writes[s][b] = NoVal /\ \E u \in Committed : writes[u][b] # NoVal
      <4>1. PICK u \in Committed : writes[u][b] # NoVal
        BY <3>3
      <4>2. u # s /\ u \in Slots /\ u \in Committed' /\ writes'[u][b] = writes[u][b]
        BY <1>2, <1>3, <3>0, <3>3, <4>1
      <4>3. DB[b] = writes[u][b] /\ DB[b]' = writes'[u][b]
        BY <4>1, <4>2 DEF DBAre
      <4> QED BY <4>2, <4>3
    <3>4. CASE writes[s][b] = NoVal /\ \A u \in Committed : writes[u][b] = NoVal
      <4>1. base'[b] = base[b]
        BY <3>1, <3>4
      <4>2. \A u \in Committed' : writes'[u][b] = NoVal
        BY <1>2, <1>3, <3>0, <3>4
      <4>3. DB[b] = base[b] /\ DB[b]' = base'[b]
        BY <3>4, <4>2 DEF DBAre
      <4> QED BY <4>1, <4>3
    <3> QED BY <3>2, <3>3, <3>4
  <2> QED BY <2>2, <2>3, SameDB
<1>6. CASE op[s] = "rollback"
  <2>1. s \notin Committed
    BY <1>6, <1>c DEF Committed, CommitAts
  <2>2. Committed' = Committed /\ Committed \subseteq Slots
    BY <1>3, <2>1 DEF Committed
  <2>3. \A u \in Committed : writes'[u] = writes[u]
    BY <1>2, <2>1, <2>2
  <2>4. Recovered' = Recovered
    BY <1>1, <1>6, <2>2, <2>3, DBKept
  <2>5. Abstract!Abort(s)
    BY <1>4, <2>4 DEF Abstract!Abort, Abstract!Nothing, AbsWrites, Nothing
  <2> QED BY <2>5 DEF Abstract!Next
<1> QED BY <1>1, <1>5, <1>6

(* A crash forgets what has not committed.                                 *)
LEMMA CrashImplemented ==
  ASSUME DBAre, DBAre', Crash
  PROVE  Abstract!Next
<1>1. base' = DB /\ Committed' = {} /\ \A s \in Slots : writes'[s] = Nothing
  BY DEF Crash, All, Committed
<1>2. \A b \in Blocks : DB[b]' = base'[b]
  BY <1>1 DEF DBAre
<1>3. Recovered' = Recovered
  BY <1>1, <1>2, SameDB
<1>4. AbsWrites' = [s \in Slots |-> Nothing]
  BY <1>1 DEF AbsWrites
<1>5. Abstract!Crash
  BY <1>3, <1>4 DEF Abstract!Crash, Abstract!Nothing, AbsWrites, Nothing
<1> QED BY <1>5 DEF Abstract!Next

(* A new database is one.                                                  *)
LEMMA TxSpecInit == Init => Abstract!Init
<1> SUFFICES ASSUME Init PROVE Abstract!Init
  OBVIOUS
<1>1. DBAre
  BY TxInvInit, DBsAre
<1>2. Committed = {} /\ \A s \in Slots : writes[s] = Nothing
  BY DEF Init, All, Committed
<1>3. \A b \in Blocks : DB[b] = base[b]
  BY <1>1, <1>2 DEF DBAre
<1>4. DB \in [Blocks -> Values]
  <2>1. \A b \in Blocks : DB[b] \in Values
    BY <1>3, TxAssumption DEF Init
  <2>2. DB = [b \in Blocks |-> DB[b]]
    BY DEF DB, Overlay
  <2> QED BY <2>1, <2>2
<1>5. Recovered \in [Blocks -> Values]
  BY <1>1, <1>4 DEF DBAre
<1>6. AbsWrites = [s \in Slots |-> Nothing]
  BY <1>2 DEF AbsWrites
<1> QED BY <1>5, <1>6 DEF Abstract!Init, Abstract!Nothing, AbsWrites, Nothing

(* A step of the system is a step of the abstract transactions, or none.   *)
LEMMA TxSpecStep == TxInv /\ TxInv' /\ [Next]_vars => [Abstract!Next]_(Abstract!vars)
<1> SUFFICES ASSUME TxInv, TxInv', [Next]_vars
             PROVE  Abstract!Next \/ (Recovered' = Recovered /\ AbsWrites' = AbsWrites)
  BY DEF Abstract!vars, AbsWrites
<1>d. DBAre /\ DBAre'
  BY DBsAre, DBsNext
<1>1. CASE Crash
  BY <1>1, <1>d, CrashImplemented
<1>2. CASE ~Crash
  <2>t. TxStep
    BY <1>2 DEF TxStep, TxInv
  <2>c. CleanSame /\ Honest /\ UndoKnown /\ PoolInv /\ PoolInv' /\ LocksHeld /\ CommitAts
    BY DEF TxInv, ValuesInv, LogInv
  <2>k. saved <= saved' /\ saved \in Nat /\ saved' \in Nat /\ commitAt \in [Slots -> Nat] /\ Len(log) \in Nat
    BY <2>t, StepKeeps DEF TxInv, PoolInv, TypeOK
  <2>m. ASSUME base' = base, writes' = writes, commitAt' = commitAt PROVE Abstract!Next
    <3>1. Committed \subseteq Committed'
      BY <2>k, <2>m DEF Committed
    <3> QED BY <1>d, <2>m, <3>1, CommitTogether
  <2>1. ASSUME NEW s \in Slots, Quiet(s) PROVE Abstract!Next
    BY <2>1, <2>m DEF Quiet
  <2>2. ASSUME NEW s \in Clients, Begin(s) PROVE Abstract!Next
    BY <2>2, <2>c, <2>m, BeginStep
  <2>3. ASSUME Startup PROVE Abstract!Next
    BY <2>3, <2>c, <2>m, StartupStep
  <2>4. ASSUME NEW s \in Slots, Iterate(s) PROVE Abstract!Next
    BY <2>4, <2>c, <2>m, IterateStep
  <2>5. ASSUME NEW s \in Slots, Undo(s) PROVE Abstract!Next
    <3>1. base' = base /\ writes' = writes /\ commitAt' = commitAt
      BY <2>5, <2>c, UndoStep
    <3> QED BY <2>m, <3>1
  <2>6. ASSUME NEW s \in Slots, FlushRecord(s) PROVE Abstract!Next
    BY <2>6, <2>c, <2>m, FlushRecordStep
  <2>7. ASSUME NEW s \in Slots, WriteRecord(s) PROVE Abstract!Next
    <3>1. saved' = saved /\ base' = base /\ writes' = writes /\ pc[s] = "record" /\ Others(s)
      BY <2>7, <2>c, WriteRecordStep
    <3>2. s \notin Committed
      BY <2>c, <3>1 DEF Committed, CommitAts
    <3>3. \A u \in Slots : u # s => commitAt'[u] = commitAt[u]
      BY <3>1 DEF Others, Still
    <3>4. Committed \subseteq Committed'
      BY <3>1, <3>2, <3>3 DEF Committed
    <3> QED BY <1>d, <3>1, <3>4, CommitTogether
  <2>8. ASSUME NEW s \in Clients, NEW b \in Blocks, NEW v \in Values, set_int(s, b, v) PROVE Abstract!Next
    BY <1>d, <2>8, <2>t, WriteImplemented
  <2>9. ASSUME NEW s \in Slots, Release(s)
        PROVE  Abstract!Next \/ (Recovered' = Recovered /\ AbsWrites' = AbsWrites)
    BY <1>d, <2>9, <2>t, ReleaseImplemented
  <2> QED
    BY <1>2, <2>c, <2>1, <2>2, <2>3, <2>4, <2>5, <2>6, <2>7, <2>8, <2>9, KindsOfSteps
<1> QED BY <1>1, <1>2

(* Transactions are atomic and durable: to what a recovery would make of   *)
(* the files nothing happens but that the writes of transactions reach it, *)
(* all together, with their commit records; rollbacks, evictions, restarts *)
(* and the deaths of the process do not change it: for any number of       *)
(* connections that leave each other's calls of iterator() alone.          *)
THEOREM ImplementsTxSpec == UndisturbedSpec => AtomicAndDurable
<1>1. TxInv /\ TxInv' /\ [Next /\ Undisturbed]_vars => [Abstract!Next]_(Abstract!vars)
  BY TxSpecStep
<1> QED
  BY <1>1, TxInvariant, TxSpecInit, PTL DEF UndisturbedSpec, AtomicAndDurable, Abstract!Spec
=============================================================================
