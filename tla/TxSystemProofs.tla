---------------------------- MODULE TxSystemProofs ----------------------------
(***************************************************************************)
(* What holds of the pool and of the threads that work on it.              *)
(***************************************************************************)
EXTENDS TxSystem, SequenceTheorems, FiniteSetTheorems, WellFoundedInduction, TLAPS

-----------------------------------------------------------------------------
(* What the invariant says.                                                *)

(* Every transaction in progress has a number of its own.                  *)
Numbers ==
  /\ \A s \in Slots : num[s] = 0 <=> pc[s] = "idle"
  /\ \A s \in Slots : num[s] <= nextTx
  /\ \A s, u \in Slots : num[s] = num[u] /\ num[s] # 0 => s = u

(* What a thread is doing, and what it remembers while it does it.         *)
Calls ==
  /\ \A s \in Slots : op[s] = "none" <=> pc[s] \in {"idle", "active", "pin"}
  /\ \A s \in Clients : op[s] # "recover"
  /\ op[Sys] # "rollback"
  /\ pc[Sys] \notin {"active", "pin"} /\ pinned[Sys] = {}
  /\ \A s \in Slots : pc[s] = "pin" <=> want[s] # None
  /\ \A s \in Slots : pc[s] = "pin" => want[s] \notin pinned[s]
  /\ \A s \in Slots : pc[s] \in {"iterate", "iterating", "undo", "restore", "failed"}
                        => op[s] \in {"rollback", "recover"}
  /\ \A s \in Slots : pc[s] \in {"release", "unpin_all"} => op[s] \in {"rollback", "commit"}
  /\ \A s \in Slots : pc[s] = "idle" => pinned[s] = {}

BufRec == [blk : Blocks \cup {None}, val : Values, tx : Int, lsn : Int, pins : Nat]

(* An iterator stays within the log, and a block pinned by undo is for a   *)
(* record there is.                                                        *)
Iterators ==
  /\ \A s \in Slots : top[s] <= Len(log) /\ pos[s] <= top[s]
  /\ \A s \in Slots : pc[s] = "restore" => ToUndo(s) # {}
  /\ \A p \in 1 .. Len(log) : log[p].op = "setint" => log[p].blk \in Blocks

(* The start-up transaction is alone.                                      *)
StartUps ==
  /\ started = "no" => nextTx = 0 /\ saved = Len(log) /\ promised = Len(log)
  /\ started # "done" => \A s \in Clients : pc[s] = "idle"
  /\ started = "doing" <=> pc[Sys] # "idle"
  /\ started = "doing" => num[Sys] = 1 /\ nextTx = 1
  /\ started = "done" => nextTx >= 1
  /\ isNew => log = <<>> /\ started = "no"

Threads == Numbers /\ Calls /\ Iterators /\ StartUps

(* The pins of a block: one of each client that has pinned it, and one of  *)
(* each thread that is about to restore it.                                *)
Pinners(b) == {s \in Slots : b \in pinned[s]}
Restorers(b) == {s \in Slots : pc[s] = "restore" /\ UndoBlock(s) = b}
PinSet(P, R) == {<<s, 0>> : s \in P} \cup {<<s, 1>> : s \in R}
Refs(b) == PinSet(Pinners(b), Restorers(b))

(* No block is in two buffers, and a buffer's pins are those of its block. *)
Pins ==
  /\ \A i, j \in Buffs : buf[i].blk = buf[j].blk /\ buf[i].blk # None => i = j
  /\ \A i \in Buffs : buf[i].blk # None => buf[i].pins = Cardinality(Refs(buf[i].blk))
  /\ \A b \in Blocks : Existing(b) = {} => Refs(b) = {}

Buffers ==
  \A i \in Buffs :
    /\ buf[i].blk = None => buf[i].pins = 0 /\ buf[i].tx = -1
    /\ buf[i].tx \in {-1} \cup 1 .. nextTx
    /\ buf[i].lsn <= Len(log)

(* While a page is being written, its changes are still those its log      *)
(* records were saved for: nobody but the one that flushes it may use it.  *)
Writing ==
  writing # 0 => /\ Dirty(writing) /\ bm # None /\ buf[writing].lsn <= promised
                 /\ \/ buf[writing].pins = 0
                    \/ pc[bm] = "flush" /\ buf[writing].tx = num[bm]

(* What has been flushed is not changed again by its transaction.          *)
Unforgotten ==
  \A s \in Slots : pc[s] \in {"record", "force", "release", "unpin_all"} => Mine(s) = {}

PoolInv == /\ TypeOK
           /\ Threads
           /\ Pins
           /\ Buffers
           /\ Writing
           /\ ChangesAreLocked
           /\ Unforgotten

-----------------------------------------------------------------------------
(* A set of numbers that is not empty has a least element.                 *)
LEMMA MinIn ==
  ASSUME NEW S, S \subseteq Nat, S # {}
  PROVE  Min(S) \in S /\ \A y \in S : Min(S) <= y
<1> DEFINE R == OpToRel(<, Nat)
<1>1. \E x \in S : \A y \in S : ~ (<<y, x>> \in R)
  <2>1. IsWellFoundedOn(R, Nat)
    BY NatLessThanWellFounded
  <2> HIDE DEF R
  <2> QED BY <2>1, WFMin
<1>2. PICK x \in S : \A y \in S : ~ (<<y, x>> \in R)
  BY <1>1
<1>3. \A y \in S : x <= y
  <2> SUFFICES ASSUME NEW y \in S PROVE x <= y
    OBVIOUS
  <2>1. ~ (<<y, x>> \in R)
    BY <1>2
  <2>2. ~(y < x)
    BY <2>1 DEF OpToRel
  <2> QED BY <2>2
<1> QED BY <1>3 DEF Min

(* One that has a bound has a greatest element.                            *)
LEMMA MaxIn ==
  ASSUME NEW S, NEW n \in Nat, S \subseteq 0 .. n, S # {}
  PROVE  Max(S) \in S /\ \A y \in S : Max(S) >= y
<1> DEFINE T == {n - y : y \in S}
<1>1. T \subseteq Nat /\ T # {}
  <2>1. \A y \in S : n - y \in Nat
    OBVIOUS
  <2>2. \A x \in T : x \in Nat
    BY <2>1
  <2> QED BY <2>2
<1>2. PICK m \in T : \A y \in T : m <= y
  <2> HIDE DEF T
  <2> QED BY <1>1, MinIn
<1>3. n - m \in S /\ \A y \in S : n - m >= y
  BY <1>2
<1> QED BY <1>3 DEF Max

(* try_to_pin finds the block's buffer, or else an unpinned one.           *)
LEMMA TargetIs ==
  ASSUME NEW b, Available(b)
  PROVE  /\ Target(b) \in Buffs
         /\ Existing(b) # {} => buf[Target(b)].blk = b
         /\ Existing(b) = {} => buf[Target(b)].pins = 0
<1>1. Existing(b) \subseteq Nat /\ Unpinned \subseteq Nat
  BY DEF Existing, Unpinned, Buffs
<1>2. CASE Existing(b) # {}
  <2>1. Target(b) \in Existing(b)
    BY <1>1, <1>2, MinIn DEF Target
  <2> QED BY <1>2, <2>1 DEF Existing
<1>3. CASE Existing(b) = {}
  <2>1. Target(b) \in Unpinned
    BY <1>1, <1>3, MinIn DEF Target, Available
  <2> QED BY <1>3, <2>1 DEF Unpinned
<1> QED BY <1>2, <1>3

(* The record a thread undoes next is in the log.                          *)
LEMMA UndoIs ==
  ASSUME TypeOK, NEW s \in Slots, top[s] <= Len(log), ToUndo(s) # {}
  PROVE  /\ Max(ToUndo(s)) \in ToUndo(s)
         /\ \A p \in ToUndo(s) : p <= Max(ToUndo(s))
         /\ Max(ToUndo(s)) \in 1 .. Len(log)
         /\ Max(ToUndo(s)) <= pos[s]
         /\ log[Max(ToUndo(s))].op = "setint"
         /\ log[Max(ToUndo(s))] \in Records
<1>1. top[s] \in Nat /\ log \in Seq(Records)
  BY DEF TypeOK
<1>2. ToUndo(s) \subseteq 0 .. top[s]
  BY <1>1 DEF ToUndo, RecoverSet, RollbackSet
<1>3. /\ Max(ToUndo(s)) \in ToUndo(s)
      /\ \A p \in ToUndo(s) : Max(ToUndo(s)) >= p
  BY <1>1, <1>2, MaxIn
<1>4. \A p \in ToUndo(s) : p \in 1 .. top[s] /\ p <= pos[s] /\ log[p].op = "setint"
  BY DEF ToUndo, RecoverSet, RollbackSet
<1> HIDE DEF ToUndo
<1> DEFINE m == Max(ToUndo(s))
<1>5. m \in ToUndo(s) /\ \A p \in ToUndo(s) : m >= p
  BY <1>3
<1>6. m \in 1 .. top[s] /\ m <= pos[s] /\ log[m].op = "setint"
  BY <1>4, <1>5
<1>7. m \in 1 .. Len(log)
  BY <1>6, <1>1
<1>8. \A p \in ToUndo(s) : p <= m
  BY <1>4, <1>5, <1>6, <1>1
<1>9. log[m] \in Records
  BY <1>1, <1>7
<1> QED BY <1>5, <1>6, <1>7, <1>8, <1>9

-----------------------------------------------------------------------------
(* Counting pins.                                                          *)

(* Finitely many threads give finitely many pins.                          *)
LEMMA PinsFinite ==
  ASSUME NEW P, P \subseteq Slots, NEW R, R \subseteq Slots
  PROVE  /\ IsFiniteSet(PinSet(P, R))
         /\ Cardinality(PinSet(P, R)) \in Nat
         /\ P # {} \/ R # {} => Cardinality(PinSet(P, R)) > 0
<1>1. IsFiniteSet(Slots)
  BY TxAssumption, FS_AddElement DEF Slots
<1>2. IsFiniteSet({0, 1})
  <2>1. IsFiniteSet({} \cup {0})
    BY FS_AddElement, FS_EmptySet
  <2>2. IsFiniteSet(({} \cup {0}) \cup {1})
    BY <2>1, FS_AddElement
  <2>3. ({} \cup {0}) \cup {1} = {0, 1}
    OBVIOUS
  <2> QED BY <2>2, <2>3
<1>3. IsFiniteSet(Slots \X {0, 1})
  BY <1>1, <1>2, FS_Product
<1>4. PinSet(P, R) \subseteq Slots \X {0, 1}
  BY DEF PinSet
<1>5. IsFiniteSet(PinSet(P, R))
  BY <1>3, <1>4, FS_Subset
<1>6. P # {} \/ R # {} => PinSet(P, R) # {}
  BY DEF PinSet
<1> QED BY <1>5, <1>6, FS_CardinalityType, FS_EmptySet

(* A new pin counts one more ...                                           *)
LEMMA PinAdded ==
  ASSUME NEW P, P \subseteq Slots, NEW R, R \subseteq Slots, NEW s \in Slots
  PROVE  /\ s \notin P => Cardinality(PinSet(P \cup {s}, R)) = Cardinality(PinSet(P, R)) + 1
         /\ s \notin R => Cardinality(PinSet(P, R \cup {s})) = Cardinality(PinSet(P, R)) + 1
<1>1. IsFiniteSet(PinSet(P, R))
  BY PinsFinite
<1>2. PinSet(P \cup {s}, R) = PinSet(P, R) \cup {<<s, 0>>}
  BY DEF PinSet
<1>3. PinSet(P, R \cup {s}) = PinSet(P, R) \cup {<<s, 1>>}
  BY DEF PinSet
<1>4. s \notin P => <<s, 0>> \notin PinSet(P, R)
  BY DEF PinSet
<1>5. s \notin R => <<s, 1>> \notin PinSet(P, R)
  BY DEF PinSet
<1> QED BY <1>1, <1>2, <1>3, <1>4, <1>5, FS_AddElement

(* ... and one that goes counts one less.                                  *)
LEMMA PinTakenOut ==
  ASSUME NEW P, P \subseteq Slots, NEW R, R \subseteq Slots, NEW s \in Slots
  PROVE  /\ s \in P => Cardinality(PinSet(P \ {s}, R)) = Cardinality(PinSet(P, R)) - 1
         /\ s \in R => Cardinality(PinSet(P, R \ {s})) = Cardinality(PinSet(P, R)) - 1
<1>1. IsFiniteSet(PinSet(P, R))
  BY PinsFinite
<1>2. PinSet(P \ {s}, R) = PinSet(P, R) \ {<<s, 0>>}
  BY DEF PinSet
<1>3. PinSet(P, R \ {s}) = PinSet(P, R) \ {<<s, 1>>}
  BY DEF PinSet
<1>4. s \in P => <<s, 0>> \in PinSet(P, R)
  BY DEF PinSet
<1>5. s \in R => <<s, 1>> \in PinSet(P, R)
  BY DEF PinSet
<1> QED BY <1>1, <1>2, <1>3, <1>4, <1>5, FS_RemoveElement

-----------------------------------------------------------------------------
(* Every step but a crash leaves the log as it is or adds to it.           *)

LogKept == /\ Len(log) <= Len(log')
           /\ \A p \in 1 .. Len(log) : log'[p] = log[p]

(* An append leaves the records that are there alone.                      *)
LEMMA AppendKeeps ==
  ASSUME TypeOK, NEW r, AppendLog(r)
  PROVE  /\ LogKept /\ Len(log') = Len(log) + 1 /\ log'[Len(log) + 1] = r
         /\ r \in Records => log' \in Seq(Records)
<1>1. log \in Seq(Records)
  BY DEF TypeOK
<1>2. log \in Seq(Records \cup {r})
  BY <1>1
<1> QED BY <1>1, <1>2, AppendProperties DEF AppendLog, LogKept

(* What a thread goes back over does not change when the log grows.        *)
LEMMA UndoSame ==
  ASSUME TypeOK, LogKept, NEW s \in Slots, top[s] <= Len(log),
         op'[s] = op[s], num'[s] = num[s], pos'[s] = pos[s], top'[s] = top[s]
  PROVE  /\ ToUndo(s)' = ToUndo(s)
         /\ ToUndo(s) # {} => UndoBlock(s)' = UndoBlock(s)
<1>0. top[s] \in Nat /\ Len(log) \in Nat
  BY DEF TypeOK
<1>1. \A p \in 1 .. top[s] : log'[p] = log[p]
  BY <1>0 DEF LogKept
<1>2. RecoverSet(top[s])' = RecoverSet(top[s])
  BY <1>0, <1>1 DEF RecoverSet
<1>3. RollbackSet(num[s], top[s])' = RollbackSet(num[s], top[s])
  BY <1>0, <1>1 DEF RollbackSet
<1>4. ToUndo(s)' = ToUndo(s)
  BY <1>2, <1>3 DEF ToUndo
<1>5. ASSUME ToUndo(s) # {} PROVE UndoBlock(s)' = UndoBlock(s)
  <2>1. Max(ToUndo(s)) \in 1 .. Len(log)
    BY <1>5, UndoIs
  <2>2. log'[Max(ToUndo(s))] = log[Max(ToUndo(s))]
    BY <2>1 DEF LogKept
  <2> QED BY <2>2, <1>4 DEF UndoBlock
<1> QED BY <1>4, <1>5

-----------------------------------------------------------------------------
(* What the steps do to the pool, buffer by buffer.                        *)

(* A buffer with other values of some of its fields.                       *)
WithPins(q, n) == [q EXCEPT !.pins = n]
WithBlock(q, b, v) == [q EXCEPT !.blk = b, !.val = v]
WithChange(q, v, t, l) == [q EXCEPT !.val = v, !.tx = t, !.lsn = l]
WithOld(q, v, t, n) == [q EXCEPT !.val = v, !.tx = t, !.pins = n]

(* What becomes of a buffer's fields when its pins change, ...             *)
LEMMA PinFields ==
  ASSUME NEW q \in BufRec, NEW n \in Nat
  PROVE  LET r == WithPins(q, n) IN
         /\ r \in BufRec
         /\ r.blk = q.blk /\ r.val = q.val /\ r.tx = q.tx
         /\ r.lsn = q.lsn /\ r.pins = n
<1> DEFINE r == WithPins(q, n)
<1>0. r \in BufRec
  BY DEF BufRec, WithPins
<1>1. r.blk = q.blk
  BY DEF BufRec, WithPins
<1>2. r.val = q.val
  BY DEF BufRec, WithPins
<1>3. r.tx = q.tx
  BY DEF BufRec, WithPins
<1>4. r.lsn = q.lsn
  BY DEF BufRec, WithPins
<1>5. r.pins = n
  BY DEF BufRec, WithPins
<1> QED BY <1>0, <1>1, <1>2, <1>3, <1>4, <1>5

(* ... when it takes a block, ...                                          *)
LEMMA LoadFields ==
  ASSUME NEW q \in BufRec, NEW b \in Blocks, NEW v \in Values
  PROVE  LET r == WithBlock(q, b, v) IN
         /\ r \in BufRec
         /\ r.blk = b /\ r.val = v /\ r.tx = q.tx
         /\ r.lsn = q.lsn /\ r.pins = q.pins
<1> DEFINE r == WithBlock(q, b, v)
<1>0. r \in BufRec
  BY DEF BufRec, WithBlock
<1>1. r.blk = b
  BY DEF BufRec, WithBlock
<1>2. r.val = v
  BY DEF BufRec, WithBlock
<1>3. r.tx = q.tx
  BY DEF BufRec, WithBlock
<1>4. r.lsn = q.lsn
  BY DEF BufRec, WithBlock
<1>5. r.pins = q.pins
  BY DEF BufRec, WithBlock
<1> QED BY <1>0, <1>1, <1>2, <1>3, <1>4, <1>5

(* ... when a transaction writes it, ...                                   *)
LEMMA SetFields ==
  ASSUME NEW q \in BufRec, NEW v \in Values, NEW t \in Int, NEW l \in Int
  PROVE  LET r == WithChange(q, v, t, l) IN
         /\ r \in BufRec
         /\ r.blk = q.blk /\ r.val = v /\ r.tx = t
         /\ r.lsn = l /\ r.pins = q.pins
<1> DEFINE r == WithChange(q, v, t, l)
<1>0. r \in BufRec
  BY DEF BufRec, WithChange
<1>1. r.blk = q.blk
  BY DEF BufRec, WithChange
<1>2. r.val = v
  BY DEF BufRec, WithChange
<1>3. r.tx = t
  BY DEF BufRec, WithChange
<1>4. r.lsn = l
  BY DEF BufRec, WithChange
<1>5. r.pins = q.pins
  BY DEF BufRec, WithChange
<1> QED BY <1>0, <1>1, <1>2, <1>3, <1>4, <1>5

(* ... and when a write is undone.                                         *)
LEMMA UndoFields ==
  ASSUME NEW q \in BufRec, NEW v \in Values, NEW t \in Int, NEW n \in Nat
  PROVE  LET r == WithOld(q, v, t, n) IN
         /\ r \in BufRec
         /\ r.blk = q.blk /\ r.val = v /\ r.tx = t
         /\ r.lsn = q.lsn /\ r.pins = n
<1> DEFINE r == WithOld(q, v, t, n)
<1>0. r \in BufRec
  BY DEF BufRec, WithOld
<1>1. r.blk = q.blk
  BY DEF BufRec, WithOld
<1>2. r.val = v
  BY DEF BufRec, WithOld
<1>3. r.tx = t
  BY DEF BufRec, WithOld
<1>4. r.lsn = q.lsn
  BY DEF BufRec, WithOld
<1>5. r.pins = n
  BY DEF BufRec, WithOld
<1> QED BY <1>0, <1>1, <1>2, <1>3, <1>4, <1>5

(* Another buffer, and nothing else.                                       *)
LEMMA OneBuffer ==
  ASSUME NEW B, NEW f \in [Buffs -> B], NEW i \in Buffs, NEW r \in B,
         NEW g, g = [f EXCEPT ![i] = r]
  PROVE  /\ g \in [Buffs -> B]
         /\ g[i] = r
         /\ \A j \in Buffs : j # i => g[j] = f[j]
OBVIOUS

(* A block that is pinned is in the buffer that Target finds.              *)
LEMMA PinnedIsThere ==
  ASSUME PoolInv, NEW b \in Blocks, NEW s \in Slots, s \in Pinners(b) \cup Restorers(b)
  PROVE  /\ Existing(b) # {} /\ Available(b) /\ Target(b) \in Buffs
         /\ buf[Target(b)].blk = b
         /\ buf[Target(b)].pins = Cardinality(Refs(b))
         /\ buf[Target(b)].pins > 0
<1>1. Pinners(b) \subseteq Slots /\ Restorers(b) \subseteq Slots
  BY DEF Pinners, Restorers
<1>2. Cardinality(Refs(b)) > 0
  BY <1>1, PinsFinite DEF Refs
<1>3. Refs(b) # {}
  BY DEF Refs, PinSet
<1>4. Existing(b) # {}
  BY <1>3 DEF PoolInv, Pins
<1>5. Available(b) /\ Target(b) \in Buffs /\ buf[Target(b)].blk = b
  BY <1>4, TargetIs DEF Available
<1>6. b # None
  BY TxAssumption
<1> QED BY <1>2, <1>4, <1>5, <1>6 DEF PoolInv, Pins

(* A pin: the block's own buffer, or a clean one nobody uses.              *)
LEMMA PinEffect ==
  ASSUME PoolInv, NEW b \in Blocks, Available(b), ~MustFlush(b),
         buf' = [buf EXCEPT ![Target(b)] = [Loaded(b) EXCEPT !.pins = @ + 1]]
  PROVE  /\ Target(b) \in Buffs
         /\ buf' \in [Buffs -> BufRec]
         /\ \A j \in Buffs : j # Target(b) => buf'[j] = buf[j]
         /\ buf'[Target(b)].blk = b
         /\ buf'[Target(b)].tx = buf[Target(b)].tx
         /\ buf'[Target(b)].lsn = buf[Target(b)].lsn
         /\ buf'[Target(b)].pins = buf[Target(b)].pins + 1
         /\ buf'[Target(b)].val = IF Existing(b) # {} THEN buf[Target(b)].val ELSE disk[b]
         /\ Existing(b) # {} => buf[Target(b)].blk = b
         /\ Existing(b) = {} => buf[Target(b)].pins = 0 /\ buf[Target(b)].tx = -1
<1> DEFINE i == Target(b)
<1>1. i \in Buffs /\ (Existing(b) # {} => buf[i].blk = b) /\ (Existing(b) = {} => buf[i].pins = 0)
  BY TargetIs
<1>2. buf \in [Buffs -> BufRec] /\ disk[b] \in Values
  BY DEF PoolInv, TypeOK, BufRec
<1>3. Existing(b) = {} => buf[i].tx = -1
  BY <1>1 DEF MustFlush, Dirty, PoolInv, Buffers
<1> HIDE DEF i
<1>r. PICK r : r = [Loaded(b) EXCEPT !.pins = @ + 1]
  OBVIOUS
<1>4. /\ r \in BufRec
      /\ r.blk = b /\ r.tx = buf[i].tx /\ r.lsn = buf[i].lsn /\ r.pins = buf[i].pins + 1
      /\ r.val = IF Existing(b) # {} THEN buf[i].val ELSE disk[b]
  <2>0. buf[i] \in BufRec
    BY <1>1, <1>2
  <2>1. PICK q : q = Loaded(b)
    OBVIOUS
  <2>2. /\ q \in BufRec
        /\ q.blk = b /\ q.tx = buf[i].tx /\ q.lsn = buf[i].lsn /\ q.pins = buf[i].pins
        /\ q.val = IF Existing(b) # {} THEN buf[i].val ELSE disk[b]
    <3>1. CASE Existing(b) # {}
      BY <1>1, <2>0, <2>1, <3>1 DEF Loaded, i
    <3>2. CASE Existing(b) = {}
      <4>1. q = WithBlock(buf[i], b, disk[b])
        BY <2>1, <3>2 DEF Loaded, i, WithBlock
      <4> QED BY <1>2, <2>0, <3>2, <4>1, LoadFields
    <3> QED BY <3>1, <3>2
  <2>3. r = WithPins(q, q.pins + 1)
    BY <1>r, <2>1 DEF WithPins
  <2>4. q.pins + 1 \in Nat
    BY <2>2 DEF BufRec
  <2> QED BY <2>2, <2>3, <2>4, PinFields
<1>5. buf' = [buf EXCEPT ![i] = r]
  BY <1>r DEF i
<1>6. buf' \in [Buffs -> BufRec] /\ buf'[i] = r /\ \A j \in Buffs : j # i => buf'[j] = buf[j]
  <2>1. i \in Buffs /\ buf \in [Buffs -> BufRec] /\ r \in BufRec
    BY <1>1, <1>2, <1>4
  <2>2. PICK k : k = i
    OBVIOUS
  <2>3. k \in Buffs /\ buf' = [buf EXCEPT ![k] = r]
    BY <2>1, <2>2, <1>5
  <2>4. buf'[k] = r /\ \A j \in Buffs : j # k => buf'[j] = buf[j]
    BY <2>1, <2>3
  <2>5. buf' \in [Buffs -> BufRec]
    BY <2>1, <2>3
  <2> QED BY <2>2, <2>4, <2>5
<1> QED BY <1>1, <1>3, <1>4, <1>6 DEF i

(* unpin: one pin less for each of the blocks.                             *)
LEMMA UnpinEffect ==
  ASSUME PoolInv, NEW s \in Slots, NEW S, S \subseteq pinned[s], buf' = Unpin(S)
  PROVE  /\ buf' \in [Buffs -> BufRec]
         /\ \A j \in Buffs :
              /\ buf'[j].blk = buf[j].blk /\ buf'[j].val = buf[j].val
              /\ buf'[j].tx = buf[j].tx /\ buf'[j].lsn = buf[j].lsn
              /\ buf'[j].pins = IF buf[j].blk \in S THEN buf[j].pins - 1 ELSE buf[j].pins
              /\ buf[j].blk \in S => buf[j].pins > 0
<1>1. buf \in [Buffs -> BufRec] /\ pinned[s] \subseteq Blocks
  BY DEF PoolInv, TypeOK, BufRec
<1>2. ASSUME NEW j \in Buffs, buf[j].blk \in S PROVE buf[j].pins > 0
  <2>1. buf[j].blk \in Blocks /\ s \in Pinners(buf[j].blk)
    BY <1>1, <1>2 DEF Pinners
  <2>2. Target(buf[j].blk) \in Buffs /\ buf[Target(buf[j].blk)].blk = buf[j].blk
        /\ buf[Target(buf[j].blk)].pins > 0
    BY <2>1, PinnedIsThere
  <2>3. Target(buf[j].blk) = j
    BY <2>1, <2>2, TxAssumption DEF PoolInv, Pins
  <2> QED BY <2>2, <2>3
<1>3. ASSUME NEW j \in Buffs
      PROVE  /\ buf'[j] \in BufRec
             /\ buf'[j].blk = buf[j].blk /\ buf'[j].val = buf[j].val
             /\ buf'[j].tx = buf[j].tx /\ buf'[j].lsn = buf[j].lsn
             /\ buf'[j].pins = IF buf[j].blk \in S THEN buf[j].pins - 1 ELSE buf[j].pins
  <2>1. buf'[j] = IF buf[j].blk \in S THEN [buf[j] EXCEPT !.pins = @ - 1] ELSE buf[j]
    BY DEF Unpin
  <2>2. buf[j] \in BufRec
    BY <1>1
  <2> QED BY <1>2, <2>1, <2>2 DEF BufRec
<1>4. buf' = [j \in Buffs |-> buf'[j]]
  BY DEF Unpin
<1> QED BY <1>2, <1>3, <1>4

(* set_int changes the buffer of the block.                                *)
LEMMA SetEffect ==
  ASSUME PoolInv, NEW s \in Clients, NEW b \in Blocks, NEW v \in Values, set_int(s, b, v)
  PROVE  /\ Target(b) \in Buffs
         /\ buf' \in [Buffs -> BufRec]
         /\ \A j \in Buffs : j # Target(b) => buf'[j] = buf[j]
         /\ buf[Target(b)].blk = b /\ buf'[Target(b)].blk = b
         /\ buf'[Target(b)].val = v
         /\ buf'[Target(b)].tx = num[s]
         /\ buf'[Target(b)].lsn = Len(log) + 1
         /\ buf'[Target(b)].pins = buf[Target(b)].pins
         /\ log' = Append(log, SetRecord(num[s], b, buf[Target(b)].val))
         /\ Len(log') = Len(log) + 1 /\ LogKept
         /\ log'[Len(log) + 1] = SetRecord(num[s], b, buf[Target(b)].val)
<1>0. s \in Slots
  BY DEF Slots
<1>1. s \in Pinners(b)
  BY <1>0 DEF set_int, Pinners
<1>2. Target(b) \in Buffs /\ buf[Target(b)].blk = b
  BY <1>0, <1>1, PinnedIsThere
<1>3. buf \in [Buffs -> BufRec] /\ num[s] \in Nat
  BY <1>0 DEF PoolInv, TypeOK, BufRec
<1>4. AppendLog(SetRecord(num[s], b, buf[Target(b)].val))
  BY DEF set_int
<1>5. /\ LogKept /\ Len(log') = Len(log) + 1
      /\ log'[Len(log) + 1] = SetRecord(num[s], b, buf[Target(b)].val)
  BY <1>4, AppendKeeps DEF PoolInv
<1>6. buf' = [buf EXCEPT ![Target(b)] = [buf[Target(b)] EXCEPT !.val = v, !.tx = num[s],
                                                               !.lsn = Len(log) + 1]]
  BY <1>5 DEF set_int
<1>7. Len(log) \in Nat
  BY DEF PoolInv, TypeOK
<1> HIDE DEF Target
<1> DEFINE r == WithChange(buf[Target(b)], v, num[s], Len(log) + 1)
<1>8. /\ r \in BufRec /\ r.blk = b /\ r.val = v /\ r.tx = num[s] /\ r.lsn = Len(log) + 1
      /\ r.pins = buf[Target(b)].pins
  <2>1. buf[Target(b)] \in BufRec
    BY <1>2, <1>3
  <2>2. v \in Values /\ num[s] \in Int /\ Len(log) + 1 \in Int
    BY <1>3, <1>7
  <2> QED BY <1>2, <2>1, <2>2, SetFields
<1>9. buf' = [buf EXCEPT ![Target(b)] = r]
  BY <1>6 DEF WithChange, WithOld
<1> HIDE DEF r
<1>10. /\ buf' \in [Buffs -> BufRec] /\ buf'[Target(b)] = r
       /\ \A j \in Buffs : j # Target(b) => buf'[j] = buf[j]
  BY <1>2, <1>3, <1>8, <1>9, OneBuffer
<1> QED BY <1>2, <1>4, <1>5, <1>8, <1>10 DEF AppendLog

(* undo writes the old value back and unpins.                              *)
LEMMA UndoEffect ==
  ASSUME PoolInv, NEW s \in Slots, Undo(s), NEW b, b = UndoBlock(s)
  PROVE  /\ b \in Blocks /\ Target(b) \in Buffs /\ s \in Restorers(b)
         /\ buf' \in [Buffs -> BufRec]
         /\ \A j \in Buffs : j # Target(b) => buf'[j] = buf[j]
         /\ buf[Target(b)].blk = b /\ buf'[Target(b)].blk = b
         /\ buf'[Target(b)].val = log[Max(ToUndo(s))].val
         /\ buf'[Target(b)].tx = num[s]
         /\ buf'[Target(b)].lsn = buf[Target(b)].lsn
         /\ buf'[Target(b)].pins = buf[Target(b)].pins - 1
<1>1. /\ Max(ToUndo(s)) \in 1 .. Len(log) /\ log[Max(ToUndo(s))].op = "setint"
      /\ log[Max(ToUndo(s))] \in Records
  BY UndoIs DEF PoolInv, Threads, Iterators, Undo
<1>2. b \in Blocks
  BY <1>1 DEF PoolInv, Threads, Iterators, UndoBlock
<1>3. s \in Restorers(b)
  BY DEF Restorers, Undo
<1>4. /\ Target(b) \in Buffs /\ buf[Target(b)].blk = b
      /\ buf[Target(b)].pins > 0
  BY <1>2, <1>3, PinnedIsThere
<1>5. buf \in [Buffs -> BufRec] /\ num[s] \in Nat /\ log[Max(ToUndo(s))].val \in Values
  BY <1>1 DEF PoolInv, TypeOK, BufRec, Records
<1>6. buf' = [buf EXCEPT ![Target(b)] = [buf[Target(b)] EXCEPT
                 !.val = log[Max(ToUndo(s))].val, !.tx = num[s],
                 !.pins = buf[Target(b)].pins - 1]]
  BY DEF Undo
<1> HIDE DEF Target
<1> DEFINE r == WithOld(buf[Target(b)], log[Max(ToUndo(s))].val, num[s], buf[Target(b)].pins - 1)
<1>8. /\ r \in BufRec /\ r.blk = b /\ r.val = log[Max(ToUndo(s))].val /\ r.tx = num[s]
      /\ r.lsn = buf[Target(b)].lsn /\ r.pins = buf[Target(b)].pins - 1
  <2>1. buf[Target(b)] \in BufRec
    BY <1>4, <1>5
  <2>2. num[s] \in Int /\ buf[Target(b)].pins - 1 \in Nat
    BY <1>4, <1>5, <2>1 DEF BufRec
  <2> QED BY <1>4, <1>5, <2>1, <2>2, UndoFields
<1>9. buf' = [buf EXCEPT ![Target(b)] = r]
  BY <1>6 DEF WithChange, WithOld
<1> HIDE DEF r
<1>10. /\ buf' \in [Buffs -> BufRec] /\ buf'[Target(b)] = r
       /\ \A j \in Buffs : j # Target(b) => buf'[j] = buf[j]
  BY <1>4, <1>5, <1>8, <1>9, OneBuffer
<1> QED BY <1>2, <1>3, <1>4, <1>8, <1>10

-----------------------------------------------------------------------------
(* What the pins are pins of.                                              *)

(* Threads outside S do not begin or end to restore a block, nor change    *)
(* what they go back over while they do.                                   *)
Restoring(u) == pc[u] = "restore"
Same(u) == op'[u] = op[u] /\ num'[u] = num[u] /\ pos'[u] = pos[u] /\ top'[u] = top[u]
OthersRestore(S) ==
  \A u \in Slots \ S : (pc'[u] = "restore" <=> Restoring(u)) /\ (Restoring(u) => Same(u))

(* Who restores which block does not change while the restoring threads    *)
(* stay as they are.                                                       *)
LEMMA RestorersKept ==
  ASSUME PoolInv, LogKept, NEW S, OthersRestore(S), NEW b
  PROVE  Restorers(b)' \ S = Restorers(b) \ S
<1>1. ASSUME NEW u \in Slots \ S
      PROVE  u \in Restorers(b)' <=> u \in Restorers(b)
  <2>1. CASE ~Restoring(u)
    BY <2>1 DEF OthersRestore, Restorers, Restoring
  <2>2. CASE Restoring(u)
    <3>1. Same(u) /\ pc'[u] = "restore"
      BY <1>1, <2>2 DEF OthersRestore
    <3>2. ToUndo(u) # {} /\ top[u] <= Len(log)
      BY <1>1, <2>2 DEF PoolInv, Threads, Iterators, Restoring
    <3>3. UndoBlock(u)' = UndoBlock(u)
      BY <1>1, <3>1, <3>2, UndoSame DEF PoolInv, Same
    <3>4. pc[u] = "restore" /\ u \in Slots
      BY <1>1, <2>2 DEF Restoring
    <3> QED BY <3>1, <3>3, <3>4 DEF Restorers
  <2> QED BY <2>1, <2>2
<1>2. Restorers(b) \subseteq Slots /\ Restorers(b)' \subseteq Slots
  BY DEF Restorers
<1> QED BY <1>1, <1>2

(* Nobody pins or unpins.                                                  *)
LEMMA PinsKept ==
  ASSUME PoolInv, LogKept, OthersRestore({}), pinned' = pinned,
         \A j \in Buffs : buf'[j].blk = buf[j].blk /\ buf'[j].pins = buf[j].pins
  PROVE  Pins'
<1>1. ASSUME NEW b PROVE Refs(b)' = Refs(b) /\ Existing(b)' = Existing(b)
  <2>1. Restorers(b)' \ {} = Restorers(b) \ {}
    BY RestorersKept
  <2>2. Restorers(b)' = Restorers(b)
    BY <2>1
  <2>3. Pinners(b)' = Pinners(b)
    BY DEF Pinners
  <2> QED BY <2>2, <2>3 DEF Refs, Existing, PinSet
<1>2. \A i, j \in Buffs : buf'[i].blk = buf'[j].blk /\ buf'[i].blk # None => i = j
  BY DEF PoolInv, Pins
<1>3. ASSUME NEW i \in Buffs, buf'[i].blk # None
      PROVE  buf'[i].pins = Cardinality(Refs(buf[i].blk)')
  <2>1. Refs(buf[i].blk)' = Refs(buf[i].blk)
    BY <1>1
  <2> QED BY <2>1, <1>3 DEF PoolInv, Pins
<1> QED BY <1>1, <1>2, <1>3 DEF Pins, PoolInv

(* A pin of b is added, to b and to its buffer.                            *)
LEMMA PinsMore ==
  ASSUME PoolInv, NEW b \in Blocks, Available(b), ~MustFlush(b),
         buf' = [buf EXCEPT ![Target(b)] = [Loaded(b) EXCEPT !.pins = @ + 1]],
         Cardinality(Refs(b)') = Cardinality(Refs(b)) + 1,
         \A c : c # b => Refs(c)' = Refs(c)
  PROVE  Pins'
<1>1. PICK i \in Buffs :
         /\ i = Target(b)
         /\ \A j \in Buffs : j # i => buf'[j] = buf[j]
         /\ buf'[i].blk = b /\ buf'[i].pins = buf[i].pins + 1
         /\ Existing(b) # {} => buf[i].blk = b
         /\ Existing(b) = {} => buf[i].pins = 0
  BY PinEffect, ZenonT(40)
<1>2. b # None
  BY TxAssumption
<1>3. ASSUME NEW j \in Buffs, buf[j].blk = b PROVE j = i
  BY <1>1, <1>2, <1>3 DEF PoolInv, Pins, Existing
<1>4. buf[i].pins = Cardinality(Refs(b))
  <2>1. CASE Existing(b) # {}
    BY <1>1, <1>2, <2>1 DEF PoolInv, Pins
  <2>2. CASE Existing(b) = {}
    <3>1. Refs(b) = {}
      BY <2>2 DEF PoolInv, Pins
    <3> QED BY <3>1, <2>2, <1>1, FS_EmptySet
  <2> QED BY <2>1, <2>2
<1>5. \A j, k \in Buffs : buf'[j].blk = buf'[k].blk /\ buf'[j].blk # None => j = k
  BY <1>1, <1>3 DEF PoolInv, Pins
<1>6. ASSUME NEW j \in Buffs, buf'[j].blk # None, NEW c, c = buf'[j].blk
      PROVE  buf'[j].pins = Cardinality(Refs(c)')
  <2>1. CASE j = i
    BY <1>1, <1>4, <1>6, <2>1
  <2>2. CASE j # i
    <3>1. c # b /\ buf'[j] = buf[j]
      BY <1>1, <1>3, <1>6, <2>2
    <3>2. Refs(c)' = Refs(c)
      BY <3>1
    <3>3. buf[j].pins = Cardinality(Refs(c))
      BY <1>6, <3>1 DEF PoolInv, Pins
    <3> QED BY <3>1, <3>2, <3>3
  <2> QED BY <2>1, <2>2
<1>7. ASSUME NEW c \in Blocks, \A j \in Buffs : buf'[j].blk # c
      PROVE  Refs(c)' = {}
  <2>1. c # b
    BY <1>1, <1>7
  <2>2. Refs(c)' = Refs(c)
    BY <2>1
  <2>3. CASE Existing(c) = {}
    BY <2>2, <2>3 DEF PoolInv, Pins
  <2>4. CASE Existing(c) # {}
    <3>1. PICK j \in Buffs : buf[j].blk = c
      BY <2>4 DEF Existing
    <3>2. j = i
      BY <3>1, <1>1, <1>7
    <3>3. buf[i].blk = c /\ c # None /\ Existing(b) = {} /\ buf[i].pins = 0
      BY <1>1, <2>1, <3>1, <3>2, TxAssumption
    <3>4. Cardinality(Refs(c)) = 0
      BY <3>3 DEF PoolInv, Pins
    <3>5. Pinners(c) \subseteq Slots /\ Restorers(c) \subseteq Slots
      BY DEF Pinners, Restorers
    <3>6. IsFiniteSet(Refs(c))
      BY <3>5, PinsFinite DEF Refs
    <3> QED BY <2>2, <3>4, <3>6, FS_EmptySet
  <2> QED BY <2>3, <2>4
<1>8. \A c \in Blocks : Existing(c)' = {} => Refs(c)' = {}
  BY <1>7 DEF Existing
<1> QED BY <1>5, <1>6, <1>8 DEF Pins

(* A pin of each block of S is taken out, of the block and of its buffer.  *)
LEMMA PinsLess ==
  ASSUME PoolInv, NEW S,
         \A j \in Buffs :
           /\ buf'[j].blk = buf[j].blk
           /\ buf'[j].pins = IF buf[j].blk \in S THEN buf[j].pins - 1 ELSE buf[j].pins,
         \A c : IF c \in S THEN Refs(c) # {} /\ Cardinality(Refs(c)') = Cardinality(Refs(c)) - 1
                ELSE Refs(c)' = Refs(c)
  PROVE  Pins'
<1>1. \A i, j \in Buffs : buf'[i].blk = buf'[j].blk /\ buf'[i].blk # None => i = j
  BY DEF PoolInv, Pins
<1>2. ASSUME NEW j \in Buffs, buf'[j].blk # None, NEW c, c = buf'[j].blk
      PROVE  buf'[j].pins = Cardinality(Refs(c)')
  <2>1. c = buf[j].blk /\ buf[j].pins = Cardinality(Refs(c))
    BY <1>2 DEF PoolInv, Pins
  <2>2. CASE c \in S
    BY <2>1, <2>2
  <2>3. CASE c \notin S
    BY <2>1, <2>3
  <2> QED BY <2>2, <2>3
<1>3. ASSUME NEW c \in Blocks, Existing(c)' = {} PROVE Refs(c)' = {}
  <2>1. Existing(c) = {}
    BY <1>3 DEF Existing
  <2>2. Refs(c) = {}
    BY <2>1 DEF PoolInv, Pins
  <2> QED BY <2>2
<1> QED BY <1>1, <1>2, <1>3 DEF Pins

-----------------------------------------------------------------------------

(* But for a crash, the log only grows.                                    *)
LEMMA LogStep ==
  ASSUME PoolInv, Next, ~Crash
  PROVE  LogKept
<1>0. log \in Seq(Records) /\ TypeOK
  BY DEF PoolInv, TypeOK
<1>1. ASSUME UNCHANGED log PROVE LogKept
  BY <1>0, <1>1 DEF LogKept
<1>2. ASSUME NEW r, AppendLog(r) PROVE LogKept
  BY <1>0, <1>2, AppendKeeps
<1>3. CASE Startup
  BY <1>2, <1>3 DEF Startup
<1>4. CASE \E s \in Clients : Begin(s)
  BY <1>2, <1>4 DEF Begin
<1>5. CASE \E s \in Clients, b \in Blocks, v \in Values : set_int(s, b, v)
  BY <1>2, <1>5 DEF set_int
<1>6. CASE \E s \in Slots : WriteRecord(s)
  BY <1>2, <1>6 DEF WriteRecord
<1>7. CASE UNCHANGED log
  BY <1>1, <1>7
<1> QED
  BY <1>3, <1>4, <1>5, <1>6, <1>7, ZenonT(40)
     DEF Next, append_saves, pin, PinFlushes, StartWrite, EndWrite, PinDone, PinThrows,
         CallCommit, CallRollback, CallPin, unpin, get_int, finish, iterator, Iterate, undo, UndoFlushes,
         UndoPins, Undo, UndoThrows, UndoEnds, flush_all, FlushNext, FlushEnds, FlushRecord, Release,
         UnpinAll, AtBounds, vars, logv

(* Every step keeps the pool's blocks apart and its pins counted.          *)
LEMMA PinsStep ==
  ASSUME PoolInv, Next
  PROVE  Pins'
<1>0. Clients \subseteq Slots /\ Sys \in Slots
  BY DEF Slots
<1>1. ASSUME ~Crash PROVE LogKept
  BY <1>1, LogStep
<1> DEFINE Quiet == /\ OthersRestore({}) /\ pinned' = pinned
                    /\ \A j \in Buffs : buf'[j].blk = buf[j].blk /\ buf'[j].pins = buf[j].pins
<1>2. ASSUME Quiet, ~Crash PROVE Pins'
  BY <1>1, <1>2, PinsKept
<1>3. ASSUME pc' = pc \/ (\E s \in Slots : \E l : l # "restore" /\ pc[s] # "restore" /\ Goto(s, l)),
             \A u \in Slots : pc[u] = "restore" => Same(u)
      PROVE  OthersRestore({})
  BY <1>3 DEF OthersRestore, Restoring, PoolInv, TypeOK, Goto
<1>4. ASSUME Startup PROVE Quiet
  <2>1. pinned' = pinned /\ \A j \in Buffs : buf'[j].blk = buf[j].blk /\ buf'[j].pins = buf[j].pins
    BY <1>4 DEF Startup, Goto, pool, tx, vars, PoolInv, TypeOK
  <2>2. OthersRestore({})
    BY <1>0, <1>4 DEF Startup, Goto, tx, vars, OthersRestore, Restoring, Same, PoolInv, TypeOK, Threads, Numbers, StartUps, Calls
  <2> QED BY <2>1, <2>2
<1>5. ASSUME append_saves PROVE Quiet
  <2>1. pinned' = pinned /\ \A j \in Buffs : buf'[j].blk = buf[j].blk /\ buf'[j].pins = buf[j].pins
    BY <1>5 DEF append_saves, logv, pool, tx, vars, PoolInv, TypeOK
  <2>2. OthersRestore({})
    BY <1>0, <1>5 DEF append_saves, logv, tx, vars, OthersRestore, Restoring, Same, PoolInv, TypeOK, Threads, Numbers, StartUps, Calls
  <2> QED BY <2>1, <2>2
<1>6. ASSUME NEW s \in Clients, Begin(s) PROVE Quiet
  <2>1. pinned' = pinned /\ \A j \in Buffs : buf'[j].blk = buf[j].blk /\ buf'[j].pins = buf[j].pins
    BY <1>6 DEF Begin, Goto, pool, tx, vars, PoolInv, TypeOK
  <2>2. OthersRestore({})
    BY <1>0, <1>6 DEF Begin, Goto, tx, vars, OthersRestore, Restoring, Same, PoolInv, TypeOK, Threads, Numbers, StartUps, Calls
  <2> QED BY <2>1, <2>2
<1>7. ASSUME NEW s \in Slots, NEW b \in Blocks, CallPin(s, b) PROVE Quiet
  <2>1. pinned' = pinned /\ \A j \in Buffs : buf'[j].blk = buf[j].blk /\ buf'[j].pins = buf[j].pins
    BY <1>7 DEF CallPin, Goto, pool, tx, vars, PoolInv, TypeOK
  <2>2. OthersRestore({})
    BY <1>0, <1>7 DEF CallPin, Goto, tx, vars, OthersRestore, Restoring, Same, PoolInv, TypeOK, Threads, Numbers, StartUps, Calls
  <2> QED BY <2>1, <2>2
<1>8. ASSUME NEW s \in Slots, NEW i \in Buffs, StartWrite(s, i) PROVE Quiet
  <2>1. pinned' = pinned /\ \A j \in Buffs : buf'[j].blk = buf[j].blk /\ buf'[j].pins = buf[j].pins
    BY <1>8 DEF StartWrite, pool, tx, vars, PoolInv, TypeOK
  <2>2. OthersRestore({})
    BY <1>0, <1>8 DEF StartWrite, tx, vars, OthersRestore, Restoring, Same, PoolInv, TypeOK, Threads, Numbers, StartUps, Calls
  <2> QED BY <2>1, <2>2
<1>9. ASSUME NEW s \in Slots, EndWrite(s) PROVE Quiet
  <2>1. pinned' = pinned /\ \A j \in Buffs : buf'[j].blk = buf[j].blk /\ buf'[j].pins = buf[j].pins
    BY <1>9 DEF EndWrite, pool, tx, vars, PoolInv, TypeOK
  <2>2. OthersRestore({})
    BY <1>0, <1>9 DEF EndWrite, tx, vars, OthersRestore, Restoring, Same, PoolInv, TypeOK, Threads, Numbers, StartUps, Calls
  <2> QED BY <2>1, <2>2
<1>10. ASSUME NEW s \in Slots, PinThrows(s) PROVE Quiet
  <2>1. pinned' = pinned /\ \A j \in Buffs : buf'[j].blk = buf[j].blk /\ buf'[j].pins = buf[j].pins
    BY <1>10 DEF PinThrows, Goto, pool, tx, vars, PoolInv, TypeOK
  <2>2. OthersRestore({})
    BY <1>0, <1>10 DEF PinThrows, Goto, tx, vars, OthersRestore, Restoring, Same, PoolInv, TypeOK, Threads, Numbers, StartUps, Calls
  <2> QED BY <2>1, <2>2
<1>11. ASSUME NEW s \in Slots, NEW b \in Blocks, get_int(s, b) PROVE Quiet
  <2>1. pinned' = pinned /\ \A j \in Buffs : buf'[j].blk = buf[j].blk /\ buf'[j].pins = buf[j].pins
    BY <1>11 DEF get_int, pool, tx, vars, PoolInv, TypeOK
  <2>2. OthersRestore({})
    BY <1>0, <1>11 DEF get_int, tx, vars, OthersRestore, Restoring, Same, PoolInv, TypeOK, Threads, Numbers, StartUps, Calls
  <2> QED BY <2>1, <2>2
<1>12. ASSUME NEW s \in Slots, CallCommit(s) PROVE Quiet
  <2>1. pinned' = pinned /\ \A j \in Buffs : buf'[j].blk = buf[j].blk /\ buf'[j].pins = buf[j].pins
    BY <1>12 DEF CallCommit, Goto, pool, tx, vars, PoolInv, TypeOK
  <2>2. OthersRestore({})
    BY <1>0, <1>12 DEF CallCommit, Goto, tx, vars, OthersRestore, Restoring, Same, PoolInv, TypeOK, Threads, Numbers, StartUps, Calls
  <2> QED BY <2>1, <2>2
<1>13. ASSUME NEW s \in Slots, CallRollback(s) PROVE Quiet
  <2>1. pinned' = pinned /\ \A j \in Buffs : buf'[j].blk = buf[j].blk /\ buf'[j].pins = buf[j].pins
    BY <1>13 DEF CallRollback, Goto, pool, tx, vars, PoolInv, TypeOK
  <2>2. OthersRestore({})
    BY <1>0, <1>13 DEF CallRollback, Goto, tx, vars, OthersRestore, Restoring, Same, PoolInv, TypeOK, Threads, Numbers, StartUps, Calls
  <2> QED BY <2>1, <2>2
<1>14. ASSUME NEW s \in Slots, iterator(s) \/ Iterate(s) PROVE Quiet
  <2>1. pinned' = pinned /\ \A j \in Buffs : buf'[j].blk = buf[j].blk /\ buf'[j].pins = buf[j].pins
    BY <1>14 DEF iterator, Iterate, Goto, pool, tx, vars, PoolInv, TypeOK
  <2>2. OthersRestore({})
    BY <1>0, <1>14 DEF iterator, Iterate, Goto, tx, vars, OthersRestore, Restoring, Same, PoolInv, TypeOK, Threads, Numbers, StartUps, Calls
  <2> QED BY <2>1, <2>2
<1>15. ASSUME NEW s \in Slots, UndoThrows(s) PROVE Quiet
  <2>1. pinned' = pinned /\ \A j \in Buffs : buf'[j].blk = buf[j].blk /\ buf'[j].pins = buf[j].pins
    BY <1>15 DEF UndoThrows, Undoing, Goto, pool, tx, vars, PoolInv, TypeOK
  <2>2. OthersRestore({})
    BY <1>0, <1>15 DEF UndoThrows, Undoing, Goto, tx, vars, OthersRestore, Restoring, Same, PoolInv, TypeOK, Threads, Numbers, StartUps, Calls
  <2> QED BY <2>1, <2>2
<1>16. ASSUME NEW s \in Slots, UndoEnds(s) PROVE Quiet
  <2>1. pinned' = pinned /\ \A j \in Buffs : buf'[j].blk = buf[j].blk /\ buf'[j].pins = buf[j].pins
    BY <1>16 DEF UndoEnds, Goto, pool, tx, vars, PoolInv, TypeOK
  <2>2. OthersRestore({})
    BY <1>0, <1>16 DEF UndoEnds, Goto, tx, vars, OthersRestore, Restoring, Same, PoolInv, TypeOK, Threads, Numbers, StartUps, Calls
  <2> QED BY <2>1, <2>2
<1>17. ASSUME NEW s \in Slots, FlushEnds(s) PROVE Quiet
  <2>1. pinned' = pinned /\ \A j \in Buffs : buf'[j].blk = buf[j].blk /\ buf'[j].pins = buf[j].pins
    BY <1>17 DEF FlushEnds, Goto, pool, tx, vars, PoolInv, TypeOK
  <2>2. OthersRestore({})
    BY <1>0, <1>17 DEF FlushEnds, Goto, tx, vars, OthersRestore, Restoring, Same, PoolInv, TypeOK, Threads, Numbers, StartUps, Calls
  <2> QED BY <2>1, <2>2
<1>18. ASSUME NEW s \in Slots, WriteRecord(s) PROVE Quiet
  <2>1. pinned' = pinned /\ \A j \in Buffs : buf'[j].blk = buf[j].blk /\ buf'[j].pins = buf[j].pins
    BY <1>18 DEF WriteRecord, Goto, pool, tx, vars, PoolInv, TypeOK
  <2>2. OthersRestore({})
    BY <1>0, <1>18 DEF WriteRecord, Goto, tx, vars, OthersRestore, Restoring, Same, PoolInv, TypeOK, Threads, Numbers, StartUps, Calls
  <2> QED BY <2>1, <2>2
<1>19. ASSUME NEW s \in Slots, FlushRecord(s) PROVE Quiet
  <2>1. pinned' = pinned /\ \A j \in Buffs : buf'[j].blk = buf[j].blk /\ buf'[j].pins = buf[j].pins
    BY <1>19 DEF FlushRecord, Goto, pool, tx, vars, PoolInv, TypeOK
  <2>2. OthersRestore({})
    BY <1>0, <1>19 DEF FlushRecord, Goto, tx, vars, OthersRestore, Restoring, Same, PoolInv, TypeOK, Threads, Numbers, StartUps, Calls
  <2> QED BY <2>1, <2>2
<1>20. ASSUME NEW s \in Slots, Release(s) PROVE Quiet
  <2>1. pinned' = pinned /\ \A j \in Buffs : buf'[j].blk = buf[j].blk /\ buf'[j].pins = buf[j].pins
    BY <1>20 DEF Release, Goto, pool, tx, vars, PoolInv, TypeOK
  <2>2. OthersRestore({})
    BY <1>0, <1>20 DEF Release, Goto, tx, vars, OthersRestore, Restoring, Same, PoolInv, TypeOK, Threads, Numbers, StartUps, Calls
  <2> QED BY <2>1, <2>2
<1>21. ASSUME AtBounds PROVE Quiet
  <2>1. pinned' = pinned /\ \A j \in Buffs : buf'[j].blk = buf[j].blk /\ buf'[j].pins = buf[j].pins
    BY <1>21 DEF AtBounds, pool, tx, vars, PoolInv, TypeOK
  <2>2. OthersRestore({})
    BY <1>0, <1>21 DEF AtBounds, tx, vars, OthersRestore, Restoring, Same, PoolInv, TypeOK, Threads, Numbers, StartUps, Calls
  <2> QED BY <2>1, <2>2
<1>a. ASSUME NEW s \in Clients, NEW b \in Blocks, NEW v \in Values, set_int(s, b, v) PROVE Quiet
  <2>1. pinned' = pinned /\ pc' = pc /\ op' = op /\ num' = num /\ pos' = pos /\ top' = top
    BY <1>a DEF set_int, tx
  <2>2. OthersRestore({})
    BY <2>1 DEF OthersRestore, Restoring, Same
  <2>3. /\ Target(b) \in Buffs
        /\ \A j \in Buffs : j # Target(b) => buf'[j] = buf[j]
        /\ buf[Target(b)].blk = b /\ buf'[Target(b)].blk = b
        /\ buf'[Target(b)].pins = buf[Target(b)].pins
    BY <1>a, SetEffect
  <2>4. \A j \in Buffs : buf'[j].blk = buf[j].blk /\ buf'[j].pins = buf[j].pins
    BY <2>3
  <2> QED BY <2>1, <2>2, <2>4
<1>b. ASSUME NEW s \in Clients, PinDone(s), ~Crash PROVE Pins'
  <2>b. PICK b : b = want[s]
    OBVIOUS
  <2>1. b \in Blocks /\ b \notin pinned[s] /\ s \in Slots /\ pc[s] = "pin"
    BY <1>0, <1>b, <2>b DEF PinDone, PoolInv, Threads, Calls, TypeOK
  <2>2. /\ Available(b) /\ ~MustFlush(b)
        /\ buf' = [buf EXCEPT ![Target(b)] = [Loaded(b) EXCEPT !.pins = @ + 1]]
    BY <1>b, <2>b DEF PinDone
  <2>3. OthersRestore({})
    BY <1>0, <1>b DEF PinDone, OthersRestore, Restoring, Same, PoolInv, TypeOK, Goto
  <2>4. \A u \in Slots : pinned'[u] = IF u = s THEN pinned[u] \cup {b} ELSE pinned[u]
    BY <2>1, <2>b, <1>b DEF PinDone, PoolInv, TypeOK
  <2>5. ASSUME NEW c
        PROVE  /\ Restorers(c)' = Restorers(c)
               /\ Pinners(c)' = IF c = b THEN Pinners(c) \cup {s} ELSE Pinners(c)
    <3>1. Restorers(c)' \ {} = Restorers(c) \ {}
      BY <1>1, <1>b, <2>3, RestorersKept
    <3> QED BY <2>1, <2>4, <3>1 DEF Pinners
  <2>6. Refs(b)' = PinSet(Pinners(b) \cup {s}, Restorers(b)) /\ s \notin Pinners(b)
    BY <2>1, <2>5 DEF Refs, PinSet, Pinners
  <2>7. Pinners(b) \subseteq Slots /\ Restorers(b) \subseteq Slots
    BY DEF Pinners, Restorers
  <2>8. Cardinality(Refs(b)') = Cardinality(Refs(b)) + 1
    BY <2>1, <2>6, <2>7, PinAdded DEF Refs
  <2>9. \A c : c # b => Refs(c)' = Refs(c)
    BY <2>5 DEF Refs, PinSet
  <2> QED BY <2>1, <2>2, <2>8, <2>9, PinsMore
<1>c. ASSUME NEW s \in Clients, NEW b \in Blocks, unpin(s, b), ~Crash PROVE Pins'
  <2>1. OthersRestore({})
    BY <1>c DEF unpin, OthersRestore, Restoring, Same
  <2>2. s \in Slots /\ b \in pinned[s] /\ {b} \subseteq pinned[s] /\ buf' = Unpin({b})
    BY <1>0, <1>c DEF unpin
  <2>3. \A u \in Slots : pinned'[u] = IF u = s THEN pinned[u] \ {b} ELSE pinned[u]
    BY <2>2, <1>c DEF unpin, PoolInv, TypeOK
  <2>5. ASSUME NEW c
        PROVE  /\ Restorers(c)' = Restorers(c)
               /\ Pinners(c)' = IF c = b THEN Pinners(c) \ {s} ELSE Pinners(c)
    <3>1. Restorers(c)' \ {} = Restorers(c) \ {}
      BY <1>1, <1>c, <2>1, RestorersKept
    <3> QED BY <2>2, <2>3, <3>1 DEF Pinners
  <2>6. Refs(b)' = PinSet(Pinners(b) \ {s}, Restorers(b)) /\ s \in Pinners(b)
    BY <2>2, <2>5 DEF Refs, PinSet, Pinners
  <2>7. Pinners(b) \subseteq Slots /\ Restorers(b) \subseteq Slots
    BY DEF Pinners, Restorers
  <2>r. Refs(b) # {}
    BY <2>6 DEF Refs, PinSet
  <2>8. Cardinality(Refs(b)') = Cardinality(Refs(b)) - 1
    BY <2>2, <2>6, <2>7, PinTakenOut DEF Refs
  <2>9. \A c : c # b => Refs(c)' = Refs(c)
    BY <2>5 DEF Refs, PinSet
  <2>10. \A j \in Buffs : /\ buf'[j].blk = buf[j].blk
                          /\ buf'[j].pins = IF buf[j].blk \in {b} THEN buf[j].pins - 1 ELSE buf[j].pins
    BY <2>2, UnpinEffect
  <2> QED BY <2>r, <2>8, <2>9, <2>10, PinsLess
<1>d. ASSUME NEW s \in Slots, UndoPins(s), ~Crash PROVE Pins'
  <2>b. PICK b : b = UndoBlock(s)
    OBVIOUS
  <2>0. ToUndo(s) # {} /\ top[s] <= Len(log) /\ pc[s] = "undo"
    BY <1>d DEF UndoPins, Undoing, PoolInv, Threads, Iterators
  <2>1. b \in Blocks
    <3>1. Max(ToUndo(s)) \in 1 .. Len(log) /\ log[Max(ToUndo(s))].op = "setint"
      BY <2>0, UndoIs DEF PoolInv
    <3> QED BY <2>b, <3>1 DEF PoolInv, Threads, Iterators, UndoBlock
  <2>2. /\ Available(b) /\ ~MustFlush(b)
        /\ buf' = [buf EXCEPT ![Target(b)] = [Loaded(b) EXCEPT !.pins = @ + 1]]
    BY <1>d, <2>b DEF UndoPins
  <2>3. OthersRestore({s})
    BY <1>d DEF UndoPins, OthersRestore, Restoring, Same, PoolInv, TypeOK, Goto
  <2>4. pinned' = pinned /\ Same(s) /\ pc'[s] = "restore"
    BY <1>d DEF UndoPins, Same, PoolInv, TypeOK, Goto
  <2>5. UndoBlock(s)' = b
    BY <1>1, <1>d, <2>b, <2>0, <2>4, UndoSame DEF PoolInv, Same
  <2>6. ASSUME NEW c
        PROVE  /\ Pinners(c)' = Pinners(c)
               /\ Restorers(c)' = IF c = b THEN Restorers(c) \cup {s} ELSE Restorers(c)
    <3>1. Restorers(c)' \ {s} = Restorers(c) \ {s}
      BY <1>1, <1>d, <2>3, RestorersKept
    <3>2. s \notin Restorers(c) /\ (s \in Restorers(c)' <=> c = b)
      BY <2>0, <2>4, <2>5 DEF Restorers
    <3> QED BY <2>4, <3>1, <3>2 DEF Pinners
  <2>7. Refs(b)' = PinSet(Pinners(b), Restorers(b) \cup {s}) /\ s \notin Restorers(b)
    BY <2>0, <2>6 DEF Refs, PinSet, Restorers
  <2>8. Pinners(b) \subseteq Slots /\ Restorers(b) \subseteq Slots
    BY DEF Pinners, Restorers
  <2>9. Cardinality(Refs(b)') = Cardinality(Refs(b)) + 1
    BY <2>7, <2>8, PinAdded DEF Refs
  <2>10. \A c : c # b => Refs(c)' = Refs(c)
    BY <2>6 DEF Refs, PinSet
  <2> QED BY <2>1, <2>2, <2>9, <2>10, PinsMore
<1>e. ASSUME NEW s \in Slots, Undo(s), ~Crash PROVE Pins'
  <2>1. PICK b \in Blocks :
          /\ b = UndoBlock(s) /\ Target(b) \in Buffs /\ s \in Restorers(b)
          /\ \A j \in Buffs : j # Target(b) => buf'[j] = buf[j]
          /\ buf[Target(b)].blk = b /\ buf'[Target(b)].blk = b
          /\ buf'[Target(b)].pins = buf[Target(b)].pins - 1
    BY <1>e, UndoEffect
  <2>2. \A j \in Buffs : /\ buf'[j].blk = buf[j].blk
                         /\ buf'[j].pins = IF buf[j].blk \in {b} THEN buf[j].pins - 1 ELSE buf[j].pins
    BY <2>1, TxAssumption DEF PoolInv, Pins
  <2>3. OthersRestore({s})
    BY <1>e DEF Undo, OthersRestore, Restoring, Same, PoolInv, TypeOK, Goto
  <2>4. pinned' = pinned /\ pc[s] = "restore" /\ pc'[s] = "undo"
    BY <1>e DEF Undo, PoolInv, TypeOK, Goto
  <2>6. ASSUME NEW c
        PROVE  /\ Pinners(c)' = Pinners(c)
               /\ Restorers(c)' = IF c = b THEN Restorers(c) \ {s} ELSE Restorers(c)
    <3>1. Restorers(c)' \ {s} = Restorers(c) \ {s}
      BY <1>1, <1>e, <2>3, RestorersKept
    <3>2. s \notin Restorers(c)' /\ (s \in Restorers(c) <=> c = b)
      BY <2>1, <2>4 DEF Restorers
    <3> QED BY <2>4, <3>1, <3>2 DEF Pinners
  <2>7. Refs(b)' = PinSet(Pinners(b), Restorers(b) \ {s})
    BY <2>6 DEF Refs, PinSet
  <2>8. Pinners(b) \subseteq Slots /\ Restorers(b) \subseteq Slots
    BY DEF Pinners, Restorers
  <2>r. Refs(b) # {}
    BY <2>1 DEF Refs, PinSet
  <2>9. Cardinality(Refs(b)') = Cardinality(Refs(b)) - 1
    <3>1. s \in Restorers(b)
      BY <2>1
    <3> QED BY <3>1, <2>7, <2>8, PinTakenOut DEF Refs
  <2>10. \A c : c # b => Refs(c)' = Refs(c)
    BY <2>6 DEF Refs, PinSet
  <2> QED BY <2>r, <2>2, <2>9, <2>10, PinsLess
<1>f. ASSUME NEW s \in Slots, UnpinAll(s), ~Crash PROVE Pins'
  <2> DEFINE S == pinned[s]
  <2>1. OthersRestore({})
    BY <1>f DEF UnpinAll, OthersRestore, Restoring, Same, PoolInv, TypeOK, Goto
  <2>2. \A u \in Slots : pinned'[u] = IF u = s THEN {} ELSE pinned[u]
    BY <1>f DEF UnpinAll, PoolInv, TypeOK
  <2>3. buf' = Unpin(S) /\ S \subseteq pinned[s]
    BY <1>f DEF UnpinAll
  <2>4. \A j \in Buffs : /\ buf'[j].blk = buf[j].blk
                         /\ buf'[j].pins = IF buf[j].blk \in S THEN buf[j].pins - 1 ELSE buf[j].pins
    BY <2>3, UnpinEffect
  <2>5. ASSUME NEW c
        PROVE  IF c \in S THEN Refs(c) # {} /\ Cardinality(Refs(c)') = Cardinality(Refs(c)) - 1
               ELSE Refs(c)' = Refs(c)
    <3>1. Restorers(c)' \ {} = Restorers(c) \ {}
      BY <1>1, <1>f, <2>1, RestorersKept
    <3>2. Restorers(c)' = Restorers(c)
      BY <3>1
    <3>3. Pinners(c)' = Pinners(c) \ {s} /\ (s \in Pinners(c) <=> c \in S)
      BY <2>2 DEF Pinners
    <3>4. Refs(c)' = PinSet(Pinners(c) \ {s}, Restorers(c))
      BY <3>2, <3>3 DEF Refs, PinSet
    <3>5. Pinners(c) \subseteq Slots /\ Restorers(c) \subseteq Slots
      BY DEF Pinners, Restorers
    <3>6. CASE c \in S
      <4>1. Refs(c) # {}
        BY <3>3, <3>6 DEF Refs, PinSet
      <4>2. Cardinality(Refs(c)') = Cardinality(Refs(c)) - 1
        BY <3>3, <3>4, <3>5, <3>6, PinTakenOut DEF Refs
      <4> QED BY <3>6, <4>1, <4>2
    <3>7. CASE c \notin S
      <4>1. Pinners(c) \ {s} = Pinners(c)
        BY <3>3, <3>7
      <4> QED BY <3>4, <3>7, <4>1 DEF Refs
    <3> QED BY <3>6, <3>7
  <2> HIDE DEF S
  <2> QED BY <2>4, <2>5, PinsLess
<1>g. CASE Crash
  <2>1. \A j \in Buffs : buf'[j].blk = None
    BY <1>g DEF Crash, FreeBuffer
  <2>2. \A u \in Slots : pinned'[u] = {} /\ pc'[u] = "idle"
    BY <1>g DEF Crash, All
  <2>3. \A c : Refs(c)' = {}
    BY <2>2 DEF Refs, PinSet, Pinners, Restorers
  <2> QED BY <2>1, <2>3 DEF Pins
<1> HIDE DEF Quiet
<1>h. ASSUME ~Crash, ~Quiet PROVE Pins'
  <2>1. ASSUME NEW s \in Slots, NEW b, Available(b), StartWrite(s, Target(b)) PROVE FALSE
    BY <1>7, <1>8, <1>h, <2>1, TargetIs
  <2>2. ASSUME NEW s \in Slots, Mine(s) # {}, StartWrite(s, Min(Mine(s))) PROVE FALSE
    <3>1. Mine(s) \subseteq Nat
      BY DEF Mine, Buffs
    <3>2. Min(Mine(s)) \in Mine(s)
      BY <2>2, <3>1, MinIn
    <3> QED BY <1>8, <1>h, <2>2, <3>2 DEF Mine
  <2>3. CASE \E s \in Slots : finish(s)
    <3>1. PICK s \in Slots : finish(s)
      BY <2>3
    <3> QED BY <3>1, <1>h, <1>4, <1>5, <1>6, <1>7, <1>8, <1>9, <1>10, <1>11, <1>12, <1>13, <1>14, <1>15, <1>16, <1>17, <1>18, <1>19, <1>20, <1>21, <1>d, <1>e, <1>f, <2>1, <2>2 DEF finish, undo, UndoFlushes, flush_all, FlushNext
  <2>4. CASE \E s \in Clients : pin(s)
    BY <2>4, <1>0, <1>h, <1>4, <1>5, <1>6, <1>7, <1>8, <1>9, <1>10, <1>11, <1>12, <1>13, <1>14, <1>15, <1>16, <1>17, <1>18, <1>19, <1>20, <1>21, <1>b, <2>1 DEF pin, PinFlushes
  <2> QED BY <1>0, <1>h, <2>3, <2>4, <1>4, <1>5, <1>6, <1>7, <1>8, <1>9, <1>10, <1>11, <1>12, <1>13, <1>14, <1>15, <1>16, <1>17, <1>18, <1>19, <1>20, <1>21, <1>a, <1>c DEF Next
<1> QED BY <1>2, <1>g, <1>h

PoolTypes ==
  /\ disk \in [Blocks -> Values]
  /\ buf \in [Buffs -> BufRec]
  /\ bm \in Slots \cup {None} /\ writing \in Buffs \cup {0}

LogTypes ==
  /\ log \in Seq(Records)
  /\ saved \in 0 .. Len(log) /\ promised \in 0 .. Len(log)

ThreadTypes ==
  /\ locks \in [Slots -> [Blocks -> {"none", "S", "X"}]]
  /\ pc \in [Slots -> {"idle", "active", "pin", "failed", "iterate", "iterating", "undo", "restore",
                       "flush", "record", "force", "release", "unpin_all"}]
  /\ num \in [Slots -> Nat]
  /\ pinned \in [Slots -> SUBSET Blocks]
  /\ want \in [Slots -> Blocks \cup {None}]
  /\ op \in [Slots -> {"none", "commit", "rollback", "recover"}]
  /\ pos \in [Slots -> Nat] /\ top \in [Slots -> Nat]

RestTypes ==
  /\ nextTx \in Nat
  /\ started \in {"no", "doing", "done"} /\ isNew \in BOOLEAN
  /\ crashes \in 0 .. MaxCrashes
  /\ base \in [Blocks -> Values]
  /\ writes \in [Slots -> [Blocks -> Values \cup {NoVal}]]
  /\ commitAt \in [Slots -> Nat]

(* What a thread flushes: a victim that nobody uses, or its own changes.   *)
FlushesFor(s, i) ==
  \/ pc[s] \in {"pin", "undo"} /\ Dirty(i) /\ buf[i].pins = 0
  \/ pc[s] = "flush" /\ i \in Mine(s)

(* The steps, with the buffer that a flush writes named.                   *)
LEMMA StepsAre ==
  ASSUME PoolInv, Next
  PROVE  \/ Startup \/ append_saves \/ Crash \/ AtBounds
         \/ \E s \in Clients : \/ Begin(s) \/ PinDone(s) \/ PinThrows(s)
                               \/ CallCommit(s) \/ CallRollback(s)
         \/ \E s \in Clients, b \in Blocks : CallPin(s, b) \/ unpin(s, b) \/ get_int(s, b)
         \/ \E s \in Clients, b \in Blocks, v \in Values : set_int(s, b, v)
         \/ \E s \in Slots, i \in Buffs :
              StartWrite(s, i) /\ FlushesFor(s, i)
         \/ \E s \in Slots : pc[s] \in {"pin", "undo", "flush"} /\ EndWrite(s)
         \/ \E s \in Slots : \/ iterator(s) \/ Iterate(s) \/ UndoPins(s) \/ Undo(s) \/ UndoThrows(s)
                             \/ UndoEnds(s) \/ FlushEnds(s)
         \/ \E s \in Slots : \/ WriteRecord(s) \/ FlushRecord(s) \/ Release(s) \/ UnpinAll(s)
<1>0. Clients \subseteq Slots
  BY DEF Slots
<1>1. ASSUME NEW s, NEW b, Available(b), MustFlush(b)
      PROVE  Target(b) \in Buffs /\ Dirty(Target(b)) /\ buf[Target(b)].pins = 0
  BY <1>1, TargetIs DEF MustFlush
<1>2. ASSUME NEW s, Mine(s) # {}
      PROVE  Min(Mine(s)) \in Buffs /\ Min(Mine(s)) \in Mine(s)
  <2>1. Mine(s) \subseteq Nat /\ Mine(s) \subseteq Buffs
    BY DEF Mine, Buffs
  <2> QED BY <1>2, <2>1, MinIn
<1>3. ASSUME NEW s \in Slots, PinFlushes(s)
      PROVE  \E i \in Buffs : StartWrite(s, i) /\ pc[s] = "pin" /\ Dirty(i) /\ buf[i].pins = 0
  BY <1>1, <1>3 DEF PinFlushes
<1>4. ASSUME NEW s \in Slots, UndoFlushes(s)
      PROVE  \E i \in Buffs : StartWrite(s, i) /\ pc[s] = "undo" /\ Dirty(i) /\ buf[i].pins = 0
  BY <1>1, <1>4 DEF UndoFlushes, Undoing
<1>5. ASSUME NEW s \in Slots, FlushNext(s)
      PROVE  \E i \in Buffs : StartWrite(s, i) /\ pc[s] = "flush" /\ i \in Mine(s)
  BY <1>2, <1>5 DEF FlushNext
<1> QED BY <1>0, <1>3, <1>4, <1>5 DEF Next, pin, finish, undo, flush_all, FlushesFor

(* The block undone next is a block.                                       *)
LEMMA UndoBlockIs ==
  ASSUME PoolInv, NEW s \in Slots, ToUndo(s) # {}
  PROVE  UndoBlock(s) \in Blocks
<1>1. Max(ToUndo(s)) \in 1 .. Len(log) /\ log[Max(ToUndo(s))].op = "setint"
  BY UndoIs DEF PoolInv, Threads, Iterators
<1> QED BY <1>1 DEF PoolInv, Threads, Iterators, UndoBlock

(* The types are those of the pool, the log, the threads and the rest.     *)
LEMMA TypesAre ==
  /\ TypeOK <=> PoolTypes /\ LogTypes /\ ThreadTypes /\ RestTypes
  /\ TypeOK' <=> PoolTypes' /\ LogTypes' /\ ThreadTypes' /\ RestTypes'
BY DEF TypeOK, PoolTypes, LogTypes, ThreadTypes, RestTypes, BufRec

(* Every step keeps the types of the pool, ...                             *)
LEMMA PoolTypesStep ==
  ASSUME PoolInv, Next
  PROVE  PoolTypes'
<1>0. Clients \subseteq Slots /\ Sys \in Slots
  BY DEF Slots
<1>t. PoolTypes
  BY TypesAre DEF PoolInv
<1>1. CASE UNCHANGED pool
  BY <1>t, <1>1 DEF PoolTypes, pool
<1>2. ASSUME NEW s \in Slots, NEW i \in Buffs, StartWrite(s, i) PROVE PoolTypes'
  BY <1>t, <1>2 DEF StartWrite, PoolTypes
<1>3. ASSUME NEW s \in Slots, EndWrite(s) PROVE PoolTypes'
  <2>1. PICK r : r = [buf[writing] EXCEPT !.tx = -1]
    OBVIOUS
  <2>2. writing \in Buffs /\ buf[writing] \in BufRec
    BY <1>t, <1>3 DEF EndWrite, PoolTypes
  <2>3. r \in BufRec
    BY <2>1, <2>2 DEF BufRec
  <2>4. buf' = [buf EXCEPT ![writing] = r]
    BY <1>3, <2>1 DEF EndWrite
  <2>5. buf' \in [Buffs -> BufRec]
    BY <1>t, <2>2, <2>3, <2>4 DEF PoolTypes
  <2>6. buf[writing].val \in Values
    BY <2>2 DEF BufRec
  <2>7. disk' \in [Blocks -> Values]
    BY <1>t, <2>6, <1>3 DEF EndWrite, PoolTypes
  <2> QED BY <1>t, <1>3, <2>5, <2>7 DEF EndWrite, PoolTypes
<1>4. ASSUME NEW s \in Clients, PinDone(s) PROVE PoolTypes'
  <2>1. want[s] \in Blocks
    BY <1>0, <1>4 DEF PinDone, PoolInv, Threads, Calls, TypeOK
  <2>2. buf' \in [Buffs -> BufRec]
    BY <1>4, <2>1, PinEffect DEF PinDone
  <2> QED BY <1>t, <1>4, <2>2 DEF PinDone, PoolTypes
<1>5. ASSUME NEW s \in Slots, NEW b \in Blocks, unpin(s, b) PROVE PoolTypes'
  <2>1. {b} \subseteq pinned[s] /\ buf' = Unpin({b})
    BY <1>5 DEF unpin
  <2>2. buf' \in [Buffs -> BufRec]
    BY <2>1, UnpinEffect
  <2> QED BY <1>t, <1>5, <2>2 DEF unpin, PoolTypes
<1>6. ASSUME NEW s \in Clients, NEW b \in Blocks, NEW v \in Values, set_int(s, b, v) PROVE PoolTypes'
  <2>1. buf' \in [Buffs -> BufRec]
    BY <1>6, SetEffect
  <2>2. UNCHANGED <<disk, bm, writing>>
    BY <1>6 DEF set_int
  <2> QED BY <1>t, <2>1, <2>2 DEF PoolTypes
<1>7. ASSUME NEW s \in Slots, UndoPins(s) PROVE PoolTypes'
  <2>1. UndoBlock(s) \in Blocks
    BY <1>7, UndoBlockIs DEF UndoPins, Undoing
  <2>2. buf' \in [Buffs -> BufRec]
    BY <1>7, <2>1, PinEffect DEF UndoPins
  <2> QED BY <1>t, <1>7, <2>2 DEF UndoPins, PoolTypes
<1>8. ASSUME NEW s \in Slots, Undo(s) PROVE PoolTypes'
  <2>1. buf' \in [Buffs -> BufRec]
    BY <1>8, UndoEffect
  <2>2. UNCHANGED <<disk, bm, writing>>
    BY <1>8 DEF Undo
  <2> QED BY <1>t, <2>1, <2>2 DEF PoolTypes
<1>9. ASSUME NEW s \in Slots, FlushEnds(s) PROVE PoolTypes'
  BY <1>t, <1>9 DEF FlushEnds, PoolTypes
<1>10. ASSUME NEW s \in Slots, UnpinAll(s) PROVE PoolTypes'
  <2>1. pinned[s] \subseteq pinned[s] /\ buf' = Unpin(pinned[s])
    BY <1>10 DEF UnpinAll
  <2>2. buf' \in [Buffs -> BufRec]
    BY <2>1, UnpinEffect
  <2> QED BY <1>t, <1>10, <2>2 DEF UnpinAll, PoolTypes
<1>11. CASE Crash
  <2>1. FreeBuffer \in BufRec
    BY TxAssumption DEF FreeBuffer, BufRec
  <2>2. buf' \in [Buffs -> BufRec]
    BY <1>11, <2>1 DEF Crash
  <2> QED BY <1>t, <1>11, <2>2 DEF Crash, PoolTypes
<1>12. ASSUME Startup \/ append_saves \/ AtBounds PROVE UNCHANGED pool
  BY <1>12 DEF Startup, append_saves, AtBounds, vars
<1>13. ASSUME NEW s, NEW b, CallPin(s, b) \/ get_int(s, b) PROVE UNCHANGED pool
  BY <1>13 DEF CallPin, get_int
<1>14. ASSUME NEW s, Begin(s) \/ PinThrows(s) \/ CallCommit(s) \/ CallRollback(s) PROVE UNCHANGED pool
  BY <1>14 DEF Begin, PinThrows, CallCommit, CallRollback
<1>15. ASSUME NEW s, iterator(s) \/ Iterate(s) \/ UndoThrows(s) \/ UndoEnds(s) \/ WriteRecord(s) \/ FlushRecord(s)
                    \/ Release(s)
       PROVE  UNCHANGED pool
  BY <1>15 DEF iterator, Iterate, UndoThrows, UndoEnds, WriteRecord, FlushRecord, Release
<1> QED
  BY <1>0, <1>1, <1>2, <1>3, <1>4, <1>5, <1>6, <1>7, <1>8, <1>9, <1>10, <1>11, <1>12, <1>13,
     <1>14, <1>15, StepsAre

(* ... of the log, ...                                                     *)
LEMMA LogTypesStep ==
  ASSUME PoolInv, Next
  PROVE  LogTypes'
<1>0. Clients \subseteq Slots /\ Sys \in Slots
  BY DEF Slots
<1>t. LogTypes /\ Len(log) \in Nat /\ TypeOK
  BY TypesAre DEF PoolInv, LogTypes
<1>1. ASSUME UNCHANGED log, saved' = saved \/ saved' = Len(log),
             promised' = promised \/ promised' = Len(log)
      PROVE  LogTypes'
  BY <1>t, <1>1 DEF LogTypes
<1>2. ASSUME NEW r \in Records, AppendLog(r) PROVE LogTypes'
  <2>1. Len(log') = Len(log) + 1 /\ log' \in Seq(Records)
    BY <1>t, <1>2, AppendKeeps
  <2> QED BY <1>t, <1>2, <2>1 DEF LogTypes, AppendLog
<1>3. ASSUME NEW o \in {"start", "commit", "rollback", "checkpoint"}, NEW t \in Int
      PROVE  Record(o, t) \in Records
  BY TxAssumption DEF Record, Records
<1>4. ASSUME NEW b \in Blocks, NEW t \in Int, NEW v \in Values
      PROVE  SetRecord(t, b, v) \in Records
  BY DEF SetRecord, Records
<1>5. CASE Startup
  BY <1>2, <1>3, <1>5 DEF Startup
<1>6. ASSUME NEW s \in Clients, Begin(s) PROVE LogTypes'
  <2>1. nextTx' \in Int
    BY <1>6, <1>t DEF Begin, TypeOK
  <2> QED BY <2>1, <1>2, <1>3, <1>6 DEF Begin
<1>7. ASSUME NEW s \in Clients, NEW b \in Blocks, NEW v \in Values, set_int(s, b, v) PROVE LogTypes'
  <2>1. num[s] \in Int /\ Target(b) \in Buffs
    BY <1>0, <1>t, <1>7, SetEffect DEF TypeOK
  <2>2. buf[Target(b)].val \in Values
    BY <1>t, <2>1 DEF TypeOK
  <2>3. AppendLog(SetRecord(num[s], b, buf[Target(b)].val))
    BY <1>7 DEF set_int
  <2> QED BY <2>1, <2>2, <2>3, <1>2, <1>4
<1>8. ASSUME NEW s \in Slots, WriteRecord(s) PROVE LogTypes'
  <2>0. pc[s] = "record" => op[s] # "none"
    BY DEF PoolInv, Threads, Calls
  <2>1. num[s] \in Int /\ op[s] \in {"commit", "rollback", "recover"} /\ -1 \in Int
    BY <1>t, <1>8, <2>0 DEF WriteRecord, TypeOK
  <2>2. CASE op[s] = "recover"
    BY <2>2, <1>2, <1>3, <1>8 DEF WriteRecord
  <2>3. CASE op[s] # "recover"
    <3>1. Record(op[s], num[s]) \in Records
      BY <2>1, <2>3, <1>3
    <3> QED BY <2>3, <3>1, <1>2, <1>8 DEF WriteRecord
  <2> QED BY <2>2, <2>3
<1>9. CASE Crash
  <2>1. /\ saved \in 0 .. Len(log) /\ saved' = saved /\ promised' = saved
        /\ log' = SubSeq(log, 1, saved)
    BY <1>t, <1>9 DEF LogTypes, Crash
  <2>2. log' \in Seq(Records) /\ Len(log') = saved
    BY <1>t, <2>1, SubSeqProperties DEF LogTypes
  <2> QED BY <2>1, <2>2 DEF LogTypes
<1>10. ASSUME append_saves \/ AtBounds PROVE LogTypes'
  BY <1>1, <1>10 DEF append_saves, AtBounds, vars, logv
<1>11. ASSUME NEW s, NEW b, CallPin(s, b) \/ get_int(s, b) \/ unpin(s, b) PROVE LogTypes'
  BY <1>1, <1>11 DEF CallPin, get_int, unpin, logv
<1>12. ASSUME NEW s, PinDone(s) \/ PinThrows(s) \/ CallCommit(s) \/ CallRollback(s) \/ EndWrite(s)
       PROVE  LogTypes'
  BY <1>1, <1>12 DEF PinDone, PinThrows, CallCommit, CallRollback, EndWrite, logv
<1>13. ASSUME NEW s, NEW i, StartWrite(s, i) PROVE LogTypes'
  BY <1>1, <1>13 DEF StartWrite, FlushLog
<1>14. ASSUME NEW s, iterator(s) \/ Iterate(s) \/ UndoThrows(s) \/ UndoEnds(s) \/ UndoPins(s) \/ Undo(s)
                     \/ FlushEnds(s)
       PROVE  LogTypes'
  BY <1>1, <1>14 DEF iterator, Iterate, UndoThrows, UndoEnds, UndoPins, Undo, FlushEnds, logv
<1>15. ASSUME NEW s, FlushRecord(s) \/ Release(s) \/ UnpinAll(s) PROVE LogTypes'
  BY <1>1, <1>15 DEF FlushRecord, FlushLog, Release, UnpinAll, logv
<1> QED
  BY <1>0, <1>5, <1>6, <1>7, <1>8, <1>9, <1>10, <1>11, <1>12, <1>13, <1>14, <1>15, StepsAre

(* ... of the threads, ...                                                 *)
LEMMA ThreadTypesStep ==
  ASSUME PoolInv, Next
  PROVE  ThreadTypes'
<1>0. Clients \subseteq Slots /\ Sys \in Slots /\ Sys \notin Clients
  BY TxAssumption DEF Slots
<1>t. ThreadTypes /\ Len(log) \in Nat /\ nextTx \in Nat
  BY TypesAre DEF PoolInv, LogTypes, RestTypes
<1>1. CASE Startup
  BY <1>0, <1>1, <1>t, TxAssumption DEF Startup, Goto, ThreadTypes, tx
<1>2. CASE append_saves
  BY <1>0, <1>2, <1>t, TxAssumption DEF append_saves, ThreadTypes, tx
<1>3. CASE AtBounds
  BY <1>0, <1>3, <1>t, TxAssumption DEF AtBounds, vars, ThreadTypes, tx
<1>4. ASSUME NEW s \in Clients, Begin(s) PROVE ThreadTypes'
  BY <1>0, <1>4, <1>t, TxAssumption DEF Begin, Goto, ThreadTypes, tx
<1>5. ASSUME NEW s \in Clients, PinDone(s) PROVE ThreadTypes'
  <2>1. want[s] \in Blocks
    BY <1>0, <1>5, <1>t DEF PinDone, ThreadTypes, PoolInv, Threads, Calls
  <2> QED BY <1>0, <1>5, <1>t, <2>1 DEF PinDone, Goto, ThreadTypes
<1>6. ASSUME NEW s \in Clients, PinThrows(s) PROVE ThreadTypes'
  BY <1>0, <1>6, <1>t, TxAssumption DEF PinThrows, Goto, ThreadTypes, tx
<1>7. ASSUME NEW s \in Clients, CallCommit(s) PROVE ThreadTypes'
  BY <1>0, <1>7, <1>t, TxAssumption DEF CallCommit, Goto, ThreadTypes, tx
<1>8. ASSUME NEW s \in Clients, CallRollback(s) PROVE ThreadTypes'
  BY <1>0, <1>8, <1>t, TxAssumption DEF CallRollback, Goto, ThreadTypes, tx
<1>9. ASSUME NEW s \in Clients, NEW b \in Blocks, CallPin(s, b) PROVE ThreadTypes'
  BY <1>0, <1>9, <1>t, TxAssumption DEF CallPin, Goto, ThreadTypes, tx
<1>10. ASSUME NEW s \in Clients, NEW b \in Blocks, unpin(s, b) PROVE ThreadTypes'
  BY <1>0, <1>10, <1>t, TxAssumption DEF unpin, ThreadTypes, tx
<1>11. ASSUME NEW s \in Clients, NEW b \in Blocks, get_int(s, b) PROVE ThreadTypes'
  BY <1>0, <1>11, <1>t, TxAssumption DEF get_int, ThreadTypes, tx
<1>12. ASSUME NEW s \in Clients, NEW b \in Blocks, NEW v \in Values, set_int(s, b, v) PROVE ThreadTypes'
  BY <1>0, <1>12, <1>t, TxAssumption DEF set_int, ThreadTypes, tx
<1>13. ASSUME NEW s \in Slots, NEW i \in Buffs, StartWrite(s, i), FlushesFor(s, i) PROVE ThreadTypes'
  BY <1>0, <1>13, <1>t, TxAssumption DEF StartWrite, ThreadTypes, tx
<1>14. ASSUME NEW s \in Slots, EndWrite(s) PROVE ThreadTypes'
  BY <1>0, <1>14, <1>t, TxAssumption DEF EndWrite, ThreadTypes, tx
<1>15. ASSUME NEW s \in Slots, iterator(s) \/ Iterate(s) PROVE ThreadTypes'
  <2>1. CASE iterator(s)
    BY <1>0, <2>1, <1>t, TxAssumption DEF iterator, Goto, ThreadTypes, tx
  <2>2. CASE Iterate(s)
    BY <1>0, <2>2, <1>t, TxAssumption DEF Iterate, Goto, ThreadTypes, tx
  <2> QED BY <1>15, <2>1, <2>2
<1>16. ASSUME NEW s \in Slots, UndoPins(s) PROVE ThreadTypes'
  BY <1>0, <1>16, <1>t, TxAssumption DEF UndoPins, Undoing, Goto, ThreadTypes, tx
<1>17. ASSUME NEW s \in Slots, Undo(s) PROVE ThreadTypes'
  <2>1. Max(ToUndo(s)) \in 1 .. Len(log) /\ UndoBlock(s) \in Blocks
    BY <1>17, UndoIs, UndoBlockIs DEF Undo, PoolInv, Threads, Iterators
  <2>2. /\ locks' = [locks EXCEPT ![s][UndoBlock(s)] = "X"]
        /\ pos' = [pos EXCEPT ![s] = Max(ToUndo(s)) - 1]
        /\ pc' = [pc EXCEPT ![s] = "undo"]
        /\ UNCHANGED <<num, pinned, want, op, top>>
    BY <1>17 DEF Undo, Goto
  <2>3. Max(ToUndo(s)) - 1 \in Nat
    BY <2>1
  <2> QED BY <1>t, <2>1, <2>2, <2>3 DEF ThreadTypes
<1>18. ASSUME NEW s \in Slots, UndoThrows(s) PROVE ThreadTypes'
  BY <1>0, <1>18, <1>t, TxAssumption DEF UndoThrows, Undoing, Goto, ThreadTypes, tx
<1>19. ASSUME NEW s \in Slots, UndoEnds(s) PROVE ThreadTypes'
  BY <1>0, <1>19, <1>t, TxAssumption DEF UndoEnds, Goto, ThreadTypes, tx
<1>20. ASSUME NEW s \in Slots, FlushEnds(s) PROVE ThreadTypes'
  BY <1>0, <1>20, <1>t, TxAssumption DEF FlushEnds, Goto, ThreadTypes, tx
<1>21. ASSUME NEW s \in Slots, WriteRecord(s) PROVE ThreadTypes'
  BY <1>0, <1>21, <1>t, TxAssumption DEF WriteRecord, Goto, ThreadTypes, tx
<1>22. ASSUME NEW s \in Slots, FlushRecord(s) PROVE ThreadTypes'
  BY <1>0, <1>22, <1>t, TxAssumption DEF FlushRecord, Goto, ThreadTypes, tx
<1>23. ASSUME NEW s \in Slots, Release(s) PROVE ThreadTypes'
  BY <1>0, <1>23, <1>t, TxAssumption DEF Release, Goto, NoLocks, ThreadTypes, tx
<1>24. ASSUME NEW s \in Slots, UnpinAll(s) PROVE ThreadTypes'
  BY <1>0, <1>24, <1>t, TxAssumption DEF UnpinAll, Goto, ThreadTypes, tx
<1>25. CASE Crash
  BY <1>0, <1>25, <1>t, TxAssumption DEF Crash, All, NoLocks, ThreadTypes, tx
<1> QED
  BY <1>0, <1>1, <1>2, <1>3, <1>4, <1>5, <1>6, <1>7, <1>8, <1>9, <1>10, <1>11, <1>12, <1>13, <1>14, <1>15, <1>16, <1>17, <1>18, <1>19, <1>20, <1>21, <1>22, <1>23, <1>24, <1>25, StepsAre

(* ... and of the rest.                                                    *)
LEMMA RestTypesStep ==
  ASSUME PoolInv, Next
  PROVE  RestTypes'
<1>0. Clients \subseteq Slots /\ Sys \in Slots /\ Sys \notin Clients
  BY TxAssumption DEF Slots
<1>t. RestTypes /\ Len(log) \in Nat /\ saved \in Nat
  BY TypesAre DEF PoolInv, LogTypes
<1>w. InitVal \in Values
  BY TxAssumption
<1>o. ASSUME NEW d \in [Blocks -> Values], NEW S, S \subseteq Slots PROVE Overlay(d, S) \in [Blocks -> Values]
  BY <1>t, <1>o DEF Overlay, RestTypes
<1>1. CASE Startup
  BY <1>0, <1>1, <1>t DEF Startup, Goto, RestTypes, sysv, ghosts
<1>2. CASE append_saves
  BY <1>0, <1>2, <1>t DEF append_saves, RestTypes, sysv, ghosts
<1>3. CASE AtBounds
  BY <1>0, <1>3, <1>t DEF AtBounds, vars, RestTypes, sysv, ghosts
<1>4. ASSUME NEW s \in Clients, Begin(s) PROVE RestTypes'
  BY <1>0, <1>4, <1>t DEF Begin, Goto, RestTypes, sysv, ghosts
<1>5. ASSUME NEW s \in Clients, PinDone(s) PROVE RestTypes'
  BY <1>0, <1>5, <1>t DEF PinDone, Goto, RestTypes, sysv, ghosts
<1>6. ASSUME NEW s \in Clients, PinThrows(s) PROVE RestTypes'
  BY <1>0, <1>6, <1>t DEF PinThrows, Goto, RestTypes, sysv, ghosts
<1>7. ASSUME NEW s \in Clients, CallCommit(s) PROVE RestTypes'
  BY <1>0, <1>7, <1>t DEF CallCommit, Goto, RestTypes, sysv, ghosts
<1>8. ASSUME NEW s \in Clients, CallRollback(s) PROVE RestTypes'
  BY <1>0, <1>8, <1>t DEF CallRollback, Goto, RestTypes, sysv, ghosts
<1>9. ASSUME NEW s \in Clients, NEW b \in Blocks, CallPin(s, b) PROVE RestTypes'
  BY <1>0, <1>9, <1>t DEF CallPin, Goto, RestTypes, sysv, ghosts
<1>10. ASSUME NEW s \in Clients, NEW b \in Blocks, unpin(s, b) PROVE RestTypes'
  BY <1>0, <1>10, <1>t DEF unpin, RestTypes, sysv, ghosts
<1>11. ASSUME NEW s \in Clients, NEW b \in Blocks, get_int(s, b) PROVE RestTypes'
  BY <1>0, <1>11, <1>t DEF get_int, RestTypes, sysv, ghosts
<1>12. ASSUME NEW s \in Clients, NEW b \in Blocks, NEW v \in Values, set_int(s, b, v) PROVE RestTypes'
  BY <1>0, <1>12, <1>t DEF set_int, RestTypes, sysv, ghosts
<1>13. ASSUME NEW s \in Slots, NEW i \in Buffs, StartWrite(s, i), FlushesFor(s, i) PROVE RestTypes'
  BY <1>0, <1>13, <1>t DEF StartWrite, RestTypes, sysv, ghosts
<1>14. ASSUME NEW s \in Slots, EndWrite(s) PROVE RestTypes'
  BY <1>0, <1>14, <1>t DEF EndWrite, RestTypes, sysv, ghosts
<1>15. ASSUME NEW s \in Slots, iterator(s) \/ Iterate(s) PROVE RestTypes'
  BY <1>0, <1>15, <1>t DEF iterator, Iterate, Goto, RestTypes, sysv, ghosts
<1>16. ASSUME NEW s \in Slots, UndoPins(s) PROVE RestTypes'
  BY <1>0, <1>16, <1>t DEF UndoPins, Undoing, Goto, RestTypes, sysv, ghosts
<1>17. ASSUME NEW s \in Slots, Undo(s) PROVE RestTypes'
  BY <1>0, <1>17, <1>t DEF Undo, Goto, RestTypes, sysv, ghosts
<1>18. ASSUME NEW s \in Slots, UndoThrows(s) PROVE RestTypes'
  BY <1>0, <1>18, <1>t DEF UndoThrows, Undoing, Goto, RestTypes, sysv, ghosts
<1>19. ASSUME NEW s \in Slots, UndoEnds(s) PROVE RestTypes'
  BY <1>0, <1>19, <1>t DEF UndoEnds, Goto, RestTypes, sysv, ghosts
<1>20. ASSUME NEW s \in Slots, FlushEnds(s) PROVE RestTypes'
  BY <1>0, <1>20, <1>t DEF FlushEnds, Goto, RestTypes, sysv, ghosts
<1>21. ASSUME NEW s \in Slots, WriteRecord(s) PROVE RestTypes'
  <2>1. Len(log') \in Nat
    BY LogTypesStep DEF LogTypes
  <2>2. PICK n \in Nat : commitAt' = [commitAt EXCEPT ![s] = n]
    <3>1. CASE op[s] = "commit"
      BY <1>21, <2>1, <3>1 DEF WriteRecord
    <3>2. CASE op[s] # "commit"
      BY <1>21, <3>2 DEF WriteRecord
    <3> QED BY <3>1, <3>2
  <2>3. UNCHANGED sysv /\ UNCHANGED <<base, writes>>
    BY <1>21 DEF WriteRecord
  <2> QED BY <1>t, <2>2, <2>3 DEF RestTypes, sysv
<1>22. ASSUME NEW s \in Slots, FlushRecord(s) PROVE RestTypes'
  BY <1>0, <1>22, <1>t DEF FlushRecord, Goto, RestTypes, sysv, ghosts
<1>23. ASSUME NEW s \in Slots, Release(s) PROVE RestTypes'
  <2>1. base' \in [Blocks -> Values]
    BY <1>23, <1>t, <1>o DEF Release, RestTypes
  <2>2. /\ writes' = [writes EXCEPT ![s] = Nothing]
        /\ commitAt' = [commitAt EXCEPT ![s] = 0]
        /\ UNCHANGED sysv
    BY <1>23 DEF Release
  <2> QED BY <1>t, <2>1, <2>2 DEF RestTypes, sysv, Nothing
<1>24. ASSUME NEW s \in Slots, UnpinAll(s) PROVE RestTypes'
  BY <1>0, <1>24, <1>t DEF UnpinAll, Goto, RestTypes, sysv, ghosts
<1>25. CASE Crash
  <2>1. Committed \subseteq Slots
    BY DEF Committed
  <2>2. base' \in [Blocks -> Values]
    BY <1>25, <1>t, <1>o, <2>1 DEF Crash, RestTypes, DB
  <2>3. crashes' \in 0 .. MaxCrashes
    BY <1>25, <1>t, TxAssumption DEF Crash, RestTypes
  <2>4. writes' = [u \in Slots |-> Nothing] /\ commitAt' = [u \in Slots |-> 0]
    BY <1>25 DEF Crash, All
  <2>5. nextTx' = 0 /\ started' = "no" /\ isNew' = isNew
    BY <1>25 DEF Crash
  <2> QED BY <1>t, <2>2, <2>3, <2>4, <2>5 DEF RestTypes, Nothing
<1> QED
  BY <1>0, <1>1, <1>2, <1>3, <1>4, <1>5, <1>6, <1>7, <1>8, <1>9, <1>10, <1>11, <1>12, <1>13, <1>14, <1>15, <1>16, <1>17, <1>18, <1>19, <1>20, <1>21, <1>22, <1>23, <1>24, <1>25, StepsAre

(* Every step keeps the iterators within the log.                          *)
LEMMA IteratorBoundsStep ==
  ASSUME PoolInv, Next
  PROVE  (\A u \in Slots : top[u] <= Len(log) /\ pos[u] <= top[u])'
<1>0. Clients \subseteq Slots /\ Sys \in Slots /\ Sys \notin Clients
  BY TxAssumption DEF Slots
<1>t. ThreadTypes /\ nextTx \in Nat /\ saved \in Nat /\ Len(log) \in Nat
  BY TypesAre DEF PoolInv, LogTypes, RestTypes
<1>i. Threads
  BY DEF PoolInv
<1> USE DEF Threads
<1>len. ASSUME NEW r, AppendLog(r), UNCHANGED <<pos, top>>
      PROVE  (\A u \in Slots : top[u] <= Len(log) /\ pos[u] <= top[u])'
  <2>1. Len(log') = Len(log) + 1
    BY <1>len, AppendKeeps DEF PoolInv
  <2> QED BY <1>t, <1>i, <1>len, <2>1 DEF Iterators, ThreadTypes
<1>1. CASE Startup
  BY <1>1, <1>len DEF Startup
<1>2. CASE append_saves
  BY <1>0, <1>2, <1>t, <1>i DEF append_saves, Iterators, ThreadTypes, tx, logv
<1>3. CASE AtBounds
  BY <1>0, <1>3, <1>t, <1>i DEF AtBounds, vars, Iterators, ThreadTypes, tx, logv
<1>4. ASSUME NEW s \in Clients, Begin(s) PROVE (\A u \in Slots : top[u] <= Len(log) /\ pos[u] <= top[u])'
  BY <1>4, <1>len DEF Begin
<1>5. ASSUME NEW s \in Clients, PinDone(s) PROVE (\A u \in Slots : top[u] <= Len(log) /\ pos[u] <= top[u])'
  BY <1>0, <1>5, <1>t, <1>i DEF PinDone, Goto, Iterators, ThreadTypes, tx, logv
<1>6. ASSUME NEW s \in Clients, PinThrows(s) PROVE (\A u \in Slots : top[u] <= Len(log) /\ pos[u] <= top[u])'
  BY <1>0, <1>6, <1>t, <1>i DEF PinThrows, Goto, Iterators, ThreadTypes, tx, logv
<1>7. ASSUME NEW s \in Clients, CallCommit(s) PROVE (\A u \in Slots : top[u] <= Len(log) /\ pos[u] <= top[u])'
  BY <1>0, <1>7, <1>t, <1>i DEF CallCommit, Goto, Iterators, ThreadTypes, tx, logv
<1>8. ASSUME NEW s \in Clients, CallRollback(s) PROVE (\A u \in Slots : top[u] <= Len(log) /\ pos[u] <= top[u])'
  BY <1>0, <1>8, <1>t, <1>i DEF CallRollback, Goto, Iterators, ThreadTypes, tx, logv
<1>9. ASSUME NEW s \in Clients, NEW b \in Blocks, CallPin(s, b) PROVE (\A u \in Slots : top[u] <= Len(log) /\ pos[u] <= top[u])'
  BY <1>0, <1>9, <1>t, <1>i DEF CallPin, Goto, Iterators, ThreadTypes, tx, logv
<1>10. ASSUME NEW s \in Clients, NEW b \in Blocks, unpin(s, b) PROVE (\A u \in Slots : top[u] <= Len(log) /\ pos[u] <= top[u])'
  BY <1>0, <1>10, <1>t, <1>i DEF unpin, Iterators, ThreadTypes, tx, logv
<1>11. ASSUME NEW s \in Clients, NEW b \in Blocks, get_int(s, b) PROVE (\A u \in Slots : top[u] <= Len(log) /\ pos[u] <= top[u])'
  BY <1>0, <1>11, <1>t, <1>i DEF get_int, Iterators, ThreadTypes, tx, logv
<1>12. ASSUME NEW s \in Clients, NEW b \in Blocks, NEW v \in Values, set_int(s, b, v) PROVE (\A u \in Slots : top[u] <= Len(log) /\ pos[u] <= top[u])'
  BY <1>12, <1>len DEF set_int, tx
<1>13. ASSUME NEW s \in Slots, NEW i \in Buffs, StartWrite(s, i), FlushesFor(s, i) PROVE (\A u \in Slots : top[u] <= Len(log) /\ pos[u] <= top[u])'
  BY <1>0, <1>13, <1>t, <1>i DEF StartWrite, Iterators, ThreadTypes, tx, logv
<1>14. ASSUME NEW s \in Slots, EndWrite(s) PROVE (\A u \in Slots : top[u] <= Len(log) /\ pos[u] <= top[u])'
  BY <1>0, <1>14, <1>t, <1>i DEF EndWrite, Iterators, ThreadTypes, tx, logv
<1>15. ASSUME NEW s \in Slots, iterator(s) \/ Iterate(s) PROVE (\A u \in Slots : top[u] <= Len(log) /\ pos[u] <= top[u])'
  <2>1. CASE iterator(s)
    BY <1>0, <2>1, <1>t, <1>i DEF iterator, Goto, Iterators, ThreadTypes, tx, logv
  <2>2. CASE Iterate(s)
    BY <1>0, <2>2, <1>t, <1>i DEF Iterate, Goto, Iterators, ThreadTypes, tx, logv
  <2> QED BY <1>15, <2>1, <2>2
<1>16. ASSUME NEW s \in Slots, UndoPins(s) PROVE (\A u \in Slots : top[u] <= Len(log) /\ pos[u] <= top[u])'
  BY <1>0, <1>16, <1>t, <1>i DEF UndoPins, Undoing, Goto, Iterators, ThreadTypes, tx, logv
<1>17. ASSUME NEW s \in Slots, Undo(s) PROVE (\A u \in Slots : top[u] <= Len(log) /\ pos[u] <= top[u])'
  <2>1. Max(ToUndo(s)) \in Nat /\ Max(ToUndo(s)) <= pos[s]
    BY <1>i, <1>17, UndoIs DEF Undo, PoolInv, Iterators
  <2>2. pos' = [pos EXCEPT ![s] = Max(ToUndo(s)) - 1] /\ UNCHANGED <<top, log>>
    BY <1>17 DEF Undo, logv
  <2> QED BY <1>i, <1>t, <2>1, <2>2 DEF Iterators, ThreadTypes
<1>18. ASSUME NEW s \in Slots, UndoThrows(s) PROVE (\A u \in Slots : top[u] <= Len(log) /\ pos[u] <= top[u])'
  BY <1>0, <1>18, <1>t, <1>i DEF UndoThrows, Undoing, Goto, Iterators, ThreadTypes, tx, logv
<1>19. ASSUME NEW s \in Slots, UndoEnds(s) PROVE (\A u \in Slots : top[u] <= Len(log) /\ pos[u] <= top[u])'
  BY <1>0, <1>19, <1>t, <1>i DEF UndoEnds, Goto, Iterators, ThreadTypes, tx, logv
<1>20. ASSUME NEW s \in Slots, FlushEnds(s) PROVE (\A u \in Slots : top[u] <= Len(log) /\ pos[u] <= top[u])'
  BY <1>0, <1>20, <1>t, <1>i DEF FlushEnds, Goto, Iterators, ThreadTypes, tx, logv
<1>21. ASSUME NEW s \in Slots, WriteRecord(s) PROVE (\A u \in Slots : top[u] <= Len(log) /\ pos[u] <= top[u])'
  BY <1>21, <1>len DEF WriteRecord
<1>22. ASSUME NEW s \in Slots, FlushRecord(s) PROVE (\A u \in Slots : top[u] <= Len(log) /\ pos[u] <= top[u])'
  BY <1>0, <1>22, <1>t, <1>i DEF FlushRecord, Goto, Iterators, ThreadTypes, tx, logv
<1>23. ASSUME NEW s \in Slots, Release(s) PROVE (\A u \in Slots : top[u] <= Len(log) /\ pos[u] <= top[u])'
  BY <1>0, <1>23, <1>t, <1>i DEF Release, Goto, NoLocks, Iterators, ThreadTypes, tx, logv
<1>24. ASSUME NEW s \in Slots, UnpinAll(s) PROVE (\A u \in Slots : top[u] <= Len(log) /\ pos[u] <= top[u])'
  BY <1>0, <1>24, <1>t, <1>i DEF UnpinAll, Goto, Iterators, ThreadTypes, tx, logv
<1>25. CASE Crash
  BY <1>0, <1>25, <1>t, <1>i DEF Crash, All, NoLocks, Iterators, ThreadTypes, tx, logv
<1> QED
  BY <1>0, <1>1, <1>2, <1>3, <1>4, <1>5, <1>6, <1>7, <1>8, <1>9, <1>10, <1>11, <1>12, <1>13, <1>14, <1>15, <1>16, <1>17, <1>18, <1>19, <1>20, <1>21, <1>22, <1>23, <1>24, <1>25, StepsAre

(* Every step leaves a restoring thread with the record it restores.       *)
LEMMA RestoreStep ==
  ASSUME PoolInv, Next
  PROVE  (\A u \in Slots : pc'[u] = "restore" => (pc[u] = "restore" /\ Same(u)) \/ UndoPins(u))
<1>0. Clients \subseteq Slots /\ Sys \in Slots /\ Sys \notin Clients
  BY TxAssumption DEF Slots
<1>t. ThreadTypes
  BY TypesAre DEF PoolInv
<1>1. CASE Startup
  BY <1>0, <1>1, <1>t DEF Startup, Goto, Same, ThreadTypes, tx
<1>2. CASE append_saves
  BY <1>0, <1>2, <1>t DEF append_saves, Same, ThreadTypes, tx
<1>3. CASE AtBounds
  BY <1>0, <1>3, <1>t DEF AtBounds, vars, Same, ThreadTypes, tx
<1>4. ASSUME NEW s \in Clients, Begin(s) PROVE (\A u \in Slots : pc'[u] = "restore" => (pc[u] = "restore" /\ Same(u)) \/ UndoPins(u))
  BY <1>0, <1>4, <1>t DEF Begin, Goto, Same, ThreadTypes, tx
<1>5. ASSUME NEW s \in Clients, PinDone(s) PROVE (\A u \in Slots : pc'[u] = "restore" => (pc[u] = "restore" /\ Same(u)) \/ UndoPins(u))
  BY <1>0, <1>5, <1>t DEF PinDone, Goto, Same, ThreadTypes, tx
<1>6. ASSUME NEW s \in Clients, PinThrows(s) PROVE (\A u \in Slots : pc'[u] = "restore" => (pc[u] = "restore" /\ Same(u)) \/ UndoPins(u))
  BY <1>0, <1>6, <1>t DEF PinThrows, Goto, Same, ThreadTypes, tx
<1>7. ASSUME NEW s \in Clients, CallCommit(s) PROVE (\A u \in Slots : pc'[u] = "restore" => (pc[u] = "restore" /\ Same(u)) \/ UndoPins(u))
  BY <1>0, <1>7, <1>t DEF CallCommit, Goto, Same, ThreadTypes, tx
<1>8. ASSUME NEW s \in Clients, CallRollback(s) PROVE (\A u \in Slots : pc'[u] = "restore" => (pc[u] = "restore" /\ Same(u)) \/ UndoPins(u))
  BY <1>0, <1>8, <1>t DEF CallRollback, Goto, Same, ThreadTypes, tx
<1>9. ASSUME NEW s \in Clients, NEW b \in Blocks, CallPin(s, b) PROVE (\A u \in Slots : pc'[u] = "restore" => (pc[u] = "restore" /\ Same(u)) \/ UndoPins(u))
  BY <1>0, <1>9, <1>t DEF CallPin, Goto, Same, ThreadTypes, tx
<1>10. ASSUME NEW s \in Clients, NEW b \in Blocks, unpin(s, b) PROVE (\A u \in Slots : pc'[u] = "restore" => (pc[u] = "restore" /\ Same(u)) \/ UndoPins(u))
  BY <1>0, <1>10, <1>t DEF unpin, Same, ThreadTypes, tx
<1>11. ASSUME NEW s \in Clients, NEW b \in Blocks, get_int(s, b) PROVE (\A u \in Slots : pc'[u] = "restore" => (pc[u] = "restore" /\ Same(u)) \/ UndoPins(u))
  BY <1>0, <1>11, <1>t DEF get_int, Same, ThreadTypes, tx
<1>12. ASSUME NEW s \in Clients, NEW b \in Blocks, NEW v \in Values, set_int(s, b, v) PROVE (\A u \in Slots : pc'[u] = "restore" => (pc[u] = "restore" /\ Same(u)) \/ UndoPins(u))
  BY <1>0, <1>12, <1>t DEF set_int, Same, ThreadTypes, tx
<1>13. ASSUME NEW s \in Slots, NEW i \in Buffs, StartWrite(s, i), FlushesFor(s, i) PROVE (\A u \in Slots : pc'[u] = "restore" => (pc[u] = "restore" /\ Same(u)) \/ UndoPins(u))
  BY <1>0, <1>13, <1>t DEF StartWrite, Same, ThreadTypes, tx
<1>14. ASSUME NEW s \in Slots, EndWrite(s) PROVE (\A u \in Slots : pc'[u] = "restore" => (pc[u] = "restore" /\ Same(u)) \/ UndoPins(u))
  BY <1>0, <1>14, <1>t DEF EndWrite, Same, ThreadTypes, tx
<1>15. ASSUME NEW s \in Slots, iterator(s) \/ Iterate(s) PROVE (\A u \in Slots : pc'[u] = "restore" => (pc[u] = "restore" /\ Same(u)) \/ UndoPins(u))
  BY <1>0, <1>15, <1>t DEF iterator, Iterate, Goto, Same, ThreadTypes, tx
<1>16. ASSUME NEW s \in Slots, UndoPins(s) PROVE (\A u \in Slots : pc'[u] = "restore" => (pc[u] = "restore" /\ Same(u)) \/ UndoPins(u))
  <2>1. UndoPins(s) /\ pc' = [pc EXCEPT ![s] = "restore"] /\ UNCHANGED <<num, op, pos, top>>
    BY <1>16 DEF UndoPins, Goto
  <2> QED BY <1>t, <2>1 DEF Same, ThreadTypes
<1>17. ASSUME NEW s \in Slots, Undo(s) PROVE (\A u \in Slots : pc'[u] = "restore" => (pc[u] = "restore" /\ Same(u)) \/ UndoPins(u))
  <2>1. pos' = [pos EXCEPT ![s] = Max(ToUndo(s)) - 1] /\ pc' = [pc EXCEPT ![s] = "undo"]
        /\ UNCHANGED <<num, op, top>>
    BY <1>17 DEF Undo, Goto
  <2> QED BY <1>t, <2>1 DEF Same, ThreadTypes
<1>18. ASSUME NEW s \in Slots, UndoThrows(s) PROVE (\A u \in Slots : pc'[u] = "restore" => (pc[u] = "restore" /\ Same(u)) \/ UndoPins(u))
  BY <1>0, <1>18, <1>t DEF UndoThrows, Undoing, Goto, Same, ThreadTypes, tx
<1>19. ASSUME NEW s \in Slots, UndoEnds(s) PROVE (\A u \in Slots : pc'[u] = "restore" => (pc[u] = "restore" /\ Same(u)) \/ UndoPins(u))
  BY <1>0, <1>19, <1>t DEF UndoEnds, Goto, Same, ThreadTypes, tx
<1>20. ASSUME NEW s \in Slots, FlushEnds(s) PROVE (\A u \in Slots : pc'[u] = "restore" => (pc[u] = "restore" /\ Same(u)) \/ UndoPins(u))
  BY <1>0, <1>20, <1>t DEF FlushEnds, Goto, Same, ThreadTypes, tx
<1>21. ASSUME NEW s \in Slots, WriteRecord(s) PROVE (\A u \in Slots : pc'[u] = "restore" => (pc[u] = "restore" /\ Same(u)) \/ UndoPins(u))
  BY <1>0, <1>21, <1>t DEF WriteRecord, Goto, Same, ThreadTypes, tx
<1>22. ASSUME NEW s \in Slots, FlushRecord(s) PROVE (\A u \in Slots : pc'[u] = "restore" => (pc[u] = "restore" /\ Same(u)) \/ UndoPins(u))
  BY <1>0, <1>22, <1>t DEF FlushRecord, Goto, Same, ThreadTypes, tx
<1>23. ASSUME NEW s \in Slots, Release(s) PROVE (\A u \in Slots : pc'[u] = "restore" => (pc[u] = "restore" /\ Same(u)) \/ UndoPins(u))
  BY <1>0, <1>23, <1>t DEF Release, Goto, NoLocks, Same, ThreadTypes, tx
<1>24. ASSUME NEW s \in Slots, UnpinAll(s) PROVE (\A u \in Slots : pc'[u] = "restore" => (pc[u] = "restore" /\ Same(u)) \/ UndoPins(u))
  BY <1>0, <1>24, <1>t DEF UnpinAll, Goto, Same, ThreadTypes, tx
<1>25. CASE Crash
  BY <1>0, <1>25, <1>t DEF Crash, All, NoLocks, Same, ThreadTypes, tx
<1> QED
  BY <1>0, <1>1, <1>2, <1>3, <1>4, <1>5, <1>6, <1>7, <1>8, <1>9, <1>10, <1>11, <1>12, <1>13, <1>14, <1>15, <1>16, <1>17, <1>18, <1>19, <1>20, <1>21, <1>22, <1>23, <1>24, <1>25, StepsAre

(* Every step keeps the iterators valid.                                   *)
LEMMA IteratorsStep ==
  ASSUME PoolInv, Next
  PROVE  Iterators'
<1>0. Clients \subseteq Slots /\ log \in Seq(Records) /\ Len(log) \in Nat /\ TypeOK
  BY DEF Slots, PoolInv, TypeOK
<1>1. \A u \in Slots : top'[u] <= Len(log') /\ pos'[u] <= top'[u]
  BY IteratorBoundsStep
<1>2. CASE Crash
  <2>1. \A u \in Slots : pc'[u] = "idle"
    BY <1>2 DEF Crash, All
  <2>2. /\ Len(log') <= Len(log) /\ Len(log') \in Nat
        /\ \A p \in 1 .. Len(log') : log'[p] = log[p]
    <3>1. saved \in 0 .. Len(log)
      BY <1>0 DEF TypeOK
    <3>2. log' = SubSeq(log, 1, saved)
      BY <1>2 DEF Crash
    <3> QED BY <1>0, <3>1, <3>2, SubSeqProperties
  <2>3. \A p \in 1 .. Len(log') : log'[p].op = "setint" => log'[p].blk \in Blocks
    BY <1>0, <2>2 DEF PoolInv, Threads, Iterators
  <2> QED BY <1>1, <2>1, <2>3 DEF Iterators
<1>3. CASE ~Crash
  <2>1. LogKept
    BY <1>3, LogStep
  <2>2. ASSUME NEW u \in Slots, pc'[u] = "restore" PROVE ToUndo(u)' # {}
    <3>1. Same(u) /\ ToUndo(u) # {}
      <4>1. CASE UndoPins(u)
        BY <4>1 DEF UndoPins, Undoing, Same
      <4>2. CASE ~UndoPins(u)
        BY <2>2, <4>2, RestoreStep DEF PoolInv, Threads, Iterators
      <4> QED BY <4>1, <4>2
    <3>2. top[u] <= Len(log)
      BY DEF PoolInv, Threads, Iterators
    <3> QED BY <1>0, <2>1, <3>1, <3>2, UndoSame DEF Same
  <2>3. ASSUME NEW r, AppendLog(r), r.op = "setint" => r.blk \in Blocks
        PROVE  \A p \in 1 .. Len(log') : log'[p].op = "setint" => log'[p].blk \in Blocks
    <3>1. Len(log') = Len(log) + 1 /\ log'[Len(log) + 1] = r
      BY <1>0, <2>3, AppendKeeps
    <3> QED BY <1>0, <2>1, <2>3, <3>1 DEF LogKept, PoolInv, Threads, Iterators
  <2>4. ASSUME UNCHANGED log
        PROVE  \A p \in 1 .. Len(log') : log'[p].op = "setint" => log'[p].blk \in Blocks
    BY <2>4 DEF PoolInv, Threads, Iterators
  <2>5. ASSUME ~UNCHANGED log
        PROVE  \A p \in 1 .. Len(log') : log'[p].op = "setint" => log'[p].blk \in Blocks
    <3>1. CASE Startup
      BY <2>3, <3>1 DEF Startup, Record
    <3>2. ASSUME NEW s \in Clients, Begin(s)
          PROVE  \A p \in 1 .. Len(log') : log'[p].op = "setint" => log'[p].blk \in Blocks
      BY <2>3, <3>2 DEF Begin, Record
    <3>3. ASSUME NEW s \in Clients, NEW b \in Blocks, NEW v \in Values, set_int(s, b, v)
          PROVE  \A p \in 1 .. Len(log') : log'[p].op = "setint" => log'[p].blk \in Blocks
      <4>1. AppendLog(SetRecord(num[s], b, buf[Target(b)].val))
        BY <3>3 DEF set_int
      <4>2. SetRecord(num[s], b, buf[Target(b)].val).blk = b
        BY DEF SetRecord
      <4> QED BY <2>3, <4>1, <4>2
    <3>4. ASSUME NEW s \in Slots, WriteRecord(s)
          PROVE  \A p \in 1 .. Len(log') : log'[p].op = "setint" => log'[p].blk \in Blocks
      <4>1. op[s] # "setint"
        BY DEF PoolInv, TypeOK
      <4>2. CASE op[s] = "recover"
        BY <2>3, <3>4, <4>2 DEF WriteRecord, Record
      <4>3. CASE op[s] # "recover"
        <5>1. AppendLog(Record(op[s], num[s]))
          BY <3>4, <4>3 DEF WriteRecord
        <5>2. Record(op[s], num[s]).op = op[s]
          BY DEF Record
        <5> QED BY <2>3, <4>1, <5>1, <5>2
      <4> QED BY <4>2, <4>3
    <3>5. ASSUME NEW s, NEW b, CallPin(s, b) \/ get_int(s, b) \/ unpin(s, b) PROVE FALSE
      BY <2>5, <3>5 DEF CallPin, get_int, unpin, logv
    <3>6. ASSUME NEW s, PinDone(s) \/ PinThrows(s) \/ CallCommit(s) \/ CallRollback(s) \/ EndWrite(s)
          PROVE  FALSE
      BY <2>5, <3>6 DEF PinDone, PinThrows, CallCommit, CallRollback, EndWrite, logv
    <3>7. ASSUME NEW s, NEW i, StartWrite(s, i) PROVE FALSE
      BY <2>5, <3>7 DEF StartWrite
    <3>8. ASSUME NEW s, iterator(s) \/ Iterate(s) \/ UndoThrows(s) \/ UndoEnds(s) \/ UndoPins(s) \/ Undo(s)
                        \/ FlushEnds(s)
          PROVE  FALSE
      BY <2>5, <3>8 DEF iterator, Iterate, UndoThrows, UndoEnds, UndoPins, Undo, FlushEnds, logv
    <3>9. ASSUME NEW s, FlushRecord(s) \/ Release(s) \/ UnpinAll(s) PROVE FALSE
      BY <2>5, <3>9 DEF FlushRecord, Release, UnpinAll, logv
    <3>10. ~append_saves /\ ~AtBounds
      BY <2>5 DEF append_saves, AtBounds, vars, logv
    <3> QED
      BY <1>0, <1>3, <3>1, <3>2, <3>3, <3>4, <3>5, <3>6, <3>7, <3>8, <3>9, <3>10, StepsAre
  <2> QED BY <1>1, <2>2, <2>4, <2>5 DEF Iterators
<1> QED BY <1>2, <1>3

(* pin, and the end of a page write, buffer by buffer.                      *)
LEMMA PinDoneEffect ==
  ASSUME PoolInv, NEW s \in Clients, PinDone(s), NEW b, b = want[s]
  PROVE  /\ b \in Blocks /\ Target(b) \in Buffs
         /\ \A j \in Buffs : j # Target(b) => buf'[j] = buf[j]
         /\ buf'[Target(b)].blk = b
         /\ buf'[Target(b)].tx = buf[Target(b)].tx
         /\ buf'[Target(b)].lsn = buf[Target(b)].lsn
         /\ buf'[Target(b)].val = IF Existing(b) # {} THEN buf[Target(b)].val ELSE disk[b]
         /\ Existing(b) # {} => buf[Target(b)].blk = b
         /\ Existing(b) = {} => buf[Target(b)].pins = 0 /\ buf[Target(b)].tx = -1
<1>1. b \in Blocks
  BY DEF PinDone, Slots, PoolInv, Threads, Calls, TypeOK
<1> QED BY <1>1, PinEffect DEF PinDone

(* A pin for undo, buffer by buffer.                                       *)
LEMMA UndoPinsEffect ==
  ASSUME PoolInv, NEW s \in Slots, UndoPins(s), NEW b, b = UndoBlock(s)
  PROVE  /\ b \in Blocks /\ Target(b) \in Buffs
         /\ \A j \in Buffs : j # Target(b) => buf'[j] = buf[j]
         /\ buf'[Target(b)].blk = b
         /\ buf'[Target(b)].tx = buf[Target(b)].tx
         /\ buf'[Target(b)].lsn = buf[Target(b)].lsn
         /\ buf'[Target(b)].val = IF Existing(b) # {} THEN buf[Target(b)].val ELSE disk[b]
         /\ Existing(b) # {} => buf[Target(b)].blk = b
         /\ Existing(b) = {} => buf[Target(b)].pins = 0 /\ buf[Target(b)].tx = -1
<1>1. b \in Blocks
  BY UndoBlockIs DEF UndoPins, Undoing
<1> QED BY <1>1, PinEffect DEF UndoPins

(* The end of a page write: the buffer is clean, and no other changes.     *)
LEMMA EndWriteEffect ==
  ASSUME PoolInv, NEW s \in Slots, EndWrite(s)
  PROVE  /\ writing \in Buffs /\ writing' = 0 /\ bm = s
         /\ \A j \in Buffs : j # writing => buf'[j] = buf[j]
         /\ buf'[writing].blk = buf[writing].blk /\ buf'[writing].val = buf[writing].val
         /\ buf'[writing].tx = -1
         /\ buf'[writing].lsn = buf[writing].lsn /\ buf'[writing].pins = buf[writing].pins
         /\ disk' = [disk EXCEPT ![buf[writing].blk] = buf[writing].val]
<1>1. writing \in Buffs /\ buf \in [Buffs -> BufRec]
  BY DEF EndWrite, PoolInv, TypeOK, BufRec
<1>2. PICK r : r = [buf[writing] EXCEPT !.tx = -1]
  OBVIOUS
<1>3. buf[writing] \in BufRec
  BY <1>1
<1>4. /\ r.blk = buf[writing].blk /\ r.val = buf[writing].val /\ r.tx = -1
      /\ r.lsn = buf[writing].lsn /\ r.pins = buf[writing].pins /\ r \in BufRec
  BY <1>2, <1>3 DEF BufRec
<1>5. buf' = [buf EXCEPT ![writing] = r]
  BY <1>2 DEF EndWrite
<1>6. /\ buf'[writing] = r
      /\ \A j \in Buffs : j # writing => buf'[j] = buf[j]
  BY <1>1, <1>4, <1>5, OneBuffer
<1> QED BY <1>1, <1>4, <1>6 DEF EndWrite

(* Every step keeps the buffers' fields within their bounds.               *)
LEMMA BuffersStep ==
  ASSUME PoolInv, Next
  PROVE  Buffers'
<1>0. Clients \subseteq Slots /\ Sys \in Slots /\ Sys \notin Clients
  BY TxAssumption DEF Slots
<1>t. ThreadTypes /\ PoolTypes /\ nextTx \in Nat /\ saved \in 0 .. Len(log) /\ Len(log) \in Nat /\ Len(log') \in Nat
  BY TypesAre, LogTypesStep DEF PoolInv, LogTypes, RestTypes
<1>i. Threads /\ Buffers /\ Writing /\ ChangesAreLocked /\ Unforgotten
  BY DEF PoolInv
<1>b. \A i \in Buffs : buf[i] \in BufRec
  BY <1>t DEF PoolTypes
<1>len. ASSUME NEW r, AppendLog(r) PROVE Len(log') = Len(log) + 1
  BY <1>len, AppendKeeps DEF PoolInv
<1>1. CASE Startup
  <2>1. Len(log') = Len(log) + 1 /\ nextTx = 0 /\ nextTx' = 1 /\ buf' = buf
    BY <1>1, <1>i, <1>len DEF Startup, Threads, StartUps, pool
  <2> QED BY <1>t, <1>i, <1>b, <2>1 DEF Buffers, BufRec
<1>2. CASE append_saves
  BY <1>0, <1>2, <1>t, <1>i DEF append_saves, Buffers, StartUps, Threads, sysv, logv, pool
<1>3. CASE AtBounds
  BY <1>0, <1>3, <1>t, <1>i DEF AtBounds, vars, Buffers, StartUps, Threads, sysv, logv, pool
<1>4. ASSUME NEW s \in Clients, Begin(s) PROVE Buffers'
  <2>1. Len(log') = Len(log) + 1 /\ nextTx' = nextTx + 1 /\ buf' = buf
    BY <1>4, <1>i, <1>len DEF Begin, pool
  <2> QED BY <1>t, <1>i, <1>b, <2>1 DEF Buffers, BufRec
<1>5. ASSUME NEW s \in Clients, PinDone(s) PROVE Buffers'
  <2>1. PICK b : b = want[s]
    OBVIOUS
  <2>2. /\ b \in Blocks /\ Target(b) \in Buffs
        /\ \A j \in Buffs : j # Target(b) => buf'[j] = buf[j]
        /\ buf'[Target(b)].blk = b
        /\ buf'[Target(b)].tx = buf[Target(b)].tx
        /\ buf'[Target(b)].lsn = buf[Target(b)].lsn
        /\ Existing(b) # {} => buf[Target(b)].blk = b
        /\ Existing(b) = {} => buf[Target(b)].tx = -1
    BY <1>5, <2>1, PinDoneEffect
  <2>5. UNCHANGED <<log, nextTx>>
    BY <1>5 DEF PinDone, logv, sysv
  <2> QED BY <1>t, <1>i, <1>b, <2>2, <2>5, TxAssumption DEF Buffers, BufRec
<1>6. ASSUME NEW s \in Clients, PinThrows(s) PROVE Buffers'
  BY <1>0, <1>6, <1>t, <1>i DEF PinThrows, Goto, Buffers, StartUps, Threads, sysv, logv, pool
<1>7. ASSUME NEW s \in Clients, CallCommit(s) PROVE Buffers'
  BY <1>0, <1>7, <1>t, <1>i DEF CallCommit, Goto, Buffers, StartUps, Threads, sysv, logv, pool
<1>8. ASSUME NEW s \in Clients, CallRollback(s) PROVE Buffers'
  BY <1>0, <1>8, <1>t, <1>i DEF CallRollback, Goto, Buffers, StartUps, Threads, sysv, logv, pool
<1>9. ASSUME NEW s \in Clients, NEW b \in Blocks, CallPin(s, b) PROVE Buffers'
  BY <1>0, <1>9, <1>t, <1>i DEF CallPin, Goto, Buffers, StartUps, Threads, sysv, logv, pool
<1>10. ASSUME NEW s \in Clients, NEW b \in Blocks, unpin(s, b) PROVE Buffers'
  <2>2. \A j \in Buffs : /\ buf'[j].blk = buf[j].blk /\ buf'[j].tx = buf[j].tx
                         /\ buf'[j].lsn = buf[j].lsn
                         /\ buf[j].blk \notin pinned[s] => buf'[j].pins = buf[j].pins
    <3>1. {b} \subseteq pinned[s] /\ buf' = Unpin({b}) /\ s \in Slots
      BY <1>0, <1>10 DEF unpin
    <3>2. \A j \in Buffs : /\ buf'[j].blk = buf[j].blk /\ buf'[j].tx = buf[j].tx
                           /\ buf'[j].lsn = buf[j].lsn
                           /\ buf'[j].pins = IF buf[j].blk \in {b} THEN buf[j].pins - 1 ELSE buf[j].pins
      BY <3>1, UnpinEffect
    <3> QED BY <3>1, <3>2
  <2>3. ASSUME NEW j \in Buffs, buf[j].blk = None PROVE buf'[j].pins = 0
    BY <1>0, <1>t, <1>i, <2>2, <2>3, TxAssumption DEF Buffers, ThreadTypes
  <2>5. UNCHANGED <<log, nextTx>>
    BY <1>10 DEF unpin, logv, sysv
  <2> QED BY <1>t, <1>i, <1>b, <2>2, <2>3, <2>5, TxAssumption DEF Buffers, BufRec
<1>11. ASSUME NEW s \in Clients, NEW b \in Blocks, get_int(s, b) PROVE Buffers'
  BY <1>0, <1>11, <1>t, <1>i DEF get_int, Buffers, StartUps, Threads, sysv, logv, pool
<1>12. ASSUME NEW s \in Clients, NEW b \in Blocks, NEW v \in Values, set_int(s, b, v) PROVE Buffers'
  <2>2. /\ Target(b) \in Buffs
        /\ \A j \in Buffs : j # Target(b) => buf'[j] = buf[j]
        /\ buf[Target(b)].blk = b /\ buf'[Target(b)].blk = b
        /\ buf'[Target(b)].tx = num[s] /\ buf'[Target(b)].lsn = Len(log) + 1
        /\ buf'[Target(b)].pins = buf[Target(b)].pins
        /\ Len(log') = Len(log) + 1
    BY <1>12, SetEffect
  <2>1. s \in Pinners(b) /\ s \in Slots
    BY <1>0, <1>12 DEF set_int, Pinners
  <2>3. buf[Target(b)].pins > 0
    BY <2>1, PinnedIsThere
  <2>4. num[s] \in 1 .. nextTx
    BY <1>0, <1>t, <1>i, <1>12 DEF set_int, ThreadTypes, Threads, Numbers
  <2>5. UNCHANGED nextTx
    BY <1>12 DEF set_int, sysv
  <2> QED BY <1>t, <1>i, <1>b, <2>2, <2>4, <2>5, TxAssumption, SMTT(30) DEF Buffers, BufRec
<1>13. ASSUME NEW s \in Slots, NEW i \in Buffs, StartWrite(s, i), FlushesFor(s, i) PROVE Buffers'
  BY <1>0, <1>13, <1>t, <1>i DEF StartWrite, Buffers, StartUps, Threads, sysv, logv, pool
<1>14. ASSUME NEW s \in Slots, EndWrite(s) PROVE Buffers'
  <2>2. /\ writing \in Buffs /\ writing' = 0
        /\ \A j \in Buffs : j # writing => buf'[j] = buf[j]
        /\ buf'[writing].blk = buf[writing].blk /\ buf'[writing].tx = -1
        /\ buf'[writing].lsn = buf[writing].lsn /\ buf'[writing].pins = buf[writing].pins
    BY <1>14, EndWriteEffect
  <2>5. UNCHANGED <<log, nextTx>>
    BY <1>14 DEF EndWrite, logv, sysv
  <2> QED BY <1>t, <1>i, <1>b, <2>2, <2>5, TxAssumption DEF Buffers, BufRec
<1>15. ASSUME NEW s \in Slots, iterator(s) \/ Iterate(s) PROVE Buffers'
  BY <1>0, <1>15, <1>t, <1>i DEF iterator, Iterate, Goto, Buffers, StartUps, Threads, sysv, logv, pool
<1>16. ASSUME NEW s \in Slots, UndoPins(s) PROVE Buffers'
  <2>1. PICK b : b = UndoBlock(s)
    OBVIOUS
  <2>2. /\ b \in Blocks /\ Target(b) \in Buffs
        /\ \A j \in Buffs : j # Target(b) => buf'[j] = buf[j]
        /\ buf'[Target(b)].blk = b
        /\ buf'[Target(b)].tx = buf[Target(b)].tx
        /\ buf'[Target(b)].lsn = buf[Target(b)].lsn
        /\ Existing(b) # {} => buf[Target(b)].blk = b
        /\ Existing(b) = {} => buf[Target(b)].tx = -1
    BY <1>16, <2>1, UndoPinsEffect
  <2>5. UNCHANGED <<log, nextTx>>
    BY <1>16 DEF UndoPins, logv, sysv
  <2> QED BY <1>t, <1>i, <1>b, <2>2, <2>5, TxAssumption DEF Buffers, BufRec
<1>17. ASSUME NEW s \in Slots, Undo(s) PROVE Buffers'
  <2>1. PICK b : b = UndoBlock(s)
    OBVIOUS
  <2>2. /\ b \in Blocks /\ Target(b) \in Buffs
        /\ \A j \in Buffs : j # Target(b) => buf'[j] = buf[j]
        /\ buf[Target(b)].blk = b /\ buf'[Target(b)].blk = b
        /\ buf'[Target(b)].tx = num[s]
        /\ buf'[Target(b)].lsn = buf[Target(b)].lsn
    BY <1>17, <2>1, UndoEffect
  <2>4. pc[s] = "restore" /\ num[s] \in 1 .. nextTx
    BY <1>t, <1>i, <1>17 DEF Undo, ThreadTypes, Threads, Numbers
  <2>5. UNCHANGED <<log, nextTx>>
    BY <1>17 DEF Undo, logv, sysv
  <2> QED BY <1>t, <1>i, <1>b, <2>2, <2>4, <2>5, TxAssumption DEF Buffers, BufRec
<1>18. ASSUME NEW s \in Slots, UndoThrows(s) PROVE Buffers'
  BY <1>0, <1>18, <1>t, <1>i DEF UndoThrows, Undoing, Goto, Buffers, StartUps, Threads, sysv, logv, pool
<1>19. ASSUME NEW s \in Slots, UndoEnds(s) PROVE Buffers'
  BY <1>0, <1>19, <1>t, <1>i DEF UndoEnds, Goto, Buffers, StartUps, Threads, sysv, logv, pool
<1>20. ASSUME NEW s \in Slots, FlushEnds(s) PROVE Buffers'
  BY <1>0, <1>20, <1>t, <1>i DEF FlushEnds, Goto, Buffers, StartUps, Threads, sysv, logv, pool
<1>21. ASSUME NEW s \in Slots, WriteRecord(s) PROVE Buffers'
  <2>1. Len(log') = Len(log) + 1 /\ nextTx' = nextTx /\ buf' = buf
    BY <1>21, <1>i, <1>len DEF WriteRecord, pool, sysv
  <2> QED BY <1>t, <1>i, <1>b, <2>1 DEF Buffers, BufRec
<1>22. ASSUME NEW s \in Slots, FlushRecord(s) PROVE Buffers'
  BY <1>0, <1>22, <1>t, <1>i DEF FlushRecord, Goto, Buffers, StartUps, Threads, sysv, logv, pool
<1>23. ASSUME NEW s \in Slots, Release(s) PROVE Buffers'
  BY <1>0, <1>23, <1>t, <1>i DEF Release, Goto, NoLocks, Buffers, StartUps, Threads, sysv, logv, pool
<1>24. ASSUME NEW s \in Slots, UnpinAll(s) PROVE Buffers'
  <2>2. \A j \in Buffs : /\ buf'[j].blk = buf[j].blk /\ buf'[j].tx = buf[j].tx
                         /\ buf'[j].lsn = buf[j].lsn
                         /\ buf[j].blk \notin pinned[s] => buf'[j].pins = buf[j].pins
    <3>1. pinned[s] \subseteq pinned[s] /\ buf' = Unpin(pinned[s]) /\ s \in Slots
      BY <1>0, <1>24 DEF UnpinAll
    <3>2. \A j \in Buffs : /\ buf'[j].blk = buf[j].blk /\ buf'[j].tx = buf[j].tx
                           /\ buf'[j].lsn = buf[j].lsn
                           /\ buf'[j].pins = IF buf[j].blk \in pinned[s] THEN buf[j].pins - 1 ELSE buf[j].pins
      BY <3>1, UnpinEffect
    <3> QED BY <3>1, <3>2
  <2>3. ASSUME NEW j \in Buffs, buf[j].blk = None PROVE buf'[j].pins = 0
    BY <1>0, <1>t, <1>i, <2>2, <2>3, TxAssumption DEF Buffers, ThreadTypes
  <2>5. UNCHANGED <<log, nextTx>>
    BY <1>24 DEF UnpinAll, logv, sysv
  <2> QED BY <1>t, <1>i, <1>b, <2>2, <2>3, <2>5, TxAssumption DEF Buffers, BufRec
<1>25. CASE Crash
  <2>1. \A j \in Buffs : buf'[j] = FreeBuffer
    BY <1>25 DEF Crash
  <2> QED BY <1>t, <2>1 DEF Buffers, FreeBuffer
<1> QED
  BY <1>0, <1>1, <1>2, <1>3, <1>4, <1>5, <1>6, <1>7, <1>8, <1>9, <1>10, <1>11, <1>12, <1>13, <1>14, <1>15, <1>16, <1>17, <1>18, <1>19, <1>20, <1>21, <1>22, <1>23, <1>24, <1>25, StepsAre

(* Every step leaves a page that is being written alone.                   *)
LEMMA WritingStep ==
  ASSUME PoolInv, Next
  PROVE  Writing'
<1>0. Clients \subseteq Slots /\ Sys \in Slots /\ Sys \notin Clients
  BY TxAssumption DEF Slots
<1>t. ThreadTypes /\ PoolTypes /\ nextTx \in Nat /\ promised \in 0 .. Len(log) /\ Len(log) \in Nat /\ Len(log') \in Nat
  BY TypesAre, LogTypesStep DEF PoolInv, LogTypes, RestTypes
<1>i. Threads /\ Buffers /\ Writing /\ ChangesAreLocked /\ Unforgotten
  BY DEF PoolInv
<1>b. \A i \in Buffs : buf[i] \in BufRec
  BY <1>t DEF PoolTypes
<1>len. ASSUME NEW r, AppendLog(r) PROVE Len(log') = Len(log) + 1
  BY <1>len, AppendKeeps DEF PoolInv
<1>l. \A i \in Buffs : buf[i].lsn \in Int /\ buf[i].lsn <= Len(log)
  BY <1>b, <1>i DEF Buffers, BufRec
<1>1. CASE Startup
  BY <1>0, <1>1, <1>t, <1>i DEF StartUps, Startup, Goto, AppendLog, Writing, Dirty, ThreadTypes, Threads, Numbers, pool, logv, tx
<1>2. CASE append_saves
  BY <1>0, <1>2, <1>t, <1>i, <1>l DEF PoolTypes, append_saves, Writing, Dirty, ThreadTypes, Threads, Numbers, pool, logv, tx
<1>3. CASE AtBounds
  BY <1>0, <1>3, <1>t, <1>i DEF AtBounds, vars, Writing, Dirty, ThreadTypes, Threads, Numbers, pool, logv, tx
<1>4. ASSUME NEW s \in Clients, Begin(s) PROVE Writing'
  BY <1>0, <1>4, <1>t, <1>i DEF Begin, Goto, AppendLog, Writing, Dirty, ThreadTypes, Threads, Numbers, pool, logv, tx
<1>5. ASSUME NEW s \in Clients, PinDone(s) PROVE Writing'
  BY <1>5 DEF PinDone, MutexFor, Writing
<1>6. ASSUME NEW s \in Clients, PinThrows(s) PROVE Writing'
  BY <1>6 DEF PinThrows, MutexFor, Writing, pool
<1>7. ASSUME NEW s \in Clients, CallCommit(s) PROVE Writing'
  BY <1>0, <1>7, <1>t, <1>i DEF CallCommit, Goto, Writing, Dirty, ThreadTypes, Threads, Numbers, pool, logv, tx
<1>8. ASSUME NEW s \in Clients, CallRollback(s) PROVE Writing'
  BY <1>0, <1>8, <1>t, <1>i DEF CallRollback, Goto, Writing, Dirty, ThreadTypes, Threads, Numbers, pool, logv, tx
<1>9. ASSUME NEW s \in Clients, NEW b \in Blocks, CallPin(s, b) PROVE Writing'
  BY <1>0, <1>9, <1>t, <1>i DEF CallPin, Goto, Writing, Dirty, ThreadTypes, Threads, Numbers, pool, logv, tx
<1>10. ASSUME NEW s \in Clients, NEW b \in Blocks, unpin(s, b) PROVE Writing'
  BY <1>10 DEF unpin, MutexFor, Writing
<1>11. ASSUME NEW s \in Clients, NEW b \in Blocks, get_int(s, b) PROVE Writing'
  BY <1>0, <1>11, <1>t, <1>i DEF get_int, Writing, Dirty, ThreadTypes, Threads, Numbers, pool, logv, tx
<1>12. ASSUME NEW s \in Clients, NEW b \in Blocks, NEW v \in Values, set_int(s, b, v) PROVE Writing'
  <2>2. /\ Target(b) \in Buffs
        /\ \A j \in Buffs : j # Target(b) => buf'[j] = buf[j]
        /\ buf[Target(b)].blk = b /\ buf'[Target(b)].blk = b
        /\ buf'[Target(b)].tx = num[s] /\ buf'[Target(b)].lsn = Len(log) + 1
        /\ buf'[Target(b)].pins = buf[Target(b)].pins
        /\ Len(log') = Len(log) + 1
    BY <1>12, SetEffect
  <2>1. s \in Pinners(b) /\ s \in Slots
    BY <1>0, <1>12 DEF set_int, Pinners
  <2>3. buf[Target(b)].pins > 0
    BY <2>1, PinnedIsThere
  <2>4. UNCHANGED <<bm, writing, pc, num, promised>>
    BY <1>12 DEF set_int, tx, AppendLog
  <2>5. ASSUME writing # 0, writing = Target(b) PROVE FALSE
    <3>1. pc[bm] = "flush" /\ buf[writing].tx = num[bm] /\ bm \in Slots
      BY <1>t, <1>i, <2>2, <2>3, <2>5 DEF Writing, PoolTypes
    <3>2. PICK u \in Slots : num[u] = num[bm] /\ locks[u][b] = "X"
      BY <1>i, <2>2, <2>5, <3>1 DEF Writing, ChangesAreLocked
    <3>3. u = bm
      BY <1>i, <3>1, <3>2 DEF Threads, Numbers
    <3>4. s # bm /\ locks[bm][b] = "none"
      BY <1>12, <3>1, <3>2, <3>3 DEF set_int, Compatible
    <3> QED BY <3>2, <3>3, <3>4
  <2>6. ASSUME writing # 0 PROVE buf'[writing] = buf[writing]
    BY <1>t, <2>2, <2>5, <2>6 DEF PoolTypes
  <2> QED BY <1>i, <2>4, <2>6 DEF Writing, Dirty
<1>13. ASSUME NEW s \in Slots, NEW i \in Buffs, StartWrite(s, i), FlushesFor(s, i) PROVE Writing'
  <2>1. /\ buf' = buf /\ writing' = i /\ bm' = s /\ pc' = pc /\ num' = num
        /\ promised' = IF buf[i].lsn >= promised THEN Len(log) ELSE promised
    BY <1>13 DEF StartWrite, FlushLog, tx
  <2>2. Dirty(i) /\ (buf[i].pins = 0 \/ (pc[s] = "flush" /\ buf[i].tx = num[s]))
    BY <1>t, <1>13 DEF FlushesFor, Mine, Dirty, ThreadTypes
  <2>3. buf[i].lsn <= Len(log) /\ buf[i].lsn \in Int /\ s # None
    BY <1>b, <1>i, <1>0, TxAssumption DEF Buffers, BufRec, Slots
  <2>4. buf[i].lsn <= promised'
    BY <1>t, <2>1, <2>3
  <2> QED BY <2>1, <2>2, <2>3, <2>4 DEF Writing, Dirty
<1>14. ASSUME NEW s \in Slots, EndWrite(s) PROVE Writing'
  BY <1>14 DEF EndWrite, MutexFor, Writing
<1>15. ASSUME NEW s \in Slots, iterator(s) \/ Iterate(s) PROVE Writing'
  <2>1. /\ UNCHANGED <<buf, writing, bm, num>> /\ promised' \in {promised, Len(log)}
        /\ pc[s] # "flush" /\ \A u \in Slots : u # s => pc'[u] = pc[u]
    BY <1>15, <1>t DEF iterator, Iterate, Goto, pool, ThreadTypes
  <2>2. ASSUME writing # 0 PROVE buf[writing].lsn <= promised'
    BY <1>i, <1>l, <1>t, <2>1, <2>2 DEF Writing, PoolTypes
  <2> QED BY <1>i, <1>t, <2>1, <2>2 DEF Writing, Dirty, PoolTypes
<1>16. ASSUME NEW s \in Slots, UndoPins(s) PROVE Writing'
  BY <1>16 DEF UndoPins, MutexFor, Writing
<1>17. ASSUME NEW s \in Slots, Undo(s) PROVE Writing'
  BY <1>17 DEF Undo, MutexFor, Writing
<1>18. ASSUME NEW s \in Slots, UndoThrows(s) PROVE Writing'
  BY <1>18 DEF UndoThrows, MutexFor, Writing, pool
<1>19. ASSUME NEW s \in Slots, UndoEnds(s) PROVE Writing'
  BY <1>0, <1>19, <1>t, <1>i DEF UndoEnds, Goto, Writing, Dirty, ThreadTypes, Threads, Numbers, pool, logv, tx
<1>20. ASSUME NEW s \in Slots, FlushEnds(s) PROVE Writing'
  BY <1>20 DEF FlushEnds, MutexFor, Writing
<1>21. ASSUME NEW s \in Slots, WriteRecord(s) PROVE Writing'
  <2>1. UNCHANGED pool /\ num' = num /\ promised' = promised /\ pc[s] = "record"
        /\ pc' = [pc EXCEPT ![s] = "force"]
    BY <1>21 DEF WriteRecord, AppendLog, Goto
  <2> QED BY <1>t, <1>i, <2>1 DEF Writing, Dirty, pool, ThreadTypes
<1>22. ASSUME NEW s \in Slots, FlushRecord(s) PROVE Writing'
  BY <1>0, <1>22, <1>t, <1>i, <1>l DEF PoolTypes, FlushRecord, FlushLog, Goto, Writing, Dirty, ThreadTypes, Threads, Numbers, pool, logv, tx
<1>23. ASSUME NEW s \in Slots, Release(s) PROVE Writing'
  BY <1>0, <1>23, <1>t, <1>i DEF Release, Goto, NoLocks, Writing, Dirty, ThreadTypes, Threads, Numbers, pool, logv, tx
<1>24. ASSUME NEW s \in Slots, UnpinAll(s) PROVE Writing'
  BY <1>24 DEF UnpinAll, MutexFor, Writing
<1>25. CASE Crash
  BY <1>25 DEF Crash, Writing
<1> QED
  BY <1>0, <1>1, <1>2, <1>3, <1>4, <1>5, <1>6, <1>7, <1>8, <1>9, <1>10, <1>11, <1>12, <1>13, <1>14, <1>15, <1>16, <1>17, <1>18, <1>19, <1>20, <1>21, <1>22, <1>23, <1>24, <1>25, StepsAre

(* Every step keeps the changes that are not on the disk locked.           *)
LEMMA LockedStep ==
  ASSUME PoolInv, Next
  PROVE  ChangesAreLocked'
<1>0. Clients \subseteq Slots /\ Sys \in Slots /\ Sys \notin Clients
  BY TxAssumption DEF Slots
<1>t. ThreadTypes /\ PoolTypes /\ nextTx \in Nat /\ saved \in 0 .. Len(log) /\ Len(log) \in Nat /\ Len(log') \in Nat
  BY TypesAre, LogTypesStep DEF PoolInv, LogTypes, RestTypes
<1>i. Threads /\ Buffers /\ Writing /\ ChangesAreLocked /\ Unforgotten
  BY DEF PoolInv
<1>b. \A i \in Buffs : buf[i] \in BufRec
  BY <1>t DEF PoolTypes
<1>len. ASSUME NEW r, AppendLog(r) PROVE Len(log') = Len(log) + 1
  BY <1>len, AppendKeeps DEF PoolInv
<1>1. CASE Startup
  <2>1. nextTx = 0 /\ buf' = buf
    BY <1>i, <1>1 DEF Startup, pool, Threads, StartUps
  <2> QED BY <1>i, <1>b, <2>1 DEF ChangesAreLocked, Dirty, Buffers, BufRec
<1>2. CASE append_saves
  BY <1>0, <1>2, <1>t, <1>i DEF append_saves, ChangesAreLocked, Dirty, ThreadTypes, pool, tx
<1>3. CASE AtBounds
  BY <1>0, <1>3, <1>t, <1>i DEF AtBounds, vars, ChangesAreLocked, Dirty, ThreadTypes, pool, tx
<1>4. ASSUME NEW s \in Clients, Begin(s) PROVE ChangesAreLocked'
  <2>1. pc[s] = "idle" /\ num[s] = 0 /\ num' = [num EXCEPT ![s] = nextTx'] /\ UNCHANGED <<buf, locks>>
    BY <1>0, <1>i, <1>4 DEF Begin, pool, Threads, Numbers
  <2>2. \A i \in Buffs : buf[i].tx >= 0 => buf[i].tx > 0
    BY <1>i, <1>b DEF Buffers, BufRec
  <2> QED BY <1>t, <1>i, <2>1, <2>2 DEF ChangesAreLocked, Dirty, ThreadTypes
<1>5. ASSUME NEW s \in Clients, PinDone(s) PROVE ChangesAreLocked'
  <2>1. PICK b : b = want[s]
    OBVIOUS
  <2>2. /\ b \in Blocks /\ Target(b) \in Buffs
        /\ \A j \in Buffs : j # Target(b) => buf'[j] = buf[j]
        /\ buf'[Target(b)].blk = b
        /\ buf'[Target(b)].tx = buf[Target(b)].tx
        /\ buf'[Target(b)].lsn = buf[Target(b)].lsn
        /\ Existing(b) # {} => buf[Target(b)].blk = b
        /\ Existing(b) = {} => buf[Target(b)].tx = -1
    BY <1>5, <2>1, PinDoneEffect
  <2>5. UNCHANGED <<locks, num>>
    BY <1>5 DEF PinDone, tx
  <2> QED BY <1>t, <1>i, <1>b, <2>2, <2>5 DEF ChangesAreLocked, Dirty
<1>6. ASSUME NEW s \in Clients, PinThrows(s) PROVE ChangesAreLocked'
  BY <1>0, <1>6, <1>t, <1>i DEF PinThrows, Goto, ChangesAreLocked, Dirty, ThreadTypes, pool, tx
<1>7. ASSUME NEW s \in Clients, CallCommit(s) PROVE ChangesAreLocked'
  BY <1>0, <1>7, <1>t, <1>i DEF CallCommit, Goto, ChangesAreLocked, Dirty, ThreadTypes, pool, tx
<1>8. ASSUME NEW s \in Clients, CallRollback(s) PROVE ChangesAreLocked'
  BY <1>0, <1>8, <1>t, <1>i DEF CallRollback, Goto, ChangesAreLocked, Dirty, ThreadTypes, pool, tx
<1>9. ASSUME NEW s \in Clients, NEW b \in Blocks, CallPin(s, b) PROVE ChangesAreLocked'
  BY <1>0, <1>9, <1>t, <1>i DEF CallPin, Goto, ChangesAreLocked, Dirty, ThreadTypes, pool, tx
<1>10. ASSUME NEW s \in Clients, NEW b \in Blocks, unpin(s, b) PROVE ChangesAreLocked'
  <2>2. \A j \in Buffs : /\ buf'[j].blk = buf[j].blk /\ buf'[j].tx = buf[j].tx
                         /\ buf'[j].lsn = buf[j].lsn
                         /\ buf[j].blk \notin pinned[s] => buf'[j].pins = buf[j].pins
    <3>1. {b} \subseteq pinned[s] /\ buf' = Unpin({b}) /\ s \in Slots
      BY <1>0, <1>10 DEF unpin
    <3>2. \A j \in Buffs : /\ buf'[j].blk = buf[j].blk /\ buf'[j].tx = buf[j].tx
                           /\ buf'[j].lsn = buf[j].lsn
                           /\ buf'[j].pins = IF buf[j].blk \in {b} THEN buf[j].pins - 1 ELSE buf[j].pins
      BY <3>1, UnpinEffect
    <3> QED BY <3>1, <3>2
  <2>5. UNCHANGED <<locks, num>>
    BY <1>10 DEF unpin, tx
  <2> QED BY <1>t, <1>i, <1>b, <2>2, <2>5 DEF ChangesAreLocked, Dirty
<1>11. ASSUME NEW s \in Clients, NEW b \in Blocks, get_int(s, b) PROVE ChangesAreLocked'
  <2>1. locks' = [locks EXCEPT ![s][b] = "S"] /\ locks[s][b] = "none" /\ num' = num /\ buf' = buf
    BY <1>11 DEF get_int, tx, pool
  <2>5. \A u \in Slots, c \in Blocks : locks[u][c] = "X" => locks'[u][c] = "X"
    BY <1>0, <1>t, <2>1 DEF ThreadTypes
  <2>6. ASSUME NEW i \in Buffs, buf[i].tx >= 0
        PROVE  \E u \in Slots : num[u] = buf[i].tx /\ locks[u][buf[i].blk] = "X" /\ buf[i].blk \in Blocks
    BY <1>i, <1>b, <2>6 DEF ChangesAreLocked, Dirty, Buffers, BufRec
  <2> QED BY <2>1, <2>5, <2>6 DEF ChangesAreLocked, Dirty
<1>12. ASSUME NEW s \in Clients, NEW b \in Blocks, NEW v \in Values, set_int(s, b, v) PROVE ChangesAreLocked'
  <2>2. /\ Target(b) \in Buffs
        /\ \A j \in Buffs : j # Target(b) => buf'[j] = buf[j]
        /\ buf[Target(b)].blk = b /\ buf'[Target(b)].blk = b
        /\ buf'[Target(b)].tx = num[s] /\ buf'[Target(b)].lsn = Len(log) + 1
        /\ buf'[Target(b)].pins = buf[Target(b)].pins
        /\ Len(log') = Len(log) + 1
    BY <1>12, SetEffect
  <2>1. s \in Pinners(b) /\ s \in Slots
    BY <1>0, <1>12 DEF set_int, Pinners
  <2>3. buf[Target(b)].pins > 0
    BY <2>1, PinnedIsThere
  <2>4. locks' = [locks EXCEPT ![s][b] = "X"] /\ num' = num
    BY <1>12 DEF set_int, tx
  <2>5. /\ locks'[s][b] = "X"
        /\ \A u \in Slots, c \in Blocks : locks[u][c] = "X" => locks'[u][c] = "X"
    BY <1>t, <2>1, <2>4 DEF ThreadTypes
  <2>6. ASSUME NEW i \in Buffs, buf[i].tx >= 0
        PROVE  \E u \in Slots : num[u] = buf[i].tx /\ locks[u][buf[i].blk] = "X" /\ buf[i].blk \in Blocks
    BY <1>i, <1>b, <2>6 DEF ChangesAreLocked, Dirty, Buffers, BufRec
  <2> QED BY <2>1, <2>2, <2>4, <2>5, <2>6 DEF ChangesAreLocked, Dirty
<1>13. ASSUME NEW s \in Slots, NEW i \in Buffs, StartWrite(s, i), FlushesFor(s, i) PROVE ChangesAreLocked'
  BY <1>0, <1>13, <1>t, <1>i DEF StartWrite, ChangesAreLocked, Dirty, ThreadTypes, pool, tx
<1>14. ASSUME NEW s \in Slots, EndWrite(s) PROVE ChangesAreLocked'
  <2>2. /\ writing \in Buffs /\ writing' = 0
        /\ \A j \in Buffs : j # writing => buf'[j] = buf[j]
        /\ buf'[writing].blk = buf[writing].blk /\ buf'[writing].tx = -1
        /\ buf'[writing].lsn = buf[writing].lsn /\ buf'[writing].pins = buf[writing].pins
    BY <1>14, EndWriteEffect
  <2>5. UNCHANGED <<locks, num>>
    BY <1>14 DEF EndWrite, tx
  <2> QED BY <1>t, <1>i, <1>b, <2>2, <2>5 DEF ChangesAreLocked, Dirty
<1>15. ASSUME NEW s \in Slots, iterator(s) \/ Iterate(s) PROVE ChangesAreLocked'
  BY <1>0, <1>15, <1>t, <1>i DEF iterator, Iterate, Goto, ChangesAreLocked, Dirty, ThreadTypes, pool, tx
<1>16. ASSUME NEW s \in Slots, UndoPins(s) PROVE ChangesAreLocked'
  <2>1. PICK b : b = UndoBlock(s)
    OBVIOUS
  <2>2. /\ b \in Blocks /\ Target(b) \in Buffs
        /\ \A j \in Buffs : j # Target(b) => buf'[j] = buf[j]
        /\ buf'[Target(b)].blk = b
        /\ buf'[Target(b)].tx = buf[Target(b)].tx
        /\ buf'[Target(b)].lsn = buf[Target(b)].lsn
        /\ Existing(b) # {} => buf[Target(b)].blk = b
        /\ Existing(b) = {} => buf[Target(b)].tx = -1
    BY <1>16, <2>1, UndoPinsEffect
  <2>5. UNCHANGED <<locks, num>>
    BY <1>16 DEF UndoPins, tx
  <2> QED BY <1>t, <1>i, <1>b, <2>2, <2>5 DEF ChangesAreLocked, Dirty
<1>17. ASSUME NEW s \in Slots, Undo(s) PROVE ChangesAreLocked'
  <2>1. PICK b : b = UndoBlock(s)
    OBVIOUS
  <2>2. /\ b \in Blocks /\ Target(b) \in Buffs
        /\ \A j \in Buffs : j # Target(b) => buf'[j] = buf[j]
        /\ buf[Target(b)].blk = b /\ buf'[Target(b)].blk = b
        /\ buf'[Target(b)].tx = num[s]
        /\ buf'[Target(b)].lsn = buf[Target(b)].lsn
    BY <1>17, <2>1, UndoEffect
  <2>3. locks' = [locks EXCEPT ![s][b] = "X"] /\ num' = num
    BY <1>17, <2>1 DEF Undo
  <2>4. /\ locks'[s][b] = "X"
        /\ \A u \in Slots, c \in Blocks : locks[u][c] = "X" => locks'[u][c] = "X"
    BY <1>t, <2>2, <2>3 DEF ThreadTypes
  <2>6. ASSUME NEW i \in Buffs, buf[i].tx >= 0
        PROVE  \E u \in Slots : num[u] = buf[i].tx /\ locks[u][buf[i].blk] = "X" /\ buf[i].blk \in Blocks
    BY <1>i, <1>b, <2>6 DEF ChangesAreLocked, Dirty, Buffers, BufRec
  <2> QED BY <2>2, <2>3, <2>4, <2>6 DEF ChangesAreLocked, Dirty
<1>18. ASSUME NEW s \in Slots, UndoThrows(s) PROVE ChangesAreLocked'
  BY <1>0, <1>18, <1>t, <1>i DEF UndoThrows, Undoing, Goto, ChangesAreLocked, Dirty, ThreadTypes, pool, tx
<1>19. ASSUME NEW s \in Slots, UndoEnds(s) PROVE ChangesAreLocked'
  BY <1>0, <1>19, <1>t, <1>i DEF UndoEnds, Goto, ChangesAreLocked, Dirty, ThreadTypes, pool, tx
<1>20. ASSUME NEW s \in Slots, FlushEnds(s) PROVE ChangesAreLocked'
  BY <1>0, <1>20, <1>t, <1>i DEF FlushEnds, Goto, ChangesAreLocked, Dirty, ThreadTypes, pool, tx
<1>21. ASSUME NEW s \in Slots, WriteRecord(s) PROVE ChangesAreLocked'
  BY <1>0, <1>21, <1>t, <1>i DEF WriteRecord, Goto, ChangesAreLocked, Dirty, ThreadTypes, pool, tx
<1>22. ASSUME NEW s \in Slots, FlushRecord(s) PROVE ChangesAreLocked'
  BY <1>0, <1>22, <1>t, <1>i DEF FlushRecord, Goto, ChangesAreLocked, Dirty, ThreadTypes, pool, tx
<1>23. ASSUME NEW s \in Slots, Release(s) PROVE ChangesAreLocked'
  <2>3. Mine(s) = {} /\ locks' = [locks EXCEPT ![s] = NoLocks] /\ num' = num /\ buf' = buf
    BY <1>i, <1>23 DEF Release, Unforgotten, pool
  <2> QED BY <1>t, <1>i, <2>3 DEF ChangesAreLocked, Dirty, Mine, ThreadTypes
<1>24. ASSUME NEW s \in Slots, UnpinAll(s) PROVE ChangesAreLocked'
  <2>2. \A j \in Buffs : /\ buf'[j].blk = buf[j].blk /\ buf'[j].tx = buf[j].tx
                         /\ buf'[j].lsn = buf[j].lsn
                         /\ buf[j].blk \notin pinned[s] => buf'[j].pins = buf[j].pins
    <3>1. pinned[s] \subseteq pinned[s] /\ buf' = Unpin(pinned[s]) /\ s \in Slots
      BY <1>0, <1>24 DEF UnpinAll
    <3>2. \A j \in Buffs : /\ buf'[j].blk = buf[j].blk /\ buf'[j].tx = buf[j].tx
                           /\ buf'[j].lsn = buf[j].lsn
                           /\ buf'[j].pins = IF buf[j].blk \in pinned[s] THEN buf[j].pins - 1 ELSE buf[j].pins
      BY <3>1, UnpinEffect
    <3> QED BY <3>1, <3>2
  <2>3. Mine(s) = {} /\ locks' = locks /\ num' = [num EXCEPT ![s] = 0]
    BY <1>i, <1>24 DEF UnpinAll, Unforgotten
  <2>4. ASSUME NEW i \in Buffs, buf[i].tx >= 0
        PROVE  \E u \in Slots : num'[u] = buf[i].tx /\ locks[u][buf[i].blk] = "X"
    <3>1. PICK u \in Slots : num[u] = buf[i].tx /\ locks[u][buf[i].blk] = "X"
      BY <1>i, <2>4 DEF ChangesAreLocked, Dirty
    <3>2. u # s
      BY <2>3, <3>1 DEF Mine
    <3> QED BY <1>t, <2>3, <3>1, <3>2 DEF ThreadTypes
  <2> QED BY <2>2, <2>3, <2>4 DEF ChangesAreLocked, Dirty
<1>25. CASE Crash
  <2>1. \A j \in Buffs : buf'[j] = FreeBuffer
    BY <1>25 DEF Crash
  <2> QED BY <1>t, <2>1 DEF ChangesAreLocked, Dirty, FreeBuffer
<1> QED
  BY <1>0, <1>1, <1>2, <1>3, <1>4, <1>5, <1>6, <1>7, <1>8, <1>9, <1>10, <1>11, <1>12, <1>13, <1>14, <1>15, <1>16, <1>17, <1>18, <1>19, <1>20, <1>21, <1>22, <1>23, <1>24, <1>25, StepsAre

(* Every step leaves what a transaction has flushed flushed.               *)
LEMMA UnforgottenStep ==
  ASSUME PoolInv, Next
  PROVE  Unforgotten'
<1>0. Clients \subseteq Slots /\ Sys \in Slots /\ Sys \notin Clients
  BY TxAssumption DEF Slots
<1>t. ThreadTypes /\ PoolTypes /\ nextTx \in Nat /\ saved \in 0 .. Len(log) /\ Len(log) \in Nat /\ Len(log') \in Nat
  BY TypesAre, LogTypesStep DEF PoolInv, LogTypes, RestTypes
<1>i. Threads /\ Buffers /\ Writing /\ ChangesAreLocked /\ Unforgotten
  BY DEF PoolInv
<1>b. \A i \in Buffs : buf[i] \in BufRec
  BY <1>t DEF PoolTypes
<1>len. ASSUME NEW r, AppendLog(r) PROVE Len(log') = Len(log) + 1
  BY <1>len, AppendKeeps DEF PoolInv
<1>1. CASE Startup
  BY <1>0, <1>1, <1>t, <1>i DEF Startup, Goto, Unforgotten, Mine, ThreadTypes, Threads, Numbers, pool, tx
<1>2. CASE append_saves
  BY <1>0, <1>2, <1>t, <1>i DEF append_saves, Unforgotten, Mine, ThreadTypes, Threads, Numbers, pool, tx
<1>3. CASE AtBounds
  BY <1>0, <1>3, <1>t, <1>i DEF AtBounds, vars, Unforgotten, Mine, ThreadTypes, Threads, Numbers, pool, tx
<1>4. ASSUME NEW s \in Clients, Begin(s) PROVE Unforgotten'
  BY <1>0, <1>4, <1>t, <1>i DEF Begin, Goto, Unforgotten, Mine, ThreadTypes, Threads, Numbers, pool, tx
<1>5. ASSUME NEW s \in Clients, PinDone(s) PROVE Unforgotten'
  <2>1. PICK b : b = want[s]
    OBVIOUS
  <2>2. /\ b \in Blocks /\ Target(b) \in Buffs
        /\ \A j \in Buffs : j # Target(b) => buf'[j] = buf[j]
        /\ buf'[Target(b)].blk = b
        /\ buf'[Target(b)].tx = buf[Target(b)].tx
        /\ buf'[Target(b)].lsn = buf[Target(b)].lsn
        /\ Existing(b) # {} => buf[Target(b)].blk = b
        /\ Existing(b) = {} => buf[Target(b)].tx = -1
    BY <1>5, <2>1, PinDoneEffect
  <2>5. num' = num /\ \A u \in Slots : pc'[u] \in {"record", "force", "release", "unpin_all"} => pc[u] = pc'[u]
    BY <1>5, <1>t DEF PinDone, Goto, tx, ThreadTypes
  <2> QED BY <1>t, <1>i, <1>b, <2>2, <2>5 DEF Unforgotten, Mine
<1>6. ASSUME NEW s \in Clients, PinThrows(s) PROVE Unforgotten'
  BY <1>0, <1>6, <1>t, <1>i DEF PinThrows, Goto, Unforgotten, Mine, ThreadTypes, Threads, Numbers, pool, tx
<1>7. ASSUME NEW s \in Clients, CallCommit(s) PROVE Unforgotten'
  BY <1>0, <1>7, <1>t, <1>i DEF CallCommit, Goto, Unforgotten, Mine, ThreadTypes, Threads, Numbers, pool, tx
<1>8. ASSUME NEW s \in Clients, CallRollback(s) PROVE Unforgotten'
  BY <1>0, <1>8, <1>t, <1>i DEF CallRollback, Goto, Unforgotten, Mine, ThreadTypes, Threads, Numbers, pool, tx
<1>9. ASSUME NEW s \in Clients, NEW b \in Blocks, CallPin(s, b) PROVE Unforgotten'
  BY <1>0, <1>9, <1>t, <1>i DEF CallPin, Goto, Unforgotten, Mine, ThreadTypes, Threads, Numbers, pool, tx
<1>10. ASSUME NEW s \in Clients, NEW b \in Blocks, unpin(s, b) PROVE Unforgotten'
  <2>2. \A j \in Buffs : /\ buf'[j].blk = buf[j].blk /\ buf'[j].tx = buf[j].tx
                         /\ buf'[j].lsn = buf[j].lsn
                         /\ buf[j].blk \notin pinned[s] => buf'[j].pins = buf[j].pins
    <3>1. {b} \subseteq pinned[s] /\ buf' = Unpin({b}) /\ s \in Slots
      BY <1>0, <1>10 DEF unpin
    <3>2. \A j \in Buffs : /\ buf'[j].blk = buf[j].blk /\ buf'[j].tx = buf[j].tx
                           /\ buf'[j].lsn = buf[j].lsn
                           /\ buf'[j].pins = IF buf[j].blk \in {b} THEN buf[j].pins - 1 ELSE buf[j].pins
      BY <3>1, UnpinEffect
    <3> QED BY <3>1, <3>2
  <2>5. num' = num /\ \A u \in Slots : pc'[u] \in {"record", "force", "release", "unpin_all"} => pc[u] = pc'[u]
    BY <1>10, <1>t DEF unpin, Goto, tx, ThreadTypes
  <2> QED BY <1>t, <1>i, <1>b, <2>2, <2>5 DEF Unforgotten, Mine
<1>11. ASSUME NEW s \in Clients, NEW b \in Blocks, get_int(s, b) PROVE Unforgotten'
  BY <1>0, <1>11, <1>t, <1>i DEF get_int, Unforgotten, Mine, ThreadTypes, Threads, Numbers, pool, tx
<1>12. ASSUME NEW s \in Clients, NEW b \in Blocks, NEW v \in Values, set_int(s, b, v) PROVE Unforgotten'
  <2>2. /\ Target(b) \in Buffs
        /\ \A j \in Buffs : j # Target(b) => buf'[j] = buf[j]
        /\ buf[Target(b)].blk = b /\ buf'[Target(b)].blk = b
        /\ buf'[Target(b)].tx = num[s] /\ buf'[Target(b)].lsn = Len(log) + 1
        /\ buf'[Target(b)].pins = buf[Target(b)].pins
        /\ Len(log') = Len(log) + 1
    BY <1>12, SetEffect
  <2>1. s \in Pinners(b) /\ s \in Slots
    BY <1>0, <1>12 DEF set_int, Pinners
  <2>3. buf[Target(b)].pins > 0
    BY <2>1, PinnedIsThere
  <2>6. \A u \in Slots : u # s => num[u] # num[s]
    BY <1>0, <1>i, <1>12 DEF Threads, Numbers, set_int
  <2>7. pc'[s] \notin {"record", "force", "release", "unpin_all"}
    BY <1>0, <1>12, <1>t DEF set_int, Goto, tx, ThreadTypes
  <2>5. num' = num /\ \A u \in Slots : pc'[u] \in {"record", "force", "release", "unpin_all"} => pc[u] = pc'[u]
    BY <1>12, <1>t DEF set_int, Goto, tx, ThreadTypes
  <2> QED BY <1>t, <1>i, <1>b, <2>2, <2>5, <2>6, <2>7 DEF Unforgotten, Mine
<1>13. ASSUME NEW s \in Slots, NEW i \in Buffs, StartWrite(s, i), FlushesFor(s, i) PROVE Unforgotten'
  BY <1>0, <1>13, <1>t, <1>i DEF StartWrite, Unforgotten, Mine, ThreadTypes, Threads, Numbers, pool, tx
<1>14. ASSUME NEW s \in Slots, EndWrite(s) PROVE Unforgotten'
  <2>2. /\ writing \in Buffs /\ writing' = 0
        /\ \A j \in Buffs : j # writing => buf'[j] = buf[j]
        /\ buf'[writing].blk = buf[writing].blk /\ buf'[writing].tx = -1
        /\ buf'[writing].lsn = buf[writing].lsn /\ buf'[writing].pins = buf[writing].pins
    BY <1>14, EndWriteEffect
  <2>5. num' = num /\ pc' = pc
    BY <1>14 DEF EndWrite, tx
  <2>6. ASSUME NEW u \in Slots PROVE Mine(u)' \subseteq Mine(u)
    <3>1. num[u] # -1
      BY <1>t DEF ThreadTypes
    <3> QED BY <2>2, <2>5, <3>1 DEF Mine
  <2> QED BY <1>i, <2>5, <2>6 DEF Unforgotten
<1>15. ASSUME NEW s \in Slots, iterator(s) \/ Iterate(s) PROVE Unforgotten'
  <2>1. CASE iterator(s)
    BY <1>0, <2>1, <1>t, <1>i DEF iterator, Goto, Unforgotten, Mine, ThreadTypes, Threads, Numbers, pool, tx
  <2>2. CASE Iterate(s)
    BY <1>0, <2>2, <1>t, <1>i DEF Iterate, Goto, Unforgotten, Mine, ThreadTypes, Threads, Numbers, pool, tx
  <2> QED BY <1>15, <2>1, <2>2
<1>16. ASSUME NEW s \in Slots, UndoPins(s) PROVE Unforgotten'
  <2>1. PICK b : b = UndoBlock(s)
    OBVIOUS
  <2>2. /\ b \in Blocks /\ Target(b) \in Buffs
        /\ \A j \in Buffs : j # Target(b) => buf'[j] = buf[j]
        /\ buf'[Target(b)].blk = b
        /\ buf'[Target(b)].tx = buf[Target(b)].tx
        /\ buf'[Target(b)].lsn = buf[Target(b)].lsn
        /\ Existing(b) # {} => buf[Target(b)].blk = b
        /\ Existing(b) = {} => buf[Target(b)].tx = -1
    BY <1>16, <2>1, UndoPinsEffect
  <2>5. num' = num /\ \A u \in Slots : pc'[u] \in {"record", "force", "release", "unpin_all"} => pc[u] = pc'[u]
    BY <1>16, <1>t DEF UndoPins, Goto, tx, ThreadTypes
  <2> QED BY <1>t, <1>i, <1>b, <2>2, <2>5 DEF Unforgotten, Mine
<1>17. ASSUME NEW s \in Slots, Undo(s) PROVE Unforgotten'
  <2>1. PICK b : b = UndoBlock(s)
    OBVIOUS
  <2>2. /\ b \in Blocks /\ Target(b) \in Buffs
        /\ \A j \in Buffs : j # Target(b) => buf'[j] = buf[j]
        /\ buf[Target(b)].blk = b /\ buf'[Target(b)].blk = b
        /\ buf'[Target(b)].tx = num[s]
        /\ buf'[Target(b)].lsn = buf[Target(b)].lsn
    BY <1>17, <2>1, UndoEffect
  <2>6. \A u \in Slots : u # s => num[u] # num[s]
    BY <1>0, <1>i, <1>17 DEF Threads, Numbers, Undo
  <2>7. pc'[s] \notin {"record", "force", "release", "unpin_all"}
    BY <1>0, <1>17, <1>t DEF Undo, Goto, tx, ThreadTypes
  <2>5. num' = num /\ \A u \in Slots : pc'[u] \in {"record", "force", "release", "unpin_all"} => pc[u] = pc'[u]
    BY <1>17, <1>t DEF Undo, Goto, tx, ThreadTypes
  <2> QED BY <1>t, <1>i, <1>b, <2>2, <2>5, <2>6, <2>7 DEF Unforgotten, Mine
<1>18. ASSUME NEW s \in Slots, UndoThrows(s) PROVE Unforgotten'
  BY <1>0, <1>18, <1>t, <1>i DEF UndoThrows, Undoing, Goto, Unforgotten, Mine, ThreadTypes, Threads, Numbers, pool, tx
<1>19. ASSUME NEW s \in Slots, UndoEnds(s) PROVE Unforgotten'
  BY <1>0, <1>19, <1>t, <1>i DEF UndoEnds, Goto, Unforgotten, Mine, ThreadTypes, Threads, Numbers, pool, tx
<1>20. ASSUME NEW s \in Slots, FlushEnds(s) PROVE Unforgotten'
  BY <1>0, <1>20, <1>t, <1>i DEF FlushEnds, Goto, Unforgotten, Mine, ThreadTypes, Threads, Numbers, pool, tx
<1>21. ASSUME NEW s \in Slots, WriteRecord(s) PROVE Unforgotten'
  BY <1>0, <1>21, <1>t, <1>i DEF WriteRecord, Goto, Unforgotten, Mine, ThreadTypes, Threads, Numbers, pool, tx
<1>22. ASSUME NEW s \in Slots, FlushRecord(s) PROVE Unforgotten'
  BY <1>0, <1>22, <1>t, <1>i DEF FlushRecord, Goto, Unforgotten, Mine, ThreadTypes, Threads, Numbers, pool, tx
<1>23. ASSUME NEW s \in Slots, Release(s) PROVE Unforgotten'
  BY <1>0, <1>23, <1>t, <1>i DEF Release, Goto, NoLocks, Unforgotten, Mine, ThreadTypes, Threads, Numbers, pool, tx
<1>24. ASSUME NEW s \in Slots, UnpinAll(s) PROVE Unforgotten'
  <2>2. \A j \in Buffs : /\ buf'[j].blk = buf[j].blk /\ buf'[j].tx = buf[j].tx
                         /\ buf'[j].lsn = buf[j].lsn
                         /\ buf[j].blk \notin pinned[s] => buf'[j].pins = buf[j].pins
    <3>1. pinned[s] \subseteq pinned[s] /\ buf' = Unpin(pinned[s]) /\ s \in Slots
      BY <1>0, <1>24 DEF UnpinAll
    <3>2. \A j \in Buffs : /\ buf'[j].blk = buf[j].blk /\ buf'[j].tx = buf[j].tx
                           /\ buf'[j].lsn = buf[j].lsn
                           /\ buf'[j].pins = IF buf[j].blk \in pinned[s] THEN buf[j].pins - 1 ELSE buf[j].pins
      BY <3>1, UnpinEffect
    <3> QED BY <3>1, <3>2
  <2>3. pc' = [pc EXCEPT ![s] = "idle"] /\ num' = [num EXCEPT ![s] = 0]
    BY <1>24 DEF UnpinAll, Goto
  <2>6. ASSUME NEW u \in Slots, u # s PROVE Mine(u)' = Mine(u) /\ pc'[u] = pc[u]
    BY <1>t, <2>2, <2>3, <2>6 DEF Mine, ThreadTypes
  <2>7. pc'[s] = "idle"
    BY <1>t, <2>3 DEF ThreadTypes
  <2> QED BY <1>i, <2>6, <2>7 DEF Unforgotten
<1>25. CASE Crash
  <2>1. \A u \in Slots : pc'[u] = "idle"
    BY <1>25 DEF Crash, All
  <2> QED BY <1>t, <2>1 DEF Unforgotten
<1> QED
  BY <1>0, <1>1, <1>2, <1>3, <1>4, <1>5, <1>6, <1>7, <1>8, <1>9, <1>10, <1>11, <1>12, <1>13, <1>14, <1>15, <1>16, <1>17, <1>18, <1>19, <1>20, <1>21, <1>22, <1>23, <1>24, <1>25, StepsAre

(* Every step keeps the numbers of the transactions apart.                 *)
LEMMA NumbersStep ==
  ASSUME PoolInv, Next
  PROVE  Numbers'
<1>0. Clients \subseteq Slots /\ Sys \in Slots /\ Sys \notin Clients
  BY TxAssumption DEF Slots
<1>t. ThreadTypes /\ nextTx \in Nat /\ saved \in Nat /\ Len(log) \in Nat
  BY TypesAre DEF PoolInv, LogTypes, RestTypes
<1>i. Threads
  BY DEF PoolInv
<1> USE DEF Threads
<1>1. CASE Startup
  BY <1>0, <1>1, <1>t, <1>i DEF Startup, Goto, Numbers, StartUps, ThreadTypes, tx, sysv
<1>2. CASE append_saves
  BY <1>0, <1>2, <1>t, <1>i DEF append_saves, Numbers, StartUps, ThreadTypes, tx, sysv
<1>3. CASE AtBounds
  BY <1>0, <1>3, <1>t, <1>i DEF AtBounds, vars, Numbers, StartUps, ThreadTypes, tx, sysv
<1>4. ASSUME NEW s \in Clients, Begin(s) PROVE Numbers'
  BY <1>0, <1>4, <1>t, <1>i DEF Begin, Goto, Numbers, StartUps, ThreadTypes, tx, sysv
<1>5. ASSUME NEW s \in Clients, PinDone(s) PROVE Numbers'
  <2>1. UNCHANGED <<num, nextTx>> /\ pc[s] = "pin" /\ pc' = [pc EXCEPT ![s] = "active"]
    BY <1>5 DEF PinDone, Goto, sysv
  <2> QED BY <1>i, <1>t, <2>1 DEF Numbers, ThreadTypes
<1>6. ASSUME NEW s \in Clients, PinThrows(s) PROVE Numbers'
  BY <1>0, <1>6, <1>t, <1>i DEF PinThrows, Goto, Numbers, StartUps, ThreadTypes, tx, sysv
<1>7. ASSUME NEW s \in Clients, CallCommit(s) PROVE Numbers'
  BY <1>0, <1>7, <1>t, <1>i DEF CallCommit, Goto, Numbers, StartUps, ThreadTypes, tx, sysv
<1>8. ASSUME NEW s \in Clients, CallRollback(s) PROVE Numbers'
  BY <1>0, <1>8, <1>t, <1>i DEF CallRollback, Goto, Numbers, StartUps, ThreadTypes, tx, sysv
<1>9. ASSUME NEW s \in Clients, NEW b \in Blocks, CallPin(s, b) PROVE Numbers'
  BY <1>0, <1>9, <1>t, <1>i DEF CallPin, Goto, Numbers, StartUps, ThreadTypes, tx, sysv
<1>10. ASSUME NEW s \in Clients, NEW b \in Blocks, unpin(s, b) PROVE Numbers'
  BY <1>0, <1>10, <1>t, <1>i DEF unpin, Numbers, StartUps, ThreadTypes, tx, sysv
<1>11. ASSUME NEW s \in Clients, NEW b \in Blocks, get_int(s, b) PROVE Numbers'
  BY <1>0, <1>11, <1>t, <1>i DEF get_int, Numbers, StartUps, ThreadTypes, tx, sysv
<1>12. ASSUME NEW s \in Clients, NEW b \in Blocks, NEW v \in Values, set_int(s, b, v) PROVE Numbers'
  BY <1>0, <1>12, <1>t, <1>i DEF set_int, Numbers, StartUps, ThreadTypes, tx, sysv
<1>13. ASSUME NEW s \in Slots, NEW i \in Buffs, StartWrite(s, i), FlushesFor(s, i) PROVE Numbers'
  BY <1>0, <1>13, <1>t, <1>i DEF StartWrite, Numbers, StartUps, ThreadTypes, tx, sysv
<1>14. ASSUME NEW s \in Slots, EndWrite(s) PROVE Numbers'
  BY <1>0, <1>14, <1>t, <1>i DEF EndWrite, Numbers, StartUps, ThreadTypes, tx, sysv
<1>15. ASSUME NEW s \in Slots, iterator(s) \/ Iterate(s) PROVE Numbers'
  BY <1>0, <1>15, <1>t, <1>i DEF iterator, Iterate, Goto, Numbers, StartUps, ThreadTypes, tx, sysv
<1>16. ASSUME NEW s \in Slots, UndoPins(s) PROVE Numbers'
  BY <1>0, <1>16, <1>t, <1>i DEF UndoPins, Undoing, Goto, Numbers, StartUps, ThreadTypes, tx, sysv
<1>17. ASSUME NEW s \in Slots, Undo(s) PROVE Numbers'
  <2>1. UNCHANGED <<num, nextTx>> /\ pc[s] = "restore" /\ pc' = [pc EXCEPT ![s] = "undo"]
    BY <1>17 DEF Undo, Goto, sysv
  <2> QED BY <1>i, <1>t, <2>1 DEF Numbers, ThreadTypes
<1>18. ASSUME NEW s \in Slots, UndoThrows(s) PROVE Numbers'
  BY <1>0, <1>18, <1>t, <1>i DEF UndoThrows, Undoing, Goto, Numbers, StartUps, ThreadTypes, tx, sysv
<1>19. ASSUME NEW s \in Slots, UndoEnds(s) PROVE Numbers'
  BY <1>0, <1>19, <1>t, <1>i DEF UndoEnds, Goto, Numbers, StartUps, ThreadTypes, tx, sysv
<1>20. ASSUME NEW s \in Slots, FlushEnds(s) PROVE Numbers'
  BY <1>0, <1>20, <1>t, <1>i DEF FlushEnds, Goto, Numbers, StartUps, ThreadTypes, tx, sysv
<1>21. ASSUME NEW s \in Slots, WriteRecord(s) PROVE Numbers'
  BY <1>0, <1>21, <1>t, <1>i DEF WriteRecord, Goto, Numbers, StartUps, ThreadTypes, tx, sysv
<1>22. ASSUME NEW s \in Slots, FlushRecord(s) PROVE Numbers'
  BY <1>0, <1>22, <1>t, <1>i DEF FlushRecord, Goto, Numbers, StartUps, ThreadTypes, tx, sysv
<1>23. ASSUME NEW s \in Slots, Release(s) PROVE Numbers'
  BY <1>0, <1>23, <1>t, <1>i DEF Release, Goto, NoLocks, Numbers, StartUps, ThreadTypes, tx, sysv
<1>24. ASSUME NEW s \in Slots, UnpinAll(s) PROVE Numbers'
  BY <1>0, <1>24, <1>t, <1>i DEF UnpinAll, Goto, Numbers, StartUps, ThreadTypes, tx, sysv
<1>25. CASE Crash
  BY <1>0, <1>25, <1>t, <1>i DEF Crash, All, NoLocks, Numbers, StartUps, ThreadTypes, tx, sysv
<1> QED
  BY <1>0, <1>1, <1>2, <1>3, <1>4, <1>5, <1>6, <1>7, <1>8, <1>9, <1>10, <1>11, <1>12, <1>13, <1>14, <1>15, <1>16, <1>17, <1>18, <1>19, <1>20, <1>21, <1>22, <1>23, <1>24, <1>25, StepsAre

(* Every step keeps a thread's memory of its call true.                    *)
LEMMA CallsStep ==
  ASSUME PoolInv, Next
  PROVE  Calls'
<1>0. Clients \subseteq Slots /\ Sys \in Slots /\ Sys \notin Clients
  BY TxAssumption DEF Slots
<1>t. ThreadTypes /\ nextTx \in Nat /\ saved \in Nat /\ Len(log) \in Nat
  BY TypesAre DEF PoolInv, LogTypes, RestTypes
<1>i. Threads
  BY DEF PoolInv
<1> USE DEF Threads
<1>1. CASE Startup
  BY <1>0, <1>1, <1>t, <1>i, TxAssumption DEF Startup, Goto, Calls, Numbers, StartUps, ThreadTypes, tx
<1>2. CASE append_saves
  BY <1>0, <1>2, <1>t, <1>i, TxAssumption DEF append_saves, Calls, Numbers, StartUps, ThreadTypes, tx
<1>3. CASE AtBounds
  BY <1>0, <1>3, <1>t, <1>i, TxAssumption DEF AtBounds, vars, Calls, Numbers, StartUps, ThreadTypes, tx
<1>4. ASSUME NEW s \in Clients, Begin(s) PROVE Calls'
  BY <1>0, <1>4, <1>t, <1>i, TxAssumption DEF Begin, Goto, Calls, Numbers, StartUps, ThreadTypes, tx
<1>5. ASSUME NEW s \in Clients, PinDone(s) PROVE Calls'
  BY <1>0, <1>5, <1>t, <1>i, TxAssumption DEF PinDone, Goto, Calls, Numbers, StartUps, ThreadTypes, tx
<1>6. ASSUME NEW s \in Clients, PinThrows(s) PROVE Calls'
  BY <1>0, <1>6, <1>t, <1>i, TxAssumption DEF PinThrows, Goto, Calls, Numbers, StartUps, ThreadTypes, tx
<1>7. ASSUME NEW s \in Clients, CallCommit(s) PROVE Calls'
  BY <1>0, <1>7, <1>t, <1>i, TxAssumption DEF CallCommit, Goto, Calls, Numbers, StartUps, ThreadTypes, tx
<1>8. ASSUME NEW s \in Clients, CallRollback(s) PROVE Calls'
  BY <1>0, <1>8, <1>t, <1>i, TxAssumption DEF CallRollback, Goto, Calls, Numbers, StartUps, ThreadTypes, tx
<1>9. ASSUME NEW s \in Clients, NEW b \in Blocks, CallPin(s, b) PROVE Calls'
  BY <1>0, <1>9, <1>t, <1>i, TxAssumption DEF CallPin, Goto, Calls, Numbers, StartUps, ThreadTypes, tx
<1>10. ASSUME NEW s \in Clients, NEW b \in Blocks, unpin(s, b) PROVE Calls'
  BY <1>0, <1>10, <1>t, <1>i, TxAssumption DEF unpin, Calls, Numbers, StartUps, ThreadTypes, tx
<1>11. ASSUME NEW s \in Clients, NEW b \in Blocks, get_int(s, b) PROVE Calls'
  BY <1>0, <1>11, <1>t, <1>i, TxAssumption DEF get_int, Calls, Numbers, StartUps, ThreadTypes, tx
<1>12. ASSUME NEW s \in Clients, NEW b \in Blocks, NEW v \in Values, set_int(s, b, v) PROVE Calls'
  BY <1>0, <1>12, <1>t, <1>i, TxAssumption DEF set_int, Calls, Numbers, StartUps, ThreadTypes, tx
<1>13. ASSUME NEW s \in Slots, NEW i \in Buffs, StartWrite(s, i), FlushesFor(s, i) PROVE Calls'
  BY <1>0, <1>13, <1>t, <1>i, TxAssumption DEF StartWrite, Calls, Numbers, StartUps, ThreadTypes, tx
<1>14. ASSUME NEW s \in Slots, EndWrite(s) PROVE Calls'
  BY <1>0, <1>14, <1>t, <1>i, TxAssumption DEF EndWrite, Calls, Numbers, StartUps, ThreadTypes, tx
<1>15. ASSUME NEW s \in Slots, iterator(s) \/ Iterate(s) PROVE Calls'
  <2>1. CASE iterator(s)
    BY <1>0, <2>1, <1>t, <1>i, TxAssumption DEF iterator, Goto, Calls, Numbers, StartUps, ThreadTypes, tx
  <2>2. CASE Iterate(s)
    BY <1>0, <2>2, <1>t, <1>i, TxAssumption DEF Iterate, Goto, Calls, Numbers, StartUps, ThreadTypes, tx
  <2> QED BY <1>15, <2>1, <2>2
<1>16. ASSUME NEW s \in Slots, UndoPins(s) PROVE Calls'
  BY <1>0, <1>16, <1>t, <1>i, TxAssumption DEF UndoPins, Undoing, Goto, Calls, Numbers, StartUps, ThreadTypes, tx
<1>17. ASSUME NEW s \in Slots, Undo(s) PROVE Calls'
  <2>1. /\ UNCHANGED <<pinned, want, op>> /\ pc[s] = "restore"
        /\ pc' = [pc EXCEPT ![s] = "undo"]
    BY <1>17 DEF Undo, Goto
  <2> QED BY <1>0, <1>i, <1>t, <2>1 DEF Calls, ThreadTypes
<1>18. ASSUME NEW s \in Slots, UndoThrows(s) PROVE Calls'
  BY <1>0, <1>18, <1>t, <1>i, TxAssumption DEF UndoThrows, Undoing, Goto, Calls, Numbers, StartUps, ThreadTypes, tx
<1>19. ASSUME NEW s \in Slots, UndoEnds(s) PROVE Calls'
  BY <1>0, <1>19, <1>t, <1>i, TxAssumption DEF UndoEnds, Goto, Calls, Numbers, StartUps, ThreadTypes, tx
<1>20. ASSUME NEW s \in Slots, FlushEnds(s) PROVE Calls'
  BY <1>0, <1>20, <1>t, <1>i, TxAssumption DEF FlushEnds, Goto, Calls, Numbers, StartUps, ThreadTypes, tx
<1>21. ASSUME NEW s \in Slots, WriteRecord(s) PROVE Calls'
  BY <1>0, <1>21, <1>t, <1>i, TxAssumption DEF WriteRecord, Goto, Calls, Numbers, StartUps, ThreadTypes, tx
<1>22. ASSUME NEW s \in Slots, FlushRecord(s) PROVE Calls'
  BY <1>0, <1>22, <1>t, <1>i, TxAssumption DEF FlushRecord, Goto, Calls, Numbers, StartUps, ThreadTypes, tx
<1>23. ASSUME NEW s \in Slots, Release(s) PROVE Calls'
  BY <1>0, <1>23, <1>t, <1>i, TxAssumption DEF Release, Goto, NoLocks, Calls, Numbers, StartUps, ThreadTypes, tx
<1>24. ASSUME NEW s \in Slots, UnpinAll(s) PROVE Calls'
  BY <1>0, <1>24, <1>t, <1>i, TxAssumption DEF UnpinAll, Goto, Calls, Numbers, StartUps, ThreadTypes, tx
<1>25. CASE Crash
  BY <1>0, <1>25, <1>t, <1>i, TxAssumption DEF Crash, All, NoLocks, Calls, Numbers, StartUps, ThreadTypes, tx
<1> QED
  BY <1>0, <1>1, <1>2, <1>3, <1>4, <1>5, <1>6, <1>7, <1>8, <1>9, <1>10, <1>11, <1>12, <1>13, <1>14, <1>15, <1>16, <1>17, <1>18, <1>19, <1>20, <1>21, <1>22, <1>23, <1>24, <1>25, StepsAre

(* Every step keeps the start-up alone.                                    *)
LEMMA StartUpsStep ==
  ASSUME PoolInv, Next
  PROVE  StartUps'
<1>0. Clients \subseteq Slots /\ Sys \in Slots /\ Sys \notin Clients
  BY TxAssumption DEF Slots
<1>t. ThreadTypes /\ nextTx \in Nat /\ saved \in Nat /\ Len(log) \in Nat
  BY TypesAre DEF PoolInv, LogTypes, RestTypes
<1>i. Threads
  BY DEF PoolInv
<1> USE DEF Threads
<1>1. CASE Startup
  BY <1>0, <1>1, <1>t, <1>i DEF Startup, Goto, StartUps, Numbers, Calls, ThreadTypes, tx, sysv, logv, AppendLog, FlushLog
<1>2. CASE append_saves
  BY <1>0, <1>2, <1>t, <1>i DEF append_saves, StartUps, Numbers, Calls, ThreadTypes, tx, sysv, logv, AppendLog, FlushLog
<1>3. CASE AtBounds
  BY <1>0, <1>3, <1>t, <1>i DEF AtBounds, vars, StartUps, Numbers, Calls, ThreadTypes, tx, sysv, logv, AppendLog, FlushLog
<1>4. ASSUME NEW s \in Clients, Begin(s) PROVE StartUps'
  BY <1>0, <1>4, <1>t, <1>i DEF Begin, Goto, StartUps, Numbers, Calls, ThreadTypes, tx, sysv, logv, AppendLog, FlushLog
<1>5. ASSUME NEW s \in Clients, PinDone(s) PROVE StartUps'
  BY <1>0, <1>5, <1>t, <1>i DEF PinDone, Goto, StartUps, Numbers, Calls, ThreadTypes, tx, sysv, logv, AppendLog, FlushLog
<1>6. ASSUME NEW s \in Clients, PinThrows(s) PROVE StartUps'
  BY <1>0, <1>6, <1>t, <1>i DEF PinThrows, Goto, StartUps, Numbers, Calls, ThreadTypes, tx, sysv, logv, AppendLog, FlushLog
<1>7. ASSUME NEW s \in Clients, CallCommit(s) PROVE StartUps'
  BY <1>0, <1>7, <1>t, <1>i DEF CallCommit, Goto, StartUps, Numbers, Calls, ThreadTypes, tx, sysv, logv, AppendLog, FlushLog
<1>8. ASSUME NEW s \in Clients, CallRollback(s) PROVE StartUps'
  BY <1>0, <1>8, <1>t, <1>i DEF CallRollback, Goto, StartUps, Numbers, Calls, ThreadTypes, tx, sysv, logv, AppendLog, FlushLog
<1>9. ASSUME NEW s \in Clients, NEW b \in Blocks, CallPin(s, b) PROVE StartUps'
  BY <1>0, <1>9, <1>t, <1>i DEF CallPin, Goto, StartUps, Numbers, Calls, ThreadTypes, tx, sysv, logv, AppendLog, FlushLog
<1>10. ASSUME NEW s \in Clients, NEW b \in Blocks, unpin(s, b) PROVE StartUps'
  BY <1>0, <1>10, <1>t, <1>i DEF unpin, StartUps, Numbers, Calls, ThreadTypes, tx, sysv, logv, AppendLog, FlushLog
<1>11. ASSUME NEW s \in Clients, NEW b \in Blocks, get_int(s, b) PROVE StartUps'
  BY <1>0, <1>11, <1>t, <1>i DEF get_int, StartUps, Numbers, Calls, ThreadTypes, tx, sysv, logv, AppendLog, FlushLog
<1>12. ASSUME NEW s \in Clients, NEW b \in Blocks, NEW v \in Values, set_int(s, b, v) PROVE StartUps'
  BY <1>0, <1>12, <1>t, <1>i DEF set_int, StartUps, Numbers, Calls, ThreadTypes, tx, sysv, logv, AppendLog, FlushLog
<1>13. ASSUME NEW s \in Slots, NEW i \in Buffs, StartWrite(s, i), FlushesFor(s, i) PROVE StartUps'
  BY <1>0, <1>13, <1>t, <1>i DEF StartWrite, StartUps, Numbers, Calls, ThreadTypes, tx, sysv, logv, AppendLog, FlushLog
<1>14. ASSUME NEW s \in Slots, EndWrite(s) PROVE StartUps'
  BY <1>0, <1>14, <1>t, <1>i DEF EndWrite, StartUps, Numbers, Calls, ThreadTypes, tx, sysv, logv, AppendLog, FlushLog
<1>15. ASSUME NEW s \in Slots, iterator(s) \/ Iterate(s) PROVE StartUps'
  BY <1>0, <1>15, <1>t, <1>i DEF iterator, Iterate, Goto, StartUps, Numbers, Calls, ThreadTypes, tx, sysv, logv, AppendLog, FlushLog
<1>16. ASSUME NEW s \in Slots, UndoPins(s) PROVE StartUps'
  BY <1>0, <1>16, <1>t, <1>i DEF UndoPins, Undoing, Goto, StartUps, Numbers, Calls, ThreadTypes, tx, sysv, logv, AppendLog, FlushLog
<1>17. ASSUME NEW s \in Slots, Undo(s) PROVE StartUps'
  <2>1. /\ UNCHANGED <<num, nextTx, started, isNew, logv>> /\ pc[s] = "restore"
        /\ pc' = [pc EXCEPT ![s] = "undo"]
    BY <1>17 DEF Undo, Goto, sysv, logv
  <2> QED BY <1>0, <1>i, <1>t, <2>1 DEF StartUps, ThreadTypes, logv
<1>18. ASSUME NEW s \in Slots, UndoThrows(s) PROVE StartUps'
  BY <1>0, <1>18, <1>t, <1>i DEF UndoThrows, Undoing, Goto, StartUps, Numbers, Calls, ThreadTypes, tx, sysv, logv, AppendLog, FlushLog
<1>19. ASSUME NEW s \in Slots, UndoEnds(s) PROVE StartUps'
  BY <1>0, <1>19, <1>t, <1>i DEF UndoEnds, Goto, StartUps, Numbers, Calls, ThreadTypes, tx, sysv, logv, AppendLog, FlushLog
<1>20. ASSUME NEW s \in Slots, FlushEnds(s) PROVE StartUps'
  BY <1>0, <1>20, <1>t, <1>i DEF FlushEnds, Goto, StartUps, Numbers, Calls, ThreadTypes, tx, sysv, logv, AppendLog, FlushLog
<1>21. ASSUME NEW s \in Slots, WriteRecord(s) PROVE StartUps'
  BY <1>0, <1>21, <1>t, <1>i DEF WriteRecord, Goto, StartUps, Numbers, Calls, ThreadTypes, tx, sysv, logv, AppendLog, FlushLog
<1>22. ASSUME NEW s \in Slots, FlushRecord(s) PROVE StartUps'
  BY <1>0, <1>22, <1>t, <1>i DEF FlushRecord, Goto, StartUps, Numbers, Calls, ThreadTypes, tx, sysv, logv, AppendLog, FlushLog
<1>23. ASSUME NEW s \in Slots, Release(s) PROVE StartUps'
  BY <1>0, <1>23, <1>t, <1>i DEF Release, Goto, NoLocks, StartUps, Numbers, Calls, ThreadTypes, tx, sysv, logv, AppendLog, FlushLog
<1>24. ASSUME NEW s \in Slots, UnpinAll(s) PROVE StartUps'
  BY <1>0, <1>24, <1>t, <1>i DEF UnpinAll, Goto, StartUps, Numbers, Calls, ThreadTypes, tx, sysv, logv, AppendLog, FlushLog
<1>25. CASE Crash
  BY <1>0, <1>25, <1>t, <1>i DEF Crash, All, NoLocks, StartUps, Numbers, Calls, ThreadTypes, tx, sysv, logv, AppendLog, FlushLog
<1> QED
  BY <1>0, <1>1, <1>2, <1>3, <1>4, <1>5, <1>6, <1>7, <1>8, <1>9, <1>10, <1>11, <1>12, <1>13, <1>14, <1>15, <1>16, <1>17, <1>18, <1>19, <1>20, <1>21, <1>22, <1>23, <1>24, <1>25, StepsAre

-----------------------------------------------------------------------------
(* The initial states satisfy the invariant: nothing is pinned, nothing is *)
(* dirty, and no transaction is in progress.                               *)
LEMMA PoolInvInit ==
  ASSUME Init
  PROVE  PoolInv
<1>0. Clients \subseteq Slots /\ Sys \in Slots /\ Sys \notin Clients /\ None \notin Blocks
  BY TxAssumption DEF Slots
<1>1. TypeOK
  BY TxAssumption DEF Init, TypeOK, All, FreeBuffer, NoLocks, Nothing, Slots, Buffs
<1>2. Threads
  BY <1>0 DEF Init, Threads, Numbers, Calls, Iterators, StartUps, All
<1>3. Pins
  <2>1. \A i \in Buffs : buf[i].blk = None
    BY DEF Init, FreeBuffer
  <2>2. \A b \in Blocks : Pinners(b) = {} /\ Restorers(b) = {}
    BY DEF Init, All, Pinners, Restorers
  <2>3. \A b \in Blocks : Refs(b) = {}
    BY <2>2 DEF Refs, PinSet
  <2> QED BY <2>1, <2>3 DEF Pins
<1>4. Buffers /\ ~ (\E i \in Buffs : Dirty(i))
  BY DEF Init, Buffers, FreeBuffer, Dirty
<1>5. Writing
  BY DEF Init, Writing
<1>6. ChangesAreLocked
  BY <1>4 DEF ChangesAreLocked
<1>7. Unforgotten
  BY DEF Init, Unforgotten, All
<1> QED
  BY <1>1, <1>2, <1>3, <1>4, <1>5, <1>6, <1>7 DEF PoolInv

(* Every step keeps the types.                                             *)
LEMMA TypesStep ==
  ASSUME PoolInv, Next
  PROVE  TypeOK'
<1>1. PoolTypes' /\ LogTypes' /\ ThreadTypes' /\ RestTypes'
  BY PoolTypesStep, LogTypesStep, ThreadTypesStep, RestTypesStep
<1> QED
  BY <1>1 DEF PoolTypes, LogTypes, ThreadTypes, RestTypes, TypeOK, BufRec, Records

(* Every step keeps the invariant.                                         *)
LEMMA PoolInvStep ==
  ASSUME PoolInv, Next
  PROVE  PoolInv'
<1>1. TypeOK'
  BY TypesStep
<1>2. Threads'
  BY NumbersStep, CallsStep, IteratorsStep, StartUpsStep DEF Threads
<1>3. Pins' /\ Buffers' /\ Writing' /\ ChangesAreLocked' /\ Unforgotten'
  BY PinsStep, BuffersStep, WritingStep, LockedStep, UnforgottenStep
<1> QED
  BY <1>1, <1>2, <1>3 DEF PoolInv

(* A stuttering step keeps it too.                                         *)
LEMMA PoolInvStutter ==
  ASSUME PoolInv, UNCHANGED vars
  PROVE  PoolInv'
<1>0. UNCHANGED <<pool, logv, locks, tx, sysv, ghosts>>
  BY DEF vars
<1>1. TypeOK'
  BY <1>0 DEF PoolInv, TypeOK, pool, logv, tx, sysv, ghosts
<1>2. Threads'
  BY <1>0 DEF PoolInv, Threads, Numbers, Calls, Iterators, StartUps, ToUndo, RollbackSet, RecoverSet,
              pool, logv, tx, sysv
<1>3. Pins'
  <2>1. \A u \in Slots : UndoBlock(u)' = UndoBlock(u)
    BY <1>0 DEF UndoBlock, ToUndo, RollbackSet, RecoverSet, logv, tx
  <2>2. \A b \in Blocks : (Pinners(b))' = Pinners(b) /\ (Restorers(b))' = Restorers(b)
    BY <1>0, <2>1 DEF Pinners, Restorers, tx
  <2>3. \A b \in Blocks : (Refs(b))' = Refs(b) /\ (Existing(b))' = Existing(b)
    BY <1>0, <2>2 DEF Refs, Existing, pool
  <2>4. buf' = buf
    BY <1>0 DEF pool
  <2> QED BY <2>3, <2>4 DEF PoolInv, Pins, TypeOK
<1>4. Buffers' /\ Writing' /\ ChangesAreLocked' /\ Unforgotten'
  BY <1>0 DEF PoolInv, Buffers, Writing, Dirty, ChangesAreLocked, Unforgotten, Mine, pool, logv, tx, sysv
<1> QED
  BY <1>1, <1>2, <1>3, <1>4 DEF PoolInv

(* The inductive invariant of the pool and of the threads.                 *)
THEOREM PoolInvariant == Spec => []PoolInv
<1>1. Init => PoolInv
  BY PoolInvInit
<1>2. PoolInv /\ [Next]_vars => PoolInv'
  BY PoolInvStep, PoolInvStutter
<1> QED BY <1>1, <1>2, PTL DEF Spec

(* The variables keep their types, for any number of connections, blocks   *)
(* and buffers, in every state of every number of processes.               *)
THEOREM TypeCorrect == Spec => []TypeOK
<1>1. PoolInv => TypeOK
  BY DEF PoolInv
<1> QED BY <1>1, PoolInvariant, PTL

(* A buffer with a change that is not on the disk belongs to a transaction *)
(* that still holds the block exclusively: release_all comes after the     *)
(* flush, in commit, in rollback and after a restart.                      *)
THEOREM ChangesLocked == Spec => []ChangesAreLocked
<1>1. PoolInv => ChangesAreLocked
  BY DEF PoolInv
<1> QED BY <1>1, PoolInvariant, PTL
=============================================================================
