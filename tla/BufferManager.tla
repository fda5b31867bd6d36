---------------------------- MODULE BufferManager ----------------------------
(***************************************************************************)
(* The buffer pool (vanilla_buffer_manager; lru_buffer_manager is the same *)
(* code), the buffers in it and the buffer_list of each transaction.       *)
(*                                                                         *)
(* Every action is one critical section of the manager's mMutex, or a step *)
(* of the thread that owns a buffer_list.  A block's data is abstracted to *)
(* the block it belongs to and one bit that every modification flips, so   *)
(* stale data and data of another block can be told from the right data.   *)
(* The log flush that precedes a write is the subject of TxSystem.         *)
(***************************************************************************)
EXTENDS Integers, FiniteSets

CONSTANTS
  Txs,           \* transactions; each runs in a thread of its own
  Blocks,        \* blocks of the database files
  None,          \* no block, no transaction (block_id::is_null, mTxNum = -1)
  NumBuffs,      \* size of the pool
  MaxPins,       \* bound: pins one transaction keeps on one block
  ReadsMayFail   \* whether file_manager::read may throw

ASSUME BufferAssumption ==
  /\ IsFiniteSet(Txs) /\ IsFiniteSet(Blocks)
  /\ None \notin Txs /\ None \notin Blocks
  /\ NumBuffs \in Nat /\ MaxPins \in Nat
  /\ ReadsMayFail \in BOOLEAN

Buffs == 1 .. NumBuffs

VARIABLES
  block,         \* buffer::mBlockId
  contents,      \* buffer::mContents
  pins,          \* buffer::mPins
  modifyingTx,   \* buffer::mTxNum: who modified the buffer since its last write
  numAvailable,  \* mNumAvailable
  disk,          \* the file's copy of each block
  myBuffers,     \* buffer_list::mBuffers of each transaction
  myPins,        \* buffer_list::mPins: how often each block is in it
  pc,            \* "idle", "pin" (inside pin), "unpin_all"
  want,          \* the block being pinned
  wait,          \* the thread's state in mCondVar.wait_for
  elapsed        \* time since `start`, compared with mMaxTime

pool == <<block, contents, pins, modifyingTx, numAvailable, disk>>
lists == <<myBuffers, myPins>>
thread == <<pc, want, wait, elapsed>>
vars == <<pool, lists, thread>>

AllData == [of : Blocks \cup {None}, bit : {0, 1}]

(* A new buffer holds a zeroed page and no block.                          *)
Init ==
  /\ block = [i \in Buffs |-> None]
  /\ contents = [i \in Buffs |-> [of |-> None, bit |-> 0]]
  /\ pins = [i \in Buffs |-> 0]
  /\ modifyingTx = [i \in Buffs |-> None]
  /\ numAvailable = NumBuffs
  /\ disk = [b \in Blocks |-> [of |-> b, bit |-> 0]]
  /\ myBuffers = [t \in Txs |-> [b \in Blocks |-> 0]]
  /\ myPins = [t \in Txs |-> [b \in Blocks |-> 0]]
  /\ pc = [t \in Txs |-> "idle"]
  /\ want = [t \in Txs |-> None]
  /\ wait = [t \in Txs |-> "no"]
  /\ elapsed = [t \in Txs |-> "under"]

\* Mutant: the clock is never looked at.
never_too_long(t) == FALSE

is_pinned(i) == pins[i] > 0
waiting_too_long(t) == elapsed[t] = "over"

(* The first of some buffers in the order of the pool.                     *)
IsFirst(i, S) == i \in S /\ \A j \in S : i <= j

\* Mutants: a search that ignores pins, one that only sees pinned buffers.
IsFirstAtAll(i) == IsFirst(i, Buffs)
BufferedAndPinned(b) == \E i \in Buffs : block[i] = b /\ is_pinned(i)

IsExisting(i, b) == IsFirst(i, {j \in Buffs : block[j] = b})
IsChosen(i) == IsFirst(i, {j \in Buffs : ~is_pinned(j)})

Buffered(b) == \E i \in Buffs : block[i] = b
Exhausted == \A i \in Buffs : is_pinned(i)

-----------------------------------------------------------------------------
(* buffer::flush and buffer::assign_to_block                               *)

(* What the file holds once buffer i is flushed.                           *)
Flushed(i) == IF modifyingTx[i] = None THEN disk
              ELSE [disk EXCEPT ![block[i]] = contents[i]]

\* Mutant: the buffer is reused without the flush.
assign_without_flush(i, b) ==
  /\ modifyingTx' = [modifyingTx EXCEPT ![i] = None]
  /\ block' = [block EXCEPT ![i] = b]
  /\ contents' = [contents EXCEPT ![i] = disk[b]]
  /\ UNCHANGED disk

\* Mutant: the buffer has its new block before the old one is flushed.
assign_then_flush(i, b) ==
  /\ disk' = IF modifyingTx[i] = None THEN disk ELSE [disk EXCEPT ![b] = contents[i]]
  /\ modifyingTx' = [modifyingTx EXCEPT ![i] = None]
  /\ block' = [block EXCEPT ![i] = b]
  /\ contents' = [contents EXCEPT ![i] = disk'[b]]

assign_to_block(i, b) ==
  /\ disk' = Flushed(i)
  /\ modifyingTx' = [modifyingTx EXCEPT ![i] = None]
  /\ block' = [block EXCEPT ![i] = b]
  /\ contents' = [contents EXCEPT ![i] = disk'[b]]

(* The same when the read throws: the block id is already the new one.     *)
assign_fails(i, b) ==
  /\ disk' = Flushed(i)
  /\ modifyingTx' = [modifyingTx EXCEPT ![i] = None]
  /\ block' = [block EXCEPT ![i] = b]
  /\ UNCHANGED contents

-----------------------------------------------------------------------------
(* buffer_manager::pin, called through buffer_list::pin                    *)

Return(t) ==
  /\ pc' = [pc EXCEPT ![t] = "idle"]
  /\ want' = [want EXCEPT ![t] = None]
  /\ wait' = [wait EXCEPT ![t] = "no"]
  /\ elapsed' = [elapsed EXCEPT ![t] = "under"]

CallPin(t, b) ==
  /\ pc[t] = "idle"
  /\ myPins[t][b] < MaxPins
  /\ pc' = [pc EXCEPT ![t] = "pin"]
  /\ want' = [want EXCEPT ![t] = b]
  /\ UNCHANGED <<pool, lists, wait, elapsed>>

\* Mutants: every pin takes a buffer away; a second pin is not counted.
PinAlwaysTakes(t, i) ==
  /\ numAvailable' = numAvailable - 1
  /\ pins' = [pins EXCEPT ![i] = @ + 1]
  /\ myBuffers' = [myBuffers EXCEPT ![t][want[t]] = i]
  /\ myPins' = [myPins EXCEPT ![t][want[t]] = @ + 1]
  /\ Return(t)

PinCountsOnce(t, i) ==
  /\ numAvailable' = IF is_pinned(i) THEN numAvailable ELSE numAvailable - 1
  /\ pins' = [pins EXCEPT ![i] = 1]
  /\ myBuffers' = [myBuffers EXCEPT ![t][want[t]] = i]
  /\ myPins' = [myPins EXCEPT ![t][want[t]] = @ + 1]
  /\ Return(t)

(* mNumAvailable--, buff->pin() and the entries of the buffer_list.        *)
PinBuffer(t, i) ==
  /\ numAvailable' = IF is_pinned(i) THEN numAvailable ELSE numAvailable - 1
  /\ pins' = [pins EXCEPT ![i] = @ + 1]
  /\ myBuffers' = [myBuffers EXCEPT ![t][want[t]] = i]
  /\ myPins' = [myPins EXCEPT ![t][want[t]] = @ + 1]
  /\ Return(t)

Entering(t) == pc[t] = "pin" /\ wait[t] = "no"

(* try_to_pin, tried once, before the loop: the block is in the pool ...   *)
PinExisting(t) ==
  /\ Entering(t)
  /\ \E i \in Buffs : IsExisting(i, want[t]) /\ PinBuffer(t, i)
  /\ UNCHANGED <<block, contents, modifyingTx, disk>>

(* ... or it replaces the block of the first unpinned buffer ...           *)
PinChosen(t) ==
  /\ Entering(t)
  /\ ~Buffered(want[t])
  /\ \E i \in Buffs : /\ IsChosen(i)
                      /\ assign_to_block(i, want[t])
                      /\ PinBuffer(t, i)

(* ... or the read of the block throws out of pin ...                      *)
PinReadFails(t) ==
  /\ ReadsMayFail
  /\ Entering(t)
  /\ ~Buffered(want[t])
  /\ \E i \in Buffs : IsChosen(i) /\ assign_fails(i, want[t])
  /\ Return(t)
  /\ UNCHANGED <<pins, numAvailable, lists>>

(* ... or there is no buffer and the thread waits.                         *)
PinSleeps(t) ==
  /\ Entering(t)
  /\ ~Buffered(want[t])
  /\ Exhausted
  /\ wait' = [wait EXCEPT ![t] = "asleep"]
  /\ UNCHANGED <<pool, lists, pc, want, elapsed>>

(* The loop only looks at the clock: `buff` is null for as long as it runs *)
(* and throw std::runtime_error("buffer abort exception") is its only end. *)
PinRechecks(t) ==
  /\ pc[t] = "pin"
  /\ wait[t] = "woken"
  /\ IF waiting_too_long(t) THEN Return(t)
     ELSE wait' = [wait EXCEPT ![t] = "asleep"] /\ UNCHANGED <<pc, want, elapsed>>
  /\ UNCHANGED <<pool, lists>>

pin(t) == PinExisting(t) \/ PinChosen(t) \/ PinReadFails(t) \/ PinSleeps(t) \/ PinRechecks(t)

-----------------------------------------------------------------------------
(* buffer_manager::unpin, called by buffer_list::unpin and unpin_all       *)

\* Mutant: every unpin gives a buffer back.
UnpinAlwaysFrees(i) ==
  /\ pins' = [pins EXCEPT ![i] = @ - 1]
  /\ numAvailable' = numAvailable + 1
  /\ wait' = [t \in Txs |-> IF wait[t] = "asleep" THEN "woken" ELSE wait[t]]
  /\ UNCHANGED <<block, contents, modifyingTx, disk>>

UnpinBuffer(i) ==
  /\ pins' = [pins EXCEPT ![i] = @ - 1]
  /\ \/ /\ pins'[i] > 0
        /\ UNCHANGED <<numAvailable, wait>>
     \/ /\ pins'[i] <= 0
        /\ numAvailable' = numAvailable + 1
        /\ wait' = [t \in Txs |-> IF wait[t] = "asleep" THEN "woken" ELSE wait[t]]
  /\ UNCHANGED <<block, contents, modifyingTx, disk>>

unpin(t, b) ==
  /\ pc[t] = "idle"
  /\ myBuffers[t][b] # 0
  /\ UnpinBuffer(myBuffers[t][b])
  /\ myPins' = [myPins EXCEPT ![t][b] = @ - 1]
  /\ myBuffers' = [myBuffers EXCEPT ![t][b] = IF myPins'[t][b] = 0 THEN 0 ELSE @]
  /\ UNCHANGED <<pc, want, elapsed>>

\* Mutant: unpin_all skips a buffer that somebody else has pinned as well.
UnpinNextIfMine(t, b) ==
  /\ pc[t] = "unpin_all"
  /\ myPins[t][b] > 0
  /\ pins[myBuffers[t][b]] = 1
  /\ UnpinBuffer(myBuffers[t][b])
  /\ myPins' = [myPins EXCEPT ![t][b] = @ - 1]
  /\ UNCHANGED <<myBuffers, pc, want, elapsed>>

(* unpin_all gives the pins back one critical section at a time; the lists *)
(* are cleared at the end.  (Nobody sees the order of mPins.)              *)
StartUnpinAll(t) ==
  /\ pc[t] = "idle"
  /\ pc' = [pc EXCEPT ![t] = "unpin_all"]
  /\ UNCHANGED <<pool, lists, want, wait, elapsed>>

UnpinNext(t, b) ==
  /\ pc[t] = "unpin_all"
  /\ myPins[t][b] > 0
  /\ UnpinBuffer(myBuffers[t][b])
  /\ myPins' = [myPins EXCEPT ![t][b] = @ - 1]
  /\ UNCHANGED <<myBuffers, pc, want, elapsed>>

EndUnpinAll(t) ==
  /\ pc[t] = "unpin_all"
  /\ \A b \in Blocks : myPins[t][b] = 0
  /\ myBuffers' = [myBuffers EXCEPT ![t] = [b \in Blocks |-> 0]]
  /\ pc' = [pc EXCEPT ![t] = "idle"]
  /\ UNCHANGED <<pool, myPins, want, wait, elapsed>>

unpin_all(t) == (\E b \in Blocks : UnpinNext(t, b)) \/ EndUnpinAll(t)

-----------------------------------------------------------------------------
(* A transaction that has a block pinned, and by two-phase locking alone   *)
(* has it exclusively, writes to its page and calls buffer::set_modified.  *)
set_modified(t, b) ==
  LET i == myBuffers[t][b] IN
  /\ pc[t] = "idle"
  /\ i # 0
  /\ modifyingTx[i] \in {None, t}
  /\ contents' = [contents EXCEPT ![i].bit = 1 - @]
  /\ modifyingTx' = [modifyingTx EXCEPT ![i] = t]
  /\ UNCHANGED <<block, pins, numAvailable, disk, lists, thread>>

(* flush_all at commit and rollback: one critical section.                 *)
flush_all(t) ==
  LET mine == {i \in Buffs : modifyingTx[i] = t} IN
  /\ pc[t] = "idle"
  /\ mine # {}
  /\ disk' = [b \in Blocks |-> IF \E i \in mine : block[i] = b
                               THEN contents[CHOOSE i \in mine : block[i] = b]
                               ELSE disk[b]]
  /\ modifyingTx' = [i \in Buffs |-> IF i \in mine THEN None ELSE modifyingTx[i]]
  /\ UNCHANGED <<block, contents, pins, numAvailable, lists, thread>>

-----------------------------------------------------------------------------
(* The clock and the condition variable, as in LockTable.                  *)

TimePasses(t) ==
  /\ wait[t] # "no"
  /\ elapsed[t] # "over"
  /\ elapsed' = [elapsed EXCEPT ![t] = IF @ = "under" THEN "limit" ELSE "over"]
  /\ UNCHANGED <<pool, lists, pc, want, wait>>

WaitTimesOut(t) ==
  /\ wait[t] = "asleep"
  /\ elapsed[t] # "under"
  /\ wait' = [wait EXCEPT ![t] = "woken"]
  /\ UNCHANGED <<pool, lists, pc, want, elapsed>>

SpuriousWakeup(t) ==
  /\ wait[t] = "asleep"
  /\ wait' = [wait EXCEPT ![t] = "woken"]
  /\ UNCHANGED <<pool, lists, pc, want, elapsed>>

-----------------------------------------------------------------------------
Next == \E t \in Txs :
  \/ \E b \in Blocks : CallPin(t, b) \/ unpin(t, b) \/ set_modified(t, b)
  \/ pin(t)
  \/ StartUnpinAll(t)
  \/ unpin_all(t)
  \/ flush_all(t)
  \/ TimePasses(t)
  \/ WaitTimesOut(t)
  \/ SpuriousWakeup(t)

Spec == Init /\ [][Next]_vars

Fairness == \A t \in Txs : /\ WF_vars(pin(t))
                           /\ WF_vars(unpin_all(t))
                           /\ WF_vars(TimePasses(t))
                           /\ WF_vars(WaitTimesOut(t))

FairSpec == Spec /\ Fairness

-----------------------------------------------------------------------------
(* Types; only a thread inside pin wants a block, and only such a thread   *)
(* waits.                                                                  *)
TypeOK ==
  /\ block \in [Buffs -> Blocks \cup {None}]
  /\ contents \in [Buffs -> AllData]
  /\ pins \in [Buffs -> Nat]
  /\ modifyingTx \in [Buffs -> Txs \cup {None}]
  /\ numAvailable \in 0 .. NumBuffs
  /\ disk \in [Blocks -> AllData]
  /\ myBuffers \in [Txs -> [Blocks -> Buffs \cup {0}]]
  /\ myPins \in [Txs -> [Blocks -> 0 .. MaxPins]]
  /\ pc \in [Txs -> {"idle", "pin", "unpin_all"}]
  /\ want \in [Txs -> Blocks \cup {None}]
  /\ wait \in [Txs -> {"no", "asleep", "woken"}]
  /\ elapsed \in [Txs -> {"under", "limit", "over"}]
  /\ \A t \in Txs : /\ pc[t] = "pin" <=> want[t] \in Blocks
                    /\ wait[t] # "no" => pc[t] = "pin"

(* mNumAvailable is "the number of unpinned buffers", as the comment at    *)
(* its declaration says, whatever order pins and unpins come in.           *)
AvailableCount == numAvailable = Cardinality({i \in Buffs : ~is_pinned(i)})

(* No block is ever in two buffers, so no modification can be made in one  *)
(* copy and missed in the other.                                           *)
OneBufferPerBlock ==
  \A i, j \in Buffs : block[i] = block[j] /\ block[i] # None => i = j

(* The pins the transactions know of: one element per entry of an mPins.   *)
Refs(i) == {r \in Txs \X Blocks \X (1 .. MaxPins) :
              /\ myBuffers[r[1]][r[2]] = i
              /\ r[3] <= myPins[r[1]][r[2]]}

(* The pins counted in the pool are the pins in the transactions' lists:   *)
(* none is leaked and none is given back twice.                            *)
PinsAccounted == \A i \in Buffs : pins[i] = Cardinality(Refs(i))

(* A buffer a transaction has pinned for a block stays with that block: it *)
(* is never handed to another block under the transaction's feet.          *)
PinnedBufferStays ==
  \A t \in Txs, b \in Blocks :
    myPins[t][b] > 0 => /\ myBuffers[t][b] # 0
                        /\ block[myBuffers[t][b]] = b

(* A buffer shows the data of the block it is labelled with, and a clean   *)
(* one shows what the file holds.  (A read that throws breaks this: the    *)
(* label is set before the read.)                                          *)
Coherent ==
  ~ReadsMayFail => \A i \in Buffs :
    /\ block[i] # None => contents[i].of = block[i]
    /\ modifyingTx[i] # None => block[i] # None
    /\ block[i] # None /\ modifyingTx[i] = None => contents[i] = disk[block[i]]

(* What a transaction that pins the block now will see in it.              *)
Shown(b) == IF Buffered(b) THEN {contents[i] : i \in {j \in Buffs : block[j] = b}}
                           ELSE {disk[b]}

(* Flushing a block, taking its buffer away and reading it back later are  *)
(* invisible: only set_modified on the block changes what will be seen, so *)
(* no modification is lost and none comes back.                            *)
NoLostModification ==
  [][~ReadsMayFail => \A b \in Blocks :
       Shown(b)' # Shown(b) => \E t \in Txs : set_modified(t, b)]_vars

(* Every pin call returns, with a buffer or with the abort exception.      *)
PinReturns == \A t \in Txs : pc[t] = "pin" ~> pc[t] = "idle"

(* unpin_all always gets to its end.                                       *)
UnpinAllEnds == \A t \in Txs : pc[t] = "unpin_all" ~> pc[t] = "idle"

(* The comment in pin describes a loop that waits "while buffer is null",  *)
(* so an abort would mean that there was still no buffer to be had when it *)
(* was thrown.  The code never looks again, and aborts with buffers free.  *)
AbortMeansExhausted ==
  [][\A t \in Txs : PinRechecks(t) /\ pc'[t] = "idle"
                      => Exhausted /\ ~Buffered(want[t])]_vars
=============================================================================
