------------------------------ MODULE LockTable ------------------------------
(***************************************************************************)
(* lock_table (one per process, guarded by one mutex and one condition     *)
(* variable) and the concurrency_manager each transaction owns.            *)
(*                                                                         *)
(* Every action below is one critical section of lock_table::mMutex or one *)
(* step of the thread that owns a concurrency_manager.  A condition wait   *)
(* is three states: "no" (running), "asleep" (inside wait_for) and "woken" *)
(* (wait_for has returned, the loop condition is about to be evaluated).   *)
(***************************************************************************)
EXTENDS Integers, FiniteSets

CONSTANTS Txs,      \* transactions; each runs in a thread of its own
          Blocks    \* lockable blocks, numbered in the order of block_id

ASSUME LockAssumption == IsFiniteSet(Txs) /\ Blocks \subseteq Nat

VARIABLES
  lockVal,   \* lock_table::mLocks: 0 absent, n > 0 shared by n, -1 exclusive
  held,      \* concurrency_manager::mLocks of each transaction
  pc,        \* where each thread is: "idle" is code outside the lock code
  req,       \* the lock being asked for
  wait,      \* the thread's state in mCondVar.wait_for
  elapsed,   \* time since `start`, compared with mMaxTime
  toUnlock   \* the locks release() has yet to give back

vars == <<lockVal, held, pc, req, wait, elapsed, toUnlock>>

NoReq == [blk |-> -1, mode |-> "none"]
NoLocks == [b \in Blocks |-> "none"]

Init ==
  /\ lockVal = [b \in Blocks |-> 0]
  /\ held = [t \in Txs |-> NoLocks]
  /\ pc = [t \in Txs |-> "idle"]
  /\ req = [t \in Txs |-> NoReq]
  /\ wait = [t \in Txs |-> "no"]
  /\ elapsed = [t \in Txs |-> "under"]
  /\ toUnlock = [t \in Txs |-> {}]

\* Mutants: the tests of lock_table with their bounds off.
misses_xlock(b) == lockVal[b] < -1
misses_second_slock(b) == lockVal[b] > 2
counts_own_slock(b) == lockVal[b] > 0
never_too_long(t) == FALSE

has_xlock(b) == lockVal[b] < 0
has_other_slocks(b) == lockVal[b] > 1

(* The test is `elapsed > mMaxTime` on whole milliseconds: a wait that     *)
(* ends exactly at the limit goes round the loop again.                    *)
waiting_too_long(t) == elapsed[t] = "over"

-----------------------------------------------------------------------------
(* concurrency_manager::slock and xlock, up to the call into the table.    *)
(* A lock already held in a sufficient mode is not asked for again.        *)

CallSLock(t, b) ==
  /\ pc[t] = "idle"
  /\ held[t][b] = "none"
  /\ pc' = [pc EXCEPT ![t] = "slock"]
  /\ req' = [req EXCEPT ![t] = [blk |-> b, mode |-> "S"]]
  /\ UNCHANGED <<lockVal, held, wait, elapsed, toUnlock>>

CallXLock(t, b) ==
  /\ pc[t] = "idle"
  /\ held[t][b] # "X"
  /\ pc' = [pc EXCEPT ![t] = IF held[t][b] = "none" THEN "slock" ELSE "xlock"]
  /\ req' = [req EXCEPT ![t] = [blk |-> b, mode |-> "X"]]
  /\ UNCHANGED <<lockVal, held, wait, elapsed, toUnlock>>

-----------------------------------------------------------------------------
(* The three ways out of a critical section of slock and xlock.            *)

CanCheck(t, f) == pc[t] = f /\ wait[t] # "asleep"

Sleep(t) ==
  /\ ~waiting_too_long(t)
  /\ wait' = [wait EXCEPT ![t] = "asleep"]
  /\ UNCHANGED <<lockVal, held, pc, req, elapsed, toUnlock>>

\* Mutant: the exception leaves the thread among the waiters.
ThrowStaysQueued(t) ==
  /\ waiting_too_long(t)
  /\ pc' = [pc EXCEPT ![t] = "idle"]
  /\ req' = [req EXCEPT ![t] = NoReq]
  /\ UNCHANGED <<lockVal, held, wait, elapsed, toUnlock>>

(* throw std::runtime_error("lock abort exception"): the call ends, what   *)
(* was granted before it, the shared lock of an upgrade included, stays.   *)
Throw(t) ==
  /\ waiting_too_long(t)
  /\ pc' = [pc EXCEPT ![t] = "idle"]
  /\ req' = [req EXCEPT ![t] = NoReq]
  /\ wait' = [wait EXCEPT ![t] = "no"]
  /\ elapsed' = [elapsed EXCEPT ![t] = "under"]
  /\ UNCHANGED <<lockVal, held, toUnlock>>

Grant(t, val, m, next) ==
  /\ lockVal' = [lockVal EXCEPT ![req[t].blk] = val]
  /\ held' = [held EXCEPT ![t][req[t].blk] = m]
  /\ pc' = [pc EXCEPT ![t] = next]
  /\ req' = [req EXCEPT ![t] = IF next = "idle" THEN NoReq ELSE @]
  /\ wait' = [wait EXCEPT ![t] = "no"]
  /\ elapsed' = [elapsed EXCEPT ![t] = "under"]
  /\ UNCHANGED toUnlock

(* lock_table::slock and the mLocks[pBlockId] = "S" that follows it; when  *)
(* xlock made the call, the thread goes on to lock_table::xlock.           *)
slock(t) ==
  /\ CanCheck(t, "slock")
  /\ \/ /\ ~has_xlock(req[t].blk)
        /\ Grant(t, lockVal[req[t].blk] + 1, "S",
                 IF req[t].mode = "X" THEN "xlock" ELSE "idle")
     \/ /\ has_xlock(req[t].blk)
        /\ Sleep(t) \/ Throw(t)

(* lock_table::xlock and the mLocks[pBlockId] = "X" that follows it.       *)
xlock(t) ==
  /\ CanCheck(t, "xlock")
  /\ \/ /\ ~has_other_slocks(req[t].blk)
        /\ Grant(t, -1, "X", "idle")
     \/ /\ has_other_slocks(req[t].blk)
        /\ Sleep(t) \/ Throw(t)

-----------------------------------------------------------------------------
(* concurrency_manager::release: unlock the blocks in map order, one       *)
(* critical section each, then mLocks.clear().                             *)

StartRelease(t) ==
  /\ pc[t] = "idle"
  /\ pc' = [pc EXCEPT ![t] = "release"]
  /\ toUnlock' = [toUnlock EXCEPT ![t] = {b \in Blocks : held[t][b] # "none"}]
  /\ UNCHANGED <<lockVal, held, req, wait, elapsed>>

\* Mutant: unlock wakes nobody.
notify_none == UNCHANGED wait

notify_all == wait' = [t \in Txs |-> IF wait[t] = "asleep" THEN "woken" ELSE wait[t]]

\* Mutant: unlock erases the entry, whoever else shares the block.
unlock_erases(t, b) ==
  /\ pc[t] = "release"
  /\ b \in toUnlock[t]
  /\ toUnlock' = [toUnlock EXCEPT ![t] = @ \ {b}]
  /\ lockVal' = [lockVal EXCEPT ![b] = 0]
  /\ notify_all
  /\ UNCHANGED <<held, pc, req, elapsed>>

\* Mutant: unlock forgets the case of a block that others share.
unlock_last_only(t, b) ==
  /\ pc[t] = "release"
  /\ b \in toUnlock[t]
  /\ lockVal[b] <= 1
  /\ toUnlock' = [toUnlock EXCEPT ![t] = @ \ {b}]
  /\ lockVal' = [lockVal EXCEPT ![b] = 0]
  /\ notify_all
  /\ UNCHANGED <<held, pc, req, elapsed>>

(* lock_table::unlock: a shared lock given back while others remain        *)
(* notifies nobody.                                                        *)
unlock(t, b) ==
  /\ pc[t] = "release"
  /\ b \in toUnlock[t]
  /\ \A c \in toUnlock[t] : b <= c
  /\ toUnlock' = [toUnlock EXCEPT ![t] = @ \ {b}]
  /\ \/ /\ lockVal[b] > 1
        /\ lockVal' = [lockVal EXCEPT ![b] = @ - 1]
        /\ UNCHANGED wait
     \/ /\ lockVal[b] <= 1
        /\ lockVal' = [lockVal EXCEPT ![b] = 0]
        /\ notify_all
  /\ UNCHANGED <<held, pc, req, elapsed>>

(* mLocks.clear(); the connection's next transaction starts with no lock.  *)
EndRelease(t) ==
  /\ pc[t] = "release"
  /\ toUnlock[t] = {}
  /\ held' = [held EXCEPT ![t] = NoLocks]
  /\ pc' = [pc EXCEPT ![t] = "idle"]
  /\ UNCHANGED <<lockVal, req, wait, elapsed, toUnlock>>

-----------------------------------------------------------------------------
(* The clock and the condition variable.                                   *)

TimePasses(t) ==
  /\ wait[t] # "no"
  /\ elapsed[t] # "over"
  /\ elapsed' = [elapsed EXCEPT ![t] = IF @ = "under" THEN "limit" ELSE "over"]
  /\ UNCHANGED <<lockVal, held, pc, req, wait, toUnlock>>

(* wait_for returns because its time is up.                                *)
WaitTimesOut(t) ==
  /\ wait[t] = "asleep"
  /\ elapsed[t] # "under"
  /\ wait' = [wait EXCEPT ![t] = "woken"]
  /\ UNCHANGED <<lockVal, held, pc, req, elapsed, toUnlock>>

(* wait_for may return for no reason at all.                               *)
SpuriousWakeup(t) ==
  /\ wait[t] = "asleep"
  /\ wait' = [wait EXCEPT ![t] = "woken"]
  /\ UNCHANGED <<lockVal, held, pc, req, elapsed, toUnlock>>

-----------------------------------------------------------------------------
Step(t) == slock(t) \/ xlock(t)
Release(t) == (\E b \in Blocks : unlock(t, b)) \/ EndRelease(t)

Next == \E t \in Txs :
  \/ \E b \in Blocks : CallSLock(t, b) \/ CallXLock(t, b)
  \/ Step(t)
  \/ StartRelease(t)
  \/ Release(t)
  \/ TimePasses(t)
  \/ WaitTimesOut(t)
  \/ SpuriousWakeup(t)

Spec == Init /\ [][Next]_vars

(* A thread that can run does run, the clock advances and a timed wait     *)
(* ends; nothing forces a client to ask for a lock or to finish, and       *)
(* nothing promises a spurious wake-up.                                    *)
Fairness == \A t \in Txs : /\ WF_vars(Step(t))
                           /\ WF_vars(Release(t))
                           /\ WF_vars(TimePasses(t))
                           /\ WF_vars(WaitTimesOut(t))

FairSpec == Spec /\ Fairness

-----------------------------------------------------------------------------
Modes == {"none", "S", "X"}

(* The lock t still has on b: what mLocks says, less what release() has    *)
(* already given back.                                                     *)
Lock(t, b) == IF pc[t] = "release" /\ b \notin toUnlock[t] THEN "none" ELSE held[t][b]

Holders(b) == {t \in Txs : Lock(t, b) # "none"}

Locks == [t \in Txs |-> [b \in Blocks |-> Lock(t, b)]]
Phases == [t \in Txs |-> IF pc[t] = "release" THEN "shrinking" ELSE "growing"]

(* Types; a thread inside a lock call has a block to lock, and only such a *)
(* thread waits.                                                           *)
TypeOK ==
  /\ lockVal \in [Blocks -> Int]
  /\ held \in [Txs -> [Blocks -> Modes]]
  /\ pc \in [Txs -> {"idle", "slock", "xlock", "release"}]
  /\ req \in [Txs -> [blk : Blocks \cup {-1}, mode : Modes]]
  /\ wait \in [Txs -> {"no", "asleep", "woken"}]
  /\ elapsed \in [Txs -> {"under", "limit", "over"}]
  /\ toUnlock \in [Txs -> SUBSET Blocks]
  /\ \A t \in Txs : /\ pc[t] \in {"slock", "xlock"} <=> req[t].blk \in Blocks
                    /\ wait[t] # "no" => pc[t] \in {"slock", "xlock"}

(* The one number the table keeps per block is what the managers, each     *)
(* updated apart from it, add up to: -1 for one exclusive holder, else the *)
(* number of sharers (locktable.cpp 14-15, 27, 30-39).                     *)
TableMatchesHolders ==
  \A b \in Blocks :
    lockVal[b] = IF \E t \in Txs : Lock(t, b) = "X" THEN -1 ELSE Cardinality(Holders(b))

(* A block locked exclusively is locked by nobody else, through upgrades,  *)
(* aborted upgrades and half-finished releases.                            *)
Exclusion ==
  \A b \in Blocks, t, u \in Txs :
    t # u /\ Lock(t, b) = "X" => Lock(u, b) = "none"

(* A shared request asleep in wait_for is really blocked: unlock never     *)
(* loses its wake-up.  (For an upgrade it does: see the README.)           *)
SharedWaiterBlocked ==
  \A t \in Txs : pc[t] = "slock" /\ wait[t] = "asleep" => has_xlock(req[t].blk)

(* A lock abort names a rival: slock throws only if another transaction    *)
(* has the block exclusively, xlock only if another one shares it.  A      *)
(* transaction is never aborted by its own locks.                          *)
Rival(t, mode) == \E u \in Txs \ {t} : Lock(u, req[t].blk) = mode
AbortHasRival ==
  [][\A t \in Txs : pc'[t] = "idle" /\ held'[t] = held[t] =>
       /\ pc[t] = "slock" => Rival(t, "X")
       /\ pc[t] = "xlock" => Rival(t, "S")]_vars

(* Every lock request returns, granted or with the abort exception, even   *)
(* when transactions wait for each other in a circle or a wake-up is lost. *)
RequestReturns ==
  \A t \in Txs : pc[t] \in {"slock", "xlock"} ~> pc[t] = "idle"

(* commit and rollback get all their locks back to the table.              *)
ReleaseEnds == \A t \in Txs : pc[t] = "release" ~> pc[t] = "idle"

-----------------------------------------------------------------------------
(* The locks, seen without counters, waits and time.                       *)
Abstract == INSTANCE LockSpec WITH mode <- Locks, phase <- Phases

(* The lock table and the concurrency managers implement strict two-phase  *)
(* locking with shared and exclusive modes.                                *)
StrictTwoPhase == Abstract!Spec
=============================================================================
