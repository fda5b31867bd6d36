------------------------------ MODULE LockSpec ------------------------------
(***************************************************************************)
(* What the lock table and the concurrency managers promise together:      *)
(* shared and exclusive block locks taken under strict two-phase locking.  *)
(* A transaction acquires locks one at a time while it grows; once it      *)
(* starts giving them back it acquires nothing more until all are gone.    *)
(* Nothing is said here of waiting, of counters or of time.                *)
(***************************************************************************)
CONSTANTS Txs,      \* transactions (one slot per connection)
          Blocks    \* lockable blocks

VARIABLES mode,     \* mode[t][b]: the lock t has on b
          phase     \* phase[t]: "growing" or "shrinking"

vars == <<mode, phase>>

Modes == {"none", "S", "X"}

TypeOK == /\ mode \in [Txs -> [Blocks -> Modes]]
          /\ phase \in [Txs -> {"growing", "shrinking"}]

Init == /\ mode = [t \in Txs |-> [b \in Blocks |-> "none"]]
        /\ phase = [t \in Txs |-> "growing"]

(* A shared lock is compatible with other shared locks only.               *)
AcquireS(t, b) ==
  /\ phase[t] = "growing"
  /\ mode[t][b] = "none"
  /\ \A u \in Txs : mode[u][b] # "X"
  /\ mode' = [mode EXCEPT ![t][b] = "S"]
  /\ UNCHANGED phase

(* An exclusive lock is an upgrade of the only shared lock on the block.   *)
UpgradeX(t, b) ==
  /\ phase[t] = "growing"
  /\ mode[t][b] = "S"
  /\ \A u \in Txs \ {t} : mode[u][b] = "none"
  /\ mode' = [mode EXCEPT ![t][b] = "X"]
  /\ UNCHANGED phase

StartRelease(t) ==
  /\ phase[t] = "growing"
  /\ phase' = [phase EXCEPT ![t] = "shrinking"]
  /\ UNCHANGED mode

Release(t, b) ==
  /\ phase[t] = "shrinking"
  /\ mode[t][b] # "none"
  /\ mode' = [mode EXCEPT ![t][b] = "none"]
  /\ UNCHANGED phase

EndRelease(t) ==
  /\ phase[t] = "shrinking"
  /\ \A b \in Blocks : mode[t][b] = "none"
  /\ phase' = [phase EXCEPT ![t] = "growing"]
  /\ UNCHANGED mode

Next == \E t \in Txs :
          \/ StartRelease(t)
          \/ EndRelease(t)
          \/ \E b \in Blocks : AcquireS(t, b) \/ UpgradeX(t, b) \/ Release(t, b)

Spec == Init /\ [][Next]_vars
=============================================================================
