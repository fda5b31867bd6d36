-------------------------------- MODULE TxSpec --------------------------------
(***************************************************************************)
(* What transactions promise: the writes of a transaction reach the        *)
(* database together, at its commit, or not at all, and a crash forgets    *)
(* the transactions in progress and nothing else.                          *)
(***************************************************************************)
CONSTANTS Slots, Blocks, Values, NoVal

VARIABLES db,       \* the committed value of each block
          writes    \* writes[s][b]: what the transaction in s wrote to b

vars == <<db, writes>>

Nothing == [b \in Blocks |-> NoVal]

Init == /\ db \in [Blocks -> Values]
        /\ writes = [s \in Slots |-> Nothing]

(* A block is written by one transaction at a time.                        *)
Write(s, b, v) ==
  /\ \A u \in Slots \ {s} : writes[u][b] = NoVal
  /\ writes' = [writes EXCEPT ![s][b] = v]
  /\ UNCHANGED db

(* Several transactions may commit at once (one write of the log may save  *)
(* the commit records of all of them).                                     *)
Commit(S) ==
  /\ db' = [b \in Blocks |-> IF \E s \in S : writes[s][b] # NoVal
                             THEN writes[CHOOSE s \in S : writes[s][b] # NoVal][b]
                             ELSE db[b]]
  /\ writes' = [s \in Slots |-> IF s \in S THEN Nothing ELSE writes[s]]

Abort(s) ==
  /\ writes' = [writes EXCEPT ![s] = Nothing]
  /\ UNCHANGED db

Crash ==
  /\ writes' = [s \in Slots |-> Nothing]
  /\ UNCHANGED db

Next ==
  \/ \E s \in Slots, b \in Blocks, v \in Values : Write(s, b, v)
  \/ \E S \in SUBSET Slots : Commit(S)
  \/ \E s \in Slots : Abort(s)
  \/ Crash

Spec == Init /\ [][Next]_vars
=============================================================================
