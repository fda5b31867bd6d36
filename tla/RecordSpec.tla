------------------------------ MODULE RecordSpec ------------------------------
(***************************************************************************)
(* What a file of records promises to transactions that share it: a record *)
(* is changed by one transaction at a time, a commit makes the changes of  *)
(* its transaction permanent together, and a rollback gives every record   *)
(* the transaction touched its committed value again, those it added       *)
(* disappearing and those it removed coming back.                          *)
(***************************************************************************)
CONSTANTS Txs, Rids, Vals, Absent

VARIABLES base,      \* the committed records: a value or Absent for each rid
          work,      \* the records as they are now
          touched,   \* the rids each transaction has changed
          aborting   \* the transactions that are rolling back

vars == <<base, work, touched, aborting>>

Init == /\ base \in [Rids -> Vals \cup {Absent}]
        /\ work = base
        /\ touched = [t \in Txs |-> {}]
        /\ aborting = {}

(* Insert, modify or remove one record.  A rollback may pass through older *)
(* values of a record before it reaches the committed one.                 *)
Change(t, r) ==
  /\ touched' = [touched EXCEPT ![t] = @ \cup {r}]
  /\ \A u \in Txs \ {t} : r \notin touched[u]
  /\ UNCHANGED aborting
  /\ \E v \in Vals \cup {Absent} : work' = [work EXCEPT ![r] = v]
  /\ UNCHANGED base

Restore(t, r) ==
  /\ t \in aborting /\ r \in touched[t]
  /\ touched' = [touched EXCEPT ![t] = @ \ {r}]
  /\ work' = [work EXCEPT ![r] = base[r]]
  /\ UNCHANGED <<base, aborting>>

Commit(t) ==
  /\ t \notin aborting
  /\ touched' = [touched EXCEPT ![t] = {}]
  /\ base' = [r \in Rids |-> IF r \in touched[t] THEN work[r] ELSE base[r]]
  /\ UNCHANGED <<work, aborting>>

StartAbort(t) ==
  /\ aborting' = aborting \cup {t}
  /\ UNCHANGED <<base, work, touched>>

EndAbort(t) ==
  /\ t \in aborting /\ touched[t] = {}
  /\ aborting' = aborting \ {t}
  /\ UNCHANGED <<base, work, touched>>

Next ==
  \E t \in Txs : \/ Commit(t) \/ StartAbort(t) \/ EndAbort(t)
                 \/ \E r \in Rids : Change(t, r) \/ Restore(t, r)

Spec == Init /\ [][Next]_vars
=============================================================================
