------------------------------- MODULE LogSpec -------------------------------
(***************************************************************************)
(* What the log manager promises: one sequence of records that only grows, *)
(* of which a prefix is on the file.  What a flush has promised never goes *)
(* beyond that prefix, and a crash loses nothing but the rest.             *)
(***************************************************************************)
EXTENDS Naturals, Sequences

CONSTANT Recs     \* log records

VARIABLES log,       \* all the records, oldest first
          onFile,    \* how many of them the file has
          promised   \* how many of them a flush has said are safe

vars == <<log, onFile, promised>>

Init == log = <<>> /\ onFile = 0 /\ promised = 0

AppendRecord(r) ==
  /\ log' = Append(log, r)
  /\ UNCHANGED <<onFile, promised>>

Write ==
  /\ onFile' \in onFile .. Len(log)
  /\ UNCHANGED <<log, promised>>

Promise ==
  /\ promised' \in promised .. onFile
  /\ UNCHANGED <<log, onFile>>

Crash ==
  /\ log' = SubSeq(log, 1, onFile)
  /\ promised' = onFile
  /\ UNCHANGED onFile

Next == (\E r \in Recs : AppendRecord(r)) \/ Write \/ Promise \/ Crash

Spec == Init /\ [][Next]_vars
=============================================================================
