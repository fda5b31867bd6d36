----------------------------- MODULE MCLockTable -----------------------------
(* Small instances of LockTable for TLC.                                   *)
EXTENDS LockTable

CONSTANTS t1, t2

TwoTxs == {t1, t2}
TwoBlocks == {1, 2}
=============================================================================
