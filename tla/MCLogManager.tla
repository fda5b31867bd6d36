---------------------------- MODULE MCLogManager ----------------------------
(* Small instances of LogManager for TLC.                                  *)
EXTENDS LogManager

CONSTANTS t1, t2

OneThread == {t1}
TwoThreads == {t1, t2}

\* A record of one int and one of three: two small ones fill a block of 20.
SmallAndLarge == {4, 12}
Small == {4}

EveryLabel == Labels \cup {"down", "grown", "up"}
=============================================================================
