----------------------------- MODULE MCTableScan -----------------------------
(* A small instance of TableScan for TLC.                                  *)
EXTENDS TableScan, TLC

MCInitFiles == {<<>>, <<{0}>>, <<{}, {1}>>}

MCSymmetry == Permutations(Txs) \cup Permutations(Scans)
=============================================================================
