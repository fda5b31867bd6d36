--------------------------- MODULE MCBufferManager ---------------------------
(* Small instances of BufferManager for TLC.                               *)
EXTENDS BufferManager, TLC

CONSTANTS t1, t2, b1, b2, b3

TwoTxs == {t1, t2}
TwoBlocks == {b1, b2}
ThreeBlocks == {b1, b2, b3}

Symmetry == Permutations(Txs) \cup Permutations(Blocks)
=============================================================================
