------------------------------ MODULE MCTxSystem ------------------------------
(* Small instances of TxSystem for TLC.                                    *)
EXTENDS TxSystem, TLC

MCSymmetry == Permutations(Clients) \cup Permutations(Blocks)

(* A bound: the first process, which may die at once, uses one block.      *)
FirstBlock == CHOOSE b \in Blocks : TRUE
OneBlockAtFirst == crashes = 0 => \A s \in Clients : want[s] \in {None, FirstBlock}
=============================================================================
