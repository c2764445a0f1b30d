------------------------- MODULE MCInventoryLedger -------------------------
(* Documents that post to cells without a row.                            *)
EXTENDS InventoryLedger, TLC

Symmetry == Permutations(Txns) \cup Permutations(Cells)
=============================================================================
