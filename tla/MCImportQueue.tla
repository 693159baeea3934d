--------------------------- MODULE MCImportQueue ---------------------------
(* Instances of ImportQueue for TLC.                                       *)
EXTENDS ImportQueue, TLC

Symmetry == Permutations(Workers) \cup Permutations(Batches) \cup Permutations(Keys)

=============================================================================
