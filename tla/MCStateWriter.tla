--------------------------- MODULE MCStateWriter ---------------------------
(* Small instance of StateWriter for TLC. *)
EXTENDS StateWriter, TLC

Symmetry == Permutations(Keys) \cup Permutations(Writers)

\* The sequence number of the process is bounded for TLC only.
SequenceBound == seq <= 6
=============================================================================
