------------------------------ MODULE MCTimer ------------------------------
(* Instances of Timer for TLC.                                             *)
EXTENDS Timer

Symmetry == Permutations(Handler) \cup Permutations(Process)
=============================================================================
