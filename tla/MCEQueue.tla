------------------------------ MODULE MCEQueue ------------------------------
(* eq_imp with the constants that the .cfg files give; adders are alike. *)
EXTENDS EQueue, TLC
Symmetry == Permutations(Adders)
=============================================================================
