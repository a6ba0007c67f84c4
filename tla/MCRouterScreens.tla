--------------------------- MODULE MCRouterScreens ---------------------------
(* Instances of RouterScreens for TLC: Home and one other tab. *)
EXTENDS RouterScreens, TLC

Symmetry == Permutations(Threads)

=============================================================================
