---------------------------- MODULE MCTokenRefresh ----------------------------
(* Instances of TokenRefresh for TLC. *)
EXTENDS TokenRefresh, TLC

Symmetry == Permutations(Procs)

=============================================================================
