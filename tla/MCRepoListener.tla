--------------------------- MODULE MCRepoListener ---------------------------
(* Two commands at a time; they are interchangeable. *)
EXTENDS RepoListener, TLC

Symmetric == Permutations(Procs)
=============================================================================
