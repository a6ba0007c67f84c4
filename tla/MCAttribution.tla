----------------------------- MODULE MCAttribution -----------------------------
(* Instances of Attribution for TLC: what was said before the agent started.    *)
EXTENDS Attribution, TLC

\* A tool call and its result; a change may give the result a directory.
Talks ==
  { << [kind |-> "user"], [kind |-> "user"],
       [kind |-> "call", id |-> << "before" >>, does |-> "run", dir |-> Nowhere],
       [kind |-> "result", id |-> << "before" >>, dir |-> Nowhere] >> }

\* Directories are alike.
AlikeDirs == Permutations(Dirs)

================================================================================
