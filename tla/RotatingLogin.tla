--------------------------- MODULE RotatingLogin ---------------------------
(***************************************************************************)
(* What the Router login promises, with no network, no lock and no pending *)
(* successor: the machine holds at most one credential, and a rotation     *)
(* changes that credential and the one the server accepts in one step, so  *)
(* what is held is always what is accepted.  A login once given up is      *)
(* never held again.                                                       *)
(***************************************************************************)
EXTENDS Naturals

CONSTANTS Grants, None

VARIABLES
  held,      \* the credential this machine holds, or None
  accepted,  \* per grant, the secret the server accepts; 0 before sign-in
  live,      \* grants the server accepts
  given      \* grants the machine held once and holds no more

vars == <<held, accepted, live, given>>

Init ==
  /\ held = None
  /\ accepted = [g \in Grants |-> 0]
  /\ live = {}
  /\ given = {}

GiveUp == IF held = None THEN given ELSE given \cup {held.grant}

Approve(g) ==
  /\ accepted[g] = 0
  /\ accepted'[g] \in Nat \ {0}
  /\ accepted' = [accepted EXCEPT ![g] = accepted'[g]]
  /\ live' = live \cup {g}
  /\ UNCHANGED <<held, given>>

SignIn(g) ==
  /\ accepted[g] # 0
  /\ g \notin given
  /\ held = None \/ held.grant # g
  /\ held' = [grant |-> g, secret |-> accepted[g]]
  /\ given' = GiveUp
  /\ UNCHANGED <<accepted, live>>

SignOut ==
  /\ held # None
  /\ held' = None
  /\ given' = GiveUp
  /\ UNCHANGED <<accepted, live>>

\* The promise: only the accepted credential rotates, and held follows at once.
Rotate ==
  /\ held # None
  /\ held.grant \in live
  /\ held.secret = accepted[held.grant]
  /\ accepted'[held.grant] \in Nat \ {held.secret}
  /\ accepted' = [accepted EXCEPT ![held.grant] = accepted'[held.grant]]
  /\ held' = [held EXCEPT !.secret = accepted'[held.grant]]
  /\ UNCHANGED <<live, given>>

\* A late request may still rotate a grant the machine has given up.
RotateGiven(g) ==
  /\ g \in given \cap live
  /\ accepted'[g] \in Nat \ {0}
  /\ accepted' = [accepted EXCEPT ![g] = accepted'[g]]
  /\ UNCHANGED <<held, live, given>>

End(g) ==
  /\ g \in live
  /\ live' = live \ {g}
  /\ UNCHANGED <<held, accepted, given>>

Next ==
  \/ \E g \in Grants : Approve(g) \/ SignIn(g) \/ RotateGiven(g) \/ End(g)
  \/ SignOut
  \/ Rotate

Spec == Init /\ [][Next]_vars
=============================================================================
