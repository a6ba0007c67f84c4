------------------------------ MODULE MCAccount -------------------------------
(***************************************************************************)
(* Instances for TLC of what several terminals, agents and worker threads  *)
(* change at once: the Developer API login, what the native agent          *)
(* remembers of conversations, and the app's screens.  They share no       *)
(* state, so a behaviour moves one of them, which the initial state        *)
(* chooses, and the others rest in one initial state each.                 *)
(***************************************************************************)
EXTENDS TokenRefresh, MCAttribution, RouterScreens

VARIABLE subject   \* the part of the system that moves

Symmetry == Permutations(Procs) \cup AlikeDirs

accountVars == <<vars, attrVars, allVars, subject>>

\* A conversation is followed as long as ContinuesTruly says something of it.
Followed == ~unseen /\ ~takenBack

\* The bounds end the conversations.
Quiet ==
  /\ subject = "talk"
  /\ Followed => /\ said = MaxSaid /\ requests = MaxRequests
                 /\ \A c \in Clients : arrived[c] = NoRequest

AccountInit ==
  /\ subject \in {"token", "talk", "screens"}
  /\ Init
  /\ AttrInit /\ (subject # "talk" => \A c \in Clients : talks[c].top = Nowhere)
  /\ ScreensInit

AccountNext ==
  \/ subject = "token" /\ UNCHANGED <<attrVars, allVars, subject>> /\ Next
  \/ subject = "talk" /\ UNCHANGED <<vars, allVars, subject>> /\ Followed /\ AttrNext
  \/ subject = "screens" /\ UNCHANGED <<vars, attrVars, subject>> /\ ScreensNext
  \/ Quiet /\ UNCHANGED accountVars

AccountSpec == AccountInit /\ [][AccountNext]_accountVars

=============================================================================
