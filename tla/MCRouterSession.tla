-------------------------- MODULE MCRouterSession --------------------------
(* Instances of RouterSession for TLC: two processes sharing one login.    *)
(* What the processes are called for, and how many sign-ins there are, the *)
(* initial state chooses: everything at once is out of TLC's reach.        *)
EXTENDS RouterSession

VARIABLE subject   \* "logins": signing in and out; "reads": reads and writes

sessionVars == <<vars, subject>>

CalledFor ==
  IF subject = "logins" THEN {"plain", "login", "logout"}
                        ELSE {"read", "write", "passive", "retry"}

\* The reads are of one sign-in, the one a recovery makes.
Approved == IF subject = "logins" THEN Grants ELSE {CHOOSE g \in Grants : TRUE}

SessionInit == Init /\ subject \in {"logins", "reads"}

SessionNext ==
  /\ Next
  /\ \A c \in Clients : pc[c] = "idle" /\ pc'[c] # "idle" => mode'[c] \in CalledFor
  /\ \A g \in Grants : cur'[g] # 0 => g \in Approved
  /\ UNCHANGED subject

SessionSpec == SessionInit /\ [][SessionNext]_sessionVars /\ Fairness
=============================================================================
