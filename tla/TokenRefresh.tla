----------------------------- MODULE TokenRefresh ------------------------------
(***************************************************************************)
(* Silent refresh of the developer API's login (auth/refresh.py) by every  *)
(* process that finds its access token expiring, while persons sign in and *)
(* out of the same slot.                                                   *)
(*                                                                         *)
(* A slot is the credential of an environment, either of a profile         *)
(* (profiles.toml, updated under its lock and compared with the token the  *)
(* update is based on) or the default one (config.toml, loaded and saved   *)
(* whole, without a lock, by every command that keeps something there).  A *)
(* refresh token is the login it belongs to and its turn in that login's   *)
(* rotation; access tokens follow it.  Logins are numbered by slot.        *)
(***************************************************************************)
EXTENDS Naturals

CONSTANTS
  Procs,            \* processes of the CLI
  Profiles,         \* slots in profiles.toml
  Defaults,         \* slots in config.toml
  None,             \* no token, no lock holder
  Reentered,        \* bound: the slots persons sign in to again
  MaxLogins,        \* bound: sign-ins to a slot
  MaxTurns          \* bound: rotations of one login

Slots == Profiles \cup Defaults
Logins == 1..MaxLogins
Tokens == [login : Logins, turn : 0..MaxTurns]

ASSUME NoneAssumption == None \notin Procs \cup Slots \cup Tokens
ASSUME BoundAssumption == MaxLogins \in Nat \ {0} /\ MaxTurns \in Nat
ASSUME SlotAssumption == Profiles \cap Defaults = {}

VARIABLES
  slot,             \* the refresh token each slot stores
  lock,             \* holder of the slot's refresh lock
  issued,           \* sign-ins to each slot so far
  turn,             \* the turn the server accepts, by slot and login
  ended,            \* <<slot, login>> the server no longer honours
  pc, target,       \* what each process does, and to which slot
  expected,         \* the token it saw, then the one its update is based on
  intended,         \* what it writes to the slot
  draft,            \* the default slots as it loaded them
  latest,           \* the last login saved in each slot (history)
  signedOut,        \* slots a person signed out since (history)
  lost              \* logins whose newest token a fault destroyed (history)

procVars == <<pc, target, expected, intended, draft>>
serverVars == <<issued, turn, ended>>
history == <<latest, signedOut>>
vars == <<slot, lock, serverVars, procVars, history, lost>>

PCs == {"idle", "waiting", "posting", "updating", "storing"}

Init ==
  /\ slot = [s \in Slots |-> [login |-> 1, turn |-> 0]]
  /\ lock = [s \in Slots |-> None]
  /\ issued = [s \in Slots |-> 1]
  /\ turn = [s \in Slots |-> [l \in Logins |-> 0]]
  /\ ended = {}
  /\ pc = [p \in Procs |-> "idle"]
  /\ target = [p \in Procs |-> None]
  /\ expected = [p \in Procs |-> None]
  /\ intended = [p \in Procs |-> None]
  /\ draft = [p \in Procs |-> None]
  /\ latest = [s \in Slots |-> 1]
  /\ signedOut = {}
  /\ lost = {}

-----------------------------------------------------------------------------

Goto(p, place) == pc' = [pc EXCEPT ![p] = place]

\* The process is done with its slot; a lock it holds is released.
Leave(p) ==
  /\ pc' = [pc EXCEPT ![p] = "idle"]
  /\ target' = [target EXCEPT ![p] = None]
  /\ expected' = [expected EXCEPT ![p] = None]
  /\ intended' = [intended EXCEPT ![p] = None]
  /\ draft' = [draft EXCEPT ![p] = None]
  /\ lock' = [s \in Slots |-> IF lock[s] = p THEN None ELSE lock[s]]

Refreshing(p) == expected[p] # None

-----------------------------------------------------------------------------
(* try_refresh *)

\* The access token is expired or about to, or a request was answered 401.
Begin(p, s) ==
  /\ pc[p] = "idle"
  /\ slot[s] # None
  /\ Goto(p, "waiting")
  /\ target' = [target EXCEPT ![p] = s]
  /\ expected' = [expected EXCEPT ![p] = slot[s]]
  /\ UNCHANGED <<slot, lock, serverVars, intended, draft, history, lost>>

\* (mutant) the refresh lock excludes nobody
EnterUnlocked(p) ==
  /\ pc[p] = "waiting"
  /\ IF slot[target[p]] = expected[p]
     THEN /\ Goto(p, "posting")
          /\ lock' = [lock EXCEPT ![target[p]] = p]
          /\ UNCHANGED <<target, expected, intended, draft>>
     ELSE Leave(p)
  /\ UNCHANGED <<slot, serverVars, history, lost>>

\* Under the lock the tokens are read again: another process may have rotated
\* them meanwhile, or a person signed out.
Enter(p) ==
  /\ pc[p] = "waiting" /\ lock[target[p]] = None
  /\ IF slot[target[p]] = expected[p]
     THEN /\ Goto(p, "posting")
          /\ lock' = [lock EXCEPT ![target[p]] = p]
          /\ UNCHANGED <<target, expected, intended, draft>>
     ELSE Leave(p)
  /\ UNCHANGED <<slot, serverVars, history, lost>>

\* The server rotates the token, or has ended the login and sends no
\* replacement, and the answer arrives.
Rotate(p) ==
  LET s == target[p]
      l == expected[p].login
  IN  /\ pc[p] = "posting"
      /\ <<s, l>> \notin ended /\ expected[p].turn = turn[s][l]
      /\ \/ /\ turn[s][l] < MaxTurns
            /\ turn' = [turn EXCEPT ![s][l] = @ + 1]
            /\ intended' = [intended EXCEPT
                              ![p] = [login |-> l, turn |-> turn[s][l] + 1]]
            /\ UNCHANGED ended
         \/ /\ ended' = ended \cup {<<s, l>>}
            /\ UNCHANGED <<turn, intended>>
      /\ Goto(p, "updating")
      /\ UNCHANGED <<slot, lock, issued, target, expected, draft, history, lost>>

\* invalid_grant: the login has ended, or this token of it was used before.
\* The lock is released before the tokens are cleared.
Refuse(p) ==
  LET s == target[p]
      l == expected[p].login
  IN  /\ pc[p] = "posting"
      /\ <<s, l>> \in ended \/ expected[p].turn # turn[s][l]
      /\ Goto(p, "updating")
      /\ lock' = [lock EXCEPT ![s] = None]
      /\ UNCHANGED <<slot, serverVars, target, expected, intended, draft,
                     history, lost>>

\* The request fails without a verdict, before the server acts on it.
Fail(p) ==
  /\ pc[p] = "posting"
  /\ Leave(p)
  /\ UNCHANGED <<slot, serverVars, history, lost>>

-----------------------------------------------------------------------------
(* save_tokens and clear_tokens *)

\* What a person's command leaves in the slot.
Note(p) ==
  LET s == target[p]
  IN  IF Refreshing(p) \/ s = None THEN UNCHANGED history
      ELSE IF intended[p] = None
      THEN signedOut' = signedOut \cup {s} /\ UNCHANGED latest
      ELSE /\ signedOut' = signedOut \ {s}
           /\ latest' = [latest EXCEPT ![s] = intended[p].login]

\* (mutant) the rotated token is saved over whatever the slot holds by now
UpdateAnyway(p) ==
  /\ pc[p] = "updating" /\ target[p] \in Profiles
  /\ slot' = IF slot[target[p]] = expected[p] \/ intended[p] # None
                  \/ ~Refreshing(p)
             THEN [slot EXCEPT ![target[p]] = intended[p]] ELSE slot
  /\ Note(p)
  /\ Leave(p)
  /\ UNCHANGED <<serverVars, lost>>

\* (mutant) the tokens are cleared whatever the slot holds by now
UpdateClears(p) ==
  /\ pc[p] = "updating" /\ target[p] \in Profiles
  /\ slot' = IF slot[target[p]] = expected[p] \/ intended[p] = None
                  \/ ~Refreshing(p)
             THEN [slot EXCEPT ![target[p]] = intended[p]] ELSE slot
  /\ Note(p)
  /\ Leave(p)
  /\ UNCHANGED <<serverVars, lost>>

\* A profile's slot is updated under the lock of profiles.toml; a refresh
\* writes only over the token it is based on.
Update(p) ==
  /\ pc[p] = "updating" /\ target[p] \in Profiles
  /\ slot' = IF Refreshing(p) => slot[target[p]] = expected[p]
             THEN [slot EXCEPT ![target[p]] = intended[p]] ELSE slot
  /\ Note(p)
  /\ Leave(p)
  /\ UNCHANGED <<serverVars, lost>>

\* config.toml is loaded whole...
Load(p) ==
  /\ pc[p] = "updating" /\ target[p] \in Defaults
  /\ draft' = [draft EXCEPT ![p] = [s \in Defaults |-> slot[s]]]
  /\ Goto(p, "storing")
  /\ UNCHANGED <<slot, lock, serverVars, target, expected, intended, history,
                 lost>>

\* A command loads it to keep something other than a login.
Keep(p) ==
  /\ pc[p] = "idle"
  /\ draft' = [draft EXCEPT ![p] = [s \in Defaults |-> slot[s]]]
  /\ Goto(p, "storing")
  /\ UNCHANGED <<slot, lock, serverVars, target, expected, intended, history,
                 lost>>

\* ...and saved whole, whatever it holds by now.
Store(p) ==
  /\ pc[p] = "storing"
  /\ slot' = [s \in Slots |-> IF s = target[p] THEN intended[p]
                              ELSE IF s \in Defaults THEN draft[p][s]
                              ELSE slot[s]]
  /\ Note(p)
  /\ Leave(p)
  /\ UNCHANGED <<serverVars, lost>>

-----------------------------------------------------------------------------
(* Persons *)

\* A sign-in has its token and saves it, over whatever is there.
SignIn(p, s) ==
  /\ pc[p] = "idle"
  /\ s \in Reentered /\ issued[s] < MaxLogins
  /\ issued' = [issued EXCEPT ![s] = @ + 1]
  /\ intended' = [intended EXCEPT ![p] = [login |-> issued[s] + 1, turn |-> 0]]
  /\ target' = [target EXCEPT ![p] = s]
  /\ Goto(p, "updating")
  /\ UNCHANGED <<slot, lock, turn, ended, expected, draft, history, lost>>

SignOut(p, s) ==
  /\ pc[p] = "idle" /\ slot[s] # None
  /\ target' = [target EXCEPT ![p] = s]
  /\ Goto(p, "updating")
  /\ UNCHANGED <<slot, lock, serverVars, expected, intended, draft, history,
                 lost>>

-----------------------------------------------------------------------------
(* The server, and faults *)

\* An administrator, or the server's own clock, ends a login.
End(s) ==
  /\ \E l \in 1..issued[s] : ended' = ended \cup {<<s, l>>}
  /\ UNCHANGED <<slot, lock, issued, turn, procVars, history, lost>>

\* The server rotates the token and the answer does not arrive.
LoseAnswer(p) ==
  LET s == target[p]
      l == expected[p].login
  IN  /\ pc[p] = "posting"
      /\ <<s, l>> \notin ended /\ expected[p].turn = turn[s][l]
      /\ turn[s][l] < MaxTurns
      /\ turn' = [turn EXCEPT ![s][l] = @ + 1]
      /\ lost' = lost \cup {<<s, l>>}
      /\ Leave(p)
      /\ UNCHANGED <<slot, issued, ended, history>>

\* The process dies, or cannot write; its lock is released.
Crash(p) ==
  /\ pc[p] # "idle"
  /\ lost' = IF Refreshing(p) /\ intended[p] # None
             THEN lost \cup {<<target[p], intended[p].login>>} ELSE lost
  /\ Leave(p)
  /\ UNCHANGED <<slot, serverVars, history>>

Next ==
  \/ \E p \in Procs : \/ Enter(p) \/ Rotate(p) \/ Refuse(p) \/ Fail(p)
                      \/ Update(p) \/ Load(p) \/ Keep(p) \/ Store(p)
                      \/ LoseAnswer(p) \/ Crash(p)
  \/ \E p \in Procs, s \in Slots : Begin(p, s) \/ SignIn(p, s) \/ SignOut(p, s)
  \/ \E s \in Slots : End(s)

Spec == Init /\ [][Next]_vars

-----------------------------------------------------------------------------
(* Properties *)

\* A refresh of a profile's login never brings back one that another sign-in has
\* replaced or a person has signed out of (update_env_config's comparison).
LatestLoginStands ==
  \A s \in Profiles : slot[s] # None =>
    slot[s].login = latest[s] /\ s \notin signedOut

\* A profile no person signed out of is empty only if the server had ended its
\* login, or a fault had destroyed its newest token: no refresh clears a login
\* but the one it was refused for (clear_tokens).
NeverSignsItselfOut ==
  \A s \in Profiles : slot[s] = None /\ s \notin signedOut
    => <<s, latest[s]>> \in ended \cup lost

\* While the server honours a login and no fault struck it, the token in the slot
\* is the one the server accepts next, or the process replacing it holds the lock.
Rotates(s) == slot[s] # None =>
  \/ <<s, slot[s].login>> \in ended \cup lost
  \/ slot[s].turn = turn[s][slot[s].login]
  \/ lock[s] # None /\ expected[lock[s]] = slot[s]

\* No two processes rotate one token of a profile, and no used token of it comes
\* back to the disk (_refresh_lock, update_env_config).
RotationsOnce == \A s \in Profiles : Rotates(s)

\* The same of the default login, as the tests of the lock have it: once it is
\* rotated, the new tokens are what is stored.
DefaultRotatesOnce == \A s \in Defaults : Rotates(s)

\* invalid_grant only ever answers a profile's login that was ended, or whose
\* newest token a fault destroyed: a process never presents a token another one
\* has used (try_refresh reads the tokens again under the lock).
RefusalsAreDeserved ==
  [][\A p \in Procs : Refuse(p) /\ target[p] \in Profiles =>
       <<target[p], expected[p].login>> \in ended \cup lost]_vars

-----------------------------------------------------------------------------
(* Why the properties hold *)

TypeOK ==
  /\ slot \in [Slots -> Tokens \cup {None}]
  /\ lock \in [Slots -> Procs \cup {None}]
  /\ issued \in [Slots -> Logins]
  /\ turn \in [Slots -> [Logins -> 0..MaxTurns]]
  /\ ended \subseteq Slots \X Logins
  /\ pc \in [Procs -> PCs]
  /\ target \in [Procs -> Slots \cup {None}]
  /\ expected \in [Procs -> Tokens \cup {None}]
  /\ intended \in [Procs -> Tokens \cup {None}]
  /\ draft \in [Procs -> [Defaults -> Tokens \cup {None}] \cup {None}]
  /\ latest \in [Slots -> Logins]
  /\ lost \subseteq Slots \X Logins

Gone == ended \cup lost

\* What a process at each place knows and holds.
PlaceInv == \A p \in Procs :
  /\ pc[p] = "idle" => target[p] = None /\ expected[p] = None /\ intended[p] = None
  /\ pc[p] \notin {"idle", "storing"} => target[p] \in Slots
  /\ pc[p] \in {"waiting", "posting"} => expected[p] # None /\ intended[p] = None
  /\ pc[p] = "posting" => lock[target[p]] = p
  /\ pc[p] = "storing" => /\ target[p] \in Defaults \cup {None}
                           /\ draft[p] \in [Defaults -> Tokens \cup {None}]
  /\ target[p] = None => expected[p] = None /\ intended[p] = None

\* The refresh lock is held for the slot being refreshed, past the wait for it.
LockInv == \A s \in Slots : lock[s] # None =>
  /\ target[lock[s]] = s /\ expected[lock[s]] # None
  /\ pc[lock[s]] \notin {"idle", "waiting"}

\* Tokens come from logins that were issued.
IssuedInv == \A s \in Profiles :
  /\ slot[s] # None => slot[s].login <= issued[s]
  /\ \A l \in Logins : l > issued[s] => turn[s][l] = 0
  /\ \A p \in Procs : target[p] = s =>
       /\ expected[p] # None => expected[p].login <= issued[s]
       /\ intended[p] # None => intended[p].login <= issued[s]

SigningIn(p) == expected[p] = None /\ intended[p] # None

\* Nobody else has the login a person is about to save.
FreshInv == \A p \in Procs : SigningIn(p) /\ target[p] \in Profiles =>
  LET s == target[p]
      l == intended[p].login
  IN  /\ intended[p].turn = 0 /\ turn[s][l] = 0
      /\ slot[s] # None => slot[s].login # l
      /\ \A q \in Procs : q # p /\ target[q] = s =>
           /\ expected[q] # None => expected[q].login # l
           /\ intended[q] # None => intended[q].login # l

\* A process presents the newest token; what it saves is the next one, and what
\* it clears is gone.
RefreshInv == \A p \in Procs : expected[p] # None /\ target[p] \in Profiles =>
  LET s == target[p]
      l == expected[p].login
  IN  /\ pc[p] = "posting" => <<s, l>> \in Gone \/ expected[p].turn = turn[s][l]
      /\ pc[p] \in {"updating", "storing"} =>
           IF intended[p] = None THEN <<s, l>> \in Gone
           ELSE /\ lock[s] = p
                /\ intended[p].login = l /\ intended[p].turn = turn[s][l]

IInv == /\ TypeOK /\ PlaceInv /\ LockInv /\ IssuedInv /\ FreshInv /\ RefreshInv
        /\ RotationsOnce /\ LatestLoginStands /\ NeverSignsItselfOut

=============================================================================
