--------------------------- MODULE RouterSession ---------------------------
(***************************************************************************)
(* The Router login of one machine: several CLI processes (and threads)    *)
(* share one login file and one refresh lock, and rotate the login's       *)
(* refresh credential with a server over a network that loses, delays and  *)
(* repeats requests.  Translated from src/ramp_cli/client/router_user.py,  *)
(* RouterUserClient.access_token, login, logout and recover_login.         *)
(*                                                                         *)
(* A refresh credential is a secret of a grant (one browser sign-in); the  *)
(* access token issued with it is identified by that same pair.  Secrets   *)
(* are numbered in the order they are generated, which stands for the      *)
(* freshness of secrets.token_urlsafe(32).                                 *)
(***************************************************************************)
EXTENDS Naturals, FiniteSets

CONSTANTS
  Clients,      \* RouterUserClient objects: one per CLI process
  Grants,       \* browser sign-ins the server may approve
  Calls,        \* what the clients are called for, a subset of Mode
  MaxSecret,    \* bound on the secrets ever generated
  None          \* no client, no login, no request, no token, no code

ASSUME MaxSecretAssumption == MaxSecret \in Nat
ASSUME CallsAssumption ==
  Calls \subseteq {"plain", "read", "write", "passive", "retry", "login", "logout"}

VARIABLES
  file,      \* the login file, or None when there is none
  lock,      \* holder of the namespace's refresh lock, or None
  pc,        \* where each client is in its call
  mode,      \* what each client was called for
  rejected,  \* the access token this call saw rejected with a 401, or None
  token,     \* the access token the last call returned, or None
  checked,   \* the session check a client may reuse, or None
  asked,     \* the request a client waits on, or None
  reply,     \* the code of its answer, or None
  fresh,     \* the login a client was just granted and has not stored, or None
  sent,      \* every request ever put on the wire
  live,      \* grants the server accepts
  cur, prev, \* per grant: the secret the server accepts, and the one before
  minted,    \* number of secrets generated so far
  retired    \* history: grants that the file has held and holds no more

clientVars == <<pc, mode, rejected, token, checked, asked, reply, fresh>>
serverVars == <<live, cur, prev>>
vars == <<file, lock, clientVars, sent, serverVars, minted, retired>>

-----------------------------------------------------------------------------
(* Credentials, the login file and requests.                               *)

Token == [grant : Grants, secret : Nat]

\* "near": inside the 30 s before expiry in which a caller that may rotate
\* already rotates, and a caller that may not still uses the token.
Clock == {"valid", "near", "expired"}

Login == [grant : Grants, secret : Nat, pending : Nat \cup {None}, clock : Clock]

Request ==
  [kind : {"token"}, grant : Grants, secret : Nat, next : Nat]
    \cup [kind : {"session", "logout"}, grant : Grants, secret : Nat]

Code == {"ok", "garbled", "invalid", "reauth", "error"}

ASSUME NoneAssumption ==
  /\ None \notin Clients
  /\ None \notin Nat
  /\ None \notin Token
  /\ None \notin Login
  /\ None \notin Request
  /\ None \notin Code

\* What a call may ask for: access_token() itself, a read, a write, a passive
\* read that may not rotate, the retry after a 401, login() and logout().
Mode == {"plain", "read", "write", "passive", "retry", "login", "logout"}

Checks(m)   == m \in {"read", "write", "passive", "retry"}
Reuses(m)   == m \in {"read", "passive"}
Recovers(m) == m # "passive"

PC == {"idle", "wait", "prepared", "await", "recover", "login", "store", "revoke"}

AccessOf(login) == [grant |-> login.grant, secret |-> login.secret]

NewLogin(g, s) == [grant |-> g, secret |-> s, pending |-> None, clock |-> "valid"]

TokenRequest(login) ==
  [kind |-> "token", grant |-> login.grant, secret |-> login.secret,
   next |-> login.pending]

LoginRequest(kind, login) ==
  [kind |-> kind, grant |-> login.grant, secret |-> login.secret]

\* (mutant) an outstanding rotation does not stop the old token from serving
CachedValidPending(c) ==
  /\ file # None
  /\ \/ rejected[c] # None /\ AccessOf(file) # rejected[c]
     \/ /\ mode[c] # "retry"
        /\ file.clock \in IF Recovers(mode[c]) THEN {"valid"} ELSE {"valid", "near"}

\* The stored access token may serve this call: no rotation is outstanding, and
\* the token is another one than was rejected, or unexpired and not forced.
CachedValid(c) ==
  /\ file # None
  /\ file.pending = None
  /\ \/ rejected[c] # None /\ AccessOf(file) # rejected[c]
     \/ /\ mode[c] # "retry"
        /\ file.clock \in IF Recovers(mode[c]) THEN {"valid"} ELSE {"valid", "near"}

\* A session check of this client's that a read may reuse.
Reusable(c) ==
  /\ CachedValid(c)
  /\ Reuses(mode[c])
  /\ rejected[c] = None
  /\ checked[c] # None
  /\ checked[c] = AccessOf(file)

Calling(c) == pc[c] = "wait" /\ lock = None /\ mode[c] # "logout"

-----------------------------------------------------------------------------
TypeOK ==
  /\ file \in Login \cup {None}
  /\ lock \in Clients \cup {None}
  /\ pc \in [Clients -> PC]
  /\ mode \in [Clients -> Mode]
  /\ rejected \in [Clients -> Token \cup {None}]
  /\ token \in [Clients -> Token \cup {None}]
  /\ checked \in [Clients -> Token \cup {None}]
  /\ asked \in [Clients -> Request \cup {None}]
  /\ reply \in [Clients -> Code \cup {None}]
  /\ fresh \in [Clients -> Token \cup {None}]
  /\ sent \subseteq Request
  /\ live \subseteq Grants
  /\ cur \in [Grants -> Nat]
  /\ prev \in [Grants -> Nat]
  /\ minted \in Nat
  /\ retired \subseteq Grants

Init ==
  /\ file = None
  /\ lock = None
  /\ pc = [c \in Clients |-> "idle"]
  /\ mode = [c \in Clients |-> "plain"]
  /\ rejected = [c \in Clients |-> None]
  /\ token = [c \in Clients |-> None]
  /\ checked = [c \in Clients |-> None]
  /\ asked = [c \in Clients |-> None]
  /\ reply = [c \in Clients |-> None]
  /\ fresh = [c \in Clients |-> None]
  /\ sent = {}
  /\ live = {}
  /\ cur = [g \in Grants |-> 0]
  /\ prev = [g \in Grants |-> 0]
  /\ minted = 0
  /\ retired = {}

\* What a call was made for is forgotten when it ends, and when a recovery signs
\* in and calls access_token() anew.
GoTo(c, where) ==
  /\ pc' = [pc EXCEPT ![c] = where]
  /\ mode' = [mode EXCEPT ![c] = IF where \in {"idle", "wait"} THEN "plain" ELSE @]
  /\ rejected' = [rejected EXCEPT ![c] = IF where \in {"idle", "wait"} THEN None ELSE @]

\* A call ends or moves on: where to, and the access token it returns, if any.
Leave(c, where, tok) ==
  /\ GoTo(c, where)
  /\ token' = [token EXCEPT ![c] = tok]
  /\ asked' = [asked EXCEPT ![c] = None]
  /\ reply' = [reply EXCEPT ![c] = None]
  /\ UNCHANGED fresh

Post(c, request) ==
  /\ sent' = sent \cup {request}
  /\ asked' = [asked EXCEPT ![c] = request]
  /\ pc' = [pc EXCEPT ![c] = "await"]
  /\ UNCHANGED <<mode, rejected, token, reply, fresh>>

ForgetCheck(c) == checked' = [checked EXCEPT ![c] = None]

\* Replacing or removing the login file retires the grant it held.
SetFile(new) ==
  /\ file' = new
  /\ retired' = IF file # None /\ (new = None \/ new.grant # file.grant)
                THEN retired \cup {file.grant}
                ELSE retired

-----------------------------------------------------------------------------
(* access_token: every decision up to the request is taken under the       *)
(* refresh lock, on the file read under it.                                *)

\* A 401 answer to the request sent with the last token makes the next call a
\* forced one that names the rejected token (_send); any other call names none.
Begin(c, m) ==
  /\ pc[c] = "idle"
  /\ m = "retry" => token[c] # None
  /\ pc' = [pc EXCEPT ![c] = IF m = "login" THEN "login" ELSE "wait"]
  /\ mode' = [mode EXCEPT ![c] = m]
  /\ rejected' = [rejected EXCEPT ![c] = IF m = "retry" THEN token[c] ELSE None]
  /\ token' = [token EXCEPT ![c] = None]
  /\ UNCHANGED <<file, lock, checked, asked, reply, fresh, sent, serverVars,
                 minted, retired>>

\* The stored token is returned as it is (a plain call), or the last session
\* check is reused (a read).
ReturnCached(c) ==
  /\ Calling(c)
  /\ CachedValid(c)
  /\ ~Checks(mode[c]) \/ Reusable(c)
  /\ Leave(c, "idle", IF Checks(mode[c]) THEN checked[c] ELSE AccessOf(file))
  /\ UNCHANGED <<file, lock, checked, sent, serverVars, minted, retired>>

\* A passive caller may not rotate; without a login there is nothing to rotate.
Refuse(c) ==
  /\ Calling(c)
  /\ ~CachedValid(c)
  /\ ~Recovers(mode[c]) \/ file = None
  /\ ForgetCheck(c)
  /\ Leave(c, IF Recovers(mode[c]) THEN "recover" ELSE "idle", token[c])
  /\ UNCHANGED <<file, lock, sent, serverVars, minted, retired>>

CheckSession(c) ==
  /\ Calling(c)
  /\ CachedValid(c)
  /\ Checks(mode[c]) /\ ~Reusable(c)
  /\ ForgetCheck(c)
  /\ lock' = c
  /\ Post(c, LoginRequest("session", file))
  /\ UNCHANGED <<file, serverVars, minted, retired>>

\* (mutant) draws a new successor on every attempt
PrepareAnew(c) ==
  /\ Calling(c) /\ ~CachedValid(c) /\ Recovers(mode[c]) /\ file # None
  /\ minted < MaxSecret /\ minted' = minted + 1
  /\ SetFile([file EXCEPT !.pending = minted + 1])
  /\ ForgetCheck(c) /\ lock' = c /\ pc' = [pc EXCEPT ![c] = "prepared"]
  /\ UNCHANGED <<mode, rejected, token, asked, reply, fresh, sent, serverVars>>

\* The successor is on disk before the credential is consumed; one left over by
\* an interrupted rotation is used again, never replaced.
PrepareRotation(c) ==
  /\ Calling(c)
  /\ ~CachedValid(c)
  /\ Recovers(mode[c]) /\ file # None
  /\ IF file.pending = None
     THEN /\ minted < MaxSecret
          /\ minted' = minted + 1
          /\ SetFile([file EXCEPT !.pending = minted + 1])
     ELSE UNCHANGED <<minted, file, retired>>
  /\ ForgetCheck(c)
  /\ lock' = c
  /\ pc' = [pc EXCEPT ![c] = "prepared"]
  /\ UNCHANGED <<mode, rejected, token, asked, reply, fresh, sent, serverVars>>

PostRotation(c) ==
  /\ pc[c] = "prepared"
  /\ Post(c, TokenRequest(file))
  /\ UNCHANGED <<file, lock, checked, serverVars, minted, retired>>

Answered(c, kinds, code) ==
  /\ pc[c] = "await"
  /\ asked[c].kind \in kinds
  /\ reply[c] = code

Renewing == {"token", "session"}

\* (mutant) saves the new access token with the old refresh token
CommitOldSecret(c) ==
  /\ Answered(c, {"token"}, "ok")
  /\ SetFile(NewLogin(asked[c].grant, asked[c].secret))
  /\ lock' = None
  /\ Leave(c, "idle", [grant |-> asked[c].grant, secret |-> asked[c].next])
  /\ UNCHANGED <<checked, sent, serverVars, minted>>

CommitRotation(c) ==
  /\ Answered(c, {"token"}, "ok")
  /\ SetFile(NewLogin(asked[c].grant, asked[c].next))
  /\ lock' = None
  /\ Leave(c, "idle", [grant |-> asked[c].grant, secret |-> asked[c].next])
  /\ UNCHANGED <<checked, sent, serverVars, minted>>

\* A session check does not save: the access token keeps its original clock.
PassCheck(c) ==
  /\ Answered(c, {"session"}, "ok")
  /\ lock' = None
  /\ checked' = [checked EXCEPT ![c] = AccessOf(asked[c])]
  /\ Leave(c, "idle", AccessOf(asked[c]))
  /\ UNCHANGED <<file, sent, serverVars, minted, retired>>

\* A 200 answer that is no token response clears the login and fails the call.
RejectGarbled(c) ==
  /\ Answered(c, Renewing, "garbled")
  /\ SetFile(None)
  /\ ForgetCheck(c)
  /\ lock' = None
  /\ Leave(c, "idle", token[c])
  /\ UNCHANGED <<sent, serverVars, minted>>

\* The server says the grant is gone: the login is cleared under the lock, then
\* the browser sign-in may run outside it.
Expire(c) ==
  /\ Answered(c, Renewing, "invalid")
  /\ SetFile(None)
  /\ ForgetCheck(c)
  /\ lock' = None
  /\ Leave(c, IF Recovers(mode[c]) THEN "recover" ELSE "idle", token[c])
  /\ UNCHANGED <<sent, serverVars, minted>>

Reauthorize(c) ==
  /\ Answered(c, Renewing, "reauth")
  /\ lock' = None
  /\ Leave(c, IF Recovers(mode[c]) THEN "recover" ELSE "idle", token[c])
  /\ UNCHANGED <<file, checked, sent, serverVars, minted, retired>>

\* Outages, limits and refused logouts raise ApiError; a timeout raises before
\* any answer is seen.  Both keep the file and leave the lock.
Fail(c) ==
  /\ pc[c] = "await"
  /\ \/ reply[c] = "error"
     \/ asked[c].kind = "logout" /\ reply[c] \in {"reauth", "garbled"}
  /\ lock' = None
  /\ Leave(c, "idle", token[c])
  /\ UNCHANGED <<file, checked, sent, serverVars, minted, retired>>

\* (mutant) the exception leaves the lock behind
TimeoutLocked(c) ==
  /\ pc[c] = "await"
  /\ Leave(c, "idle", token[c])
  /\ UNCHANGED <<file, lock, checked, sent, serverVars, minted, retired>>

Timeout(c) ==
  /\ pc[c] = "await"
  /\ lock' = None
  /\ Leave(c, "idle", token[c])
  /\ UNCHANGED <<file, checked, sent, serverVars, minted, retired>>

-----------------------------------------------------------------------------
(* login, logout and the recovery that signs in again.                     *)

\* recover_login: interactive callers sign in, the others fail with a hint.
Recover(c, interactive) ==
  /\ pc[c] = "recover"
  /\ GoTo(c, IF interactive THEN "login" ELSE "idle")
  /\ UNCHANGED <<file, lock, token, checked, asked, reply,
                 fresh, sent, serverVars, minted, retired>>

\* The person approves in the browser and the code is exchanged for a login.
ExchangeCode(c, g) ==
  /\ pc[c] = "login"
  /\ cur[g] = 0
  /\ minted < MaxSecret
  /\ minted' = minted + 1
  /\ live' = live \cup {g}
  /\ cur' = [cur EXCEPT ![g] = minted + 1]
  /\ fresh' = [fresh EXCEPT ![c] = [grant |-> g, secret |-> minted + 1]]
  /\ pc' = [pc EXCEPT ![c] = "store"]
  /\ UNCHANGED <<file, lock, mode, rejected, token, checked, asked, reply,
                 sent, prev, retired>>

AbandonLogin(c) ==
  /\ pc[c] = "login"
  /\ GoTo(c, "idle")
  /\ UNCHANGED <<file, lock, token, checked, asked, reply,
                 fresh, sent, serverVars, minted, retired>>

\* After a login the command is done; a recovery calls access_token() again.
AfterLogin(c) == IF mode[c] = "login" THEN "idle" ELSE "wait"

\* (mutant) stores the new login without taking the refresh lock
StoreUnlocked(c) ==
  /\ pc[c] = "store"
  /\ SetFile(NewLogin(fresh[c].grant, fresh[c].secret))
  /\ fresh' = [fresh EXCEPT ![c] = None]
  /\ GoTo(c, AfterLogin(c))
  /\ UNCHANGED <<lock, asked, token, checked, reply, sent, serverVars, minted>>

\* The new login replaces the old file under the lock; what the old one was is
\* remembered (in asked) to be revoked after the lock is left.
StoreLogin(c) ==
  /\ pc[c] = "store"
  /\ lock = None
  /\ SetFile(NewLogin(fresh[c].grant, fresh[c].secret))
  /\ fresh' = [fresh EXCEPT ![c] = None]
  /\ IF file = None
     THEN GoTo(c, AfterLogin(c)) /\ UNCHANGED asked
     ELSE /\ GoTo(c, "revoke")
          /\ asked' = [asked EXCEPT ![c] = LoginRequest("logout", file)]
  /\ UNCHANGED <<lock, token, checked, reply, sent, serverVars, minted>>

\* The old grant's revocation is sent outside the lock and its answer ignored; if
\* it cannot be sent the command fails.
RevokeOld(c, reached) ==
  /\ pc[c] = "revoke"
  /\ sent' = sent \cup {asked[c]}
  /\ GoTo(c, IF reached THEN AfterLogin(c) ELSE "idle")
  /\ asked' = [asked EXCEPT ![c] = None]
  /\ UNCHANGED <<file, lock, token, checked, reply, fresh, serverVars, minted,
                 retired>>

Logout(c) ==
  /\ pc[c] = "wait" /\ lock = None /\ mode[c] = "logout"
  /\ IF file = None
     THEN /\ ForgetCheck(c)
          /\ Leave(c, "idle", token[c])
          /\ UNCHANGED <<lock, sent>>
     ELSE /\ lock' = c
          /\ Post(c, LoginRequest("logout", file))
          /\ UNCHANGED checked
  /\ UNCHANGED <<file, serverVars, minted, retired>>

\* 200, 400 and 401 all end the local login.
CompleteLogout(c) ==
  /\ Answered(c, {"logout"}, "ok") \/ Answered(c, {"logout"}, "invalid")
  /\ SetFile(None)
  /\ ForgetCheck(c)
  /\ lock' = None
  /\ Leave(c, "idle", token[c])
  /\ UNCHANGED <<sent, serverVars, minted>>

-----------------------------------------------------------------------------
(* The process may die at any point: the kernel drops its lock, memory is  *)
(* lost, requests on the wire are not.                                     *)
Crash(c) ==
  /\ pc[c] # "idle"
  /\ lock' = IF lock = c THEN None ELSE lock
  /\ GoTo(c, "idle")
  /\ token' = [token EXCEPT ![c] = None]
  /\ ForgetCheck(c)
  /\ asked' = [asked EXCEPT ![c] = None]
  /\ reply' = [reply EXCEPT ![c] = None]
  /\ fresh' = [fresh EXCEPT ![c] = None]
  /\ UNCHANGED <<file, sent, serverVars, minted, retired>>

\* The access token nears its expiry, then expires.
Tick ==
  /\ file # None
  /\ file.clock # "expired"
  /\ file' = [file EXCEPT !.clock = IF @ = "valid" THEN "near" ELSE "expired"]
  /\ UNCHANGED <<lock, clientVars, sent, serverVars, minted, retired>>

\* The 60 s in which a session check may be reused are over.
CheckAges(c) ==
  /\ checked[c] # None
  /\ ForgetCheck(c)
  /\ UNCHANGED <<file, lock, pc, mode, rejected, token, asked, reply, fresh,
                 sent, serverVars, minted, retired>>

-----------------------------------------------------------------------------
(* The server, as the client relies on it.  It may handle a request late,  *)
(* twice, or after its sender is gone; an answer reaches whoever waits on  *)
(* that request and has none yet.                                          *)

Answer(m, code) ==
  reply' = [c \in Clients |->
              IF pc[c] = "await" /\ asked[c] = m /\ reply[c] = None
              THEN code ELSE reply[c]]

Serving(m) ==
  /\ m \in sent
  /\ UNCHANGED <<file, lock, pc, mode, rejected, token, checked, asked, fresh,
                 sent, minted, retired>>

Knows(m) == m.grant \in live /\ m.secret = cur[m.grant]

\* A rotation to a named successor: repeating it is answered like the first time.
ServeRotation(m) ==
  /\ Serving(m)
  /\ m.kind = "token"
  /\ \E code \in {"ok", "garbled"} : Answer(m, code)
  /\ \/ /\ Knows(m)
        /\ cur' = [cur EXCEPT ![m.grant] = m.next]
        /\ prev' = [prev EXCEPT ![m.grant] = m.secret]
     \/ /\ m.grant \in live
        /\ m.secret = prev[m.grant] /\ m.next = cur[m.grant]
        /\ UNCHANGED <<cur, prev>>
  /\ UNCHANGED live

RefuseRotation(m) ==
  /\ Serving(m)
  /\ m.kind = "token"
  /\ ~Knows(m)
  /\ ~ (m.grant \in live /\ m.secret = prev[m.grant] /\ m.next = cur[m.grant])
  /\ Answer(m, "invalid")
  /\ UNCHANGED serverVars

ServeSession(m) ==
  /\ Serving(m)
  /\ m.kind = "session"
  /\ IF Knows(m) THEN \E code \in {"ok", "garbled"} : Answer(m, code)
                 ELSE Answer(m, "invalid")
  /\ UNCHANGED serverVars

\* Whether a superseded secret still ends its grant is the server's choice.
ServeLogout(m) ==
  /\ Serving(m)
  /\ m.kind = "logout"
  /\ \/ /\ Knows(m) \/ (m.grant \in live /\ m.secret = prev[m.grant])
        /\ live' = live \ {m.grant}
        /\ Answer(m, "ok")
     \/ /\ ~Knows(m)
        /\ UNCHANGED live
        /\ Answer(m, "invalid")
  /\ UNCHANGED <<cur, prev>>

\* An outage, a rate limit, or a demand to sign in again: nothing changes.
ServeError(m) ==
  /\ Serving(m)
  /\ \E code \in {"reauth", "error"} : Answer(m, code)
  /\ UNCHANGED serverVars

\* An administrator revokes a grant, or its refresh lifetime ends.
EndGrant(g) ==
  /\ g \in live
  /\ live' = live \ {g}
  /\ UNCHANGED <<file, lock, clientVars, sent, cur, prev, minted, retired>>

-----------------------------------------------------------------------------
ClientStep(c) ==
  \/ \E m \in Calls : Begin(c, m)
  \/ ReturnCached(c)
  \/ Refuse(c)
  \/ CheckSession(c)
  \/ PrepareRotation(c)
  \/ PostRotation(c)
  \/ CommitRotation(c)
  \/ PassCheck(c)
  \/ RejectGarbled(c)
  \/ Expire(c)
  \/ Reauthorize(c)
  \/ Fail(c)
  \/ Timeout(c)
  \/ \E interactive \in BOOLEAN : Recover(c, interactive)
  \/ \E g \in Grants : ExchangeCode(c, g)
  \/ AbandonLogin(c)
  \/ StoreLogin(c)
  \/ \E reached \in BOOLEAN : RevokeOld(c, reached)
  \/ Logout(c)
  \/ CompleteLogout(c)
  \/ Crash(c)
  \/ CheckAges(c)

ServerStep ==
  \/ \E m \in sent : \/ ServeRotation(m)
                     \/ RefuseRotation(m)
                     \/ ServeSession(m)
                     \/ ServeLogout(m)
                     \/ ServeError(m)
  \/ \E g \in Grants : EndGrant(g)

Next ==
  \/ \E c \in Clients : ClientStep(c)
  \/ Tick
  \/ ServerStep

\* Every request carries a timeout, so a call that holds the lock goes on; the
\* callers, the person at the browser and the server owe nothing.
Fairness ==
  \A c \in Clients : WF_vars(PostRotation(c)) /\ WF_vars(Timeout(c))

Spec == Init /\ [][Next]_vars
FairSpec == Spec /\ Fairness
-----------------------------------------------------------------------------
(* Properties.                                                             *)

\* An interrupted rotation never strands the login: whatever was lost, crashed or
\* is still on the wire, the file names the secret the server accepts, either as
\* the stored one or as its pending successor (access_token saves the successor
\* before the request that consumes the old secret).
CredentialSurvives ==
  file # None /\ file.grant \in live =>
    \/ cur[file.grant] = file.secret
    \/ cur[file.grant] = file.pending /\ prev[file.grant] = file.secret

\* However many processes, retries and crashes: all rotations that ever present
\* one secret propose one successor, so a repeat is a retry and never a fork.
OneSuccessor ==
  \A m, n \in sent :
    /\ m.kind = "token" /\ n.kind = "token"
    /\ m.grant = n.grant /\ m.secret = n.secret
    => m.next = n.next

\* The machine never signs itself out: only a grant that was ended at the server
\* is answered with invalid_grant, the answer that clears the login file.
NoSelfInflictedSignOut ==
  \A c \in Clients :
    /\ reply[c] = "invalid"
    /\ asked[c].kind \in Renewing
    => asked[c].grant \notin live

\* A login that was replaced or cleared never comes back: a refresh that was under
\* way when another process signed in or out does not restore the old one.
NoResurrection == file # None => file.grant \notin retired

\* "Finish a durable pending rotation before using the old secret anywhere,
\* including /session": a session check never presents a secret that was already
\* offered for rotation.
NoSessionWithOfferedSecret ==
  [][\A m \in sent' \ sent : \A n \in sent :
       m.kind = "session" /\ n.kind = "token" /\ n.grant = m.grant
         => n.secret # m.secret]_vars

\* The inductive invariant behind the four invariants above, in named parts.
\* Who holds the lock, and what the holder is doing to the login in the file.
LockInv ==
  /\ \A c \in Clients : lock = c <=> pc[c] \in {"prepared", "await"}
  /\ lock # None => file # None
  /\ \A c \in Clients : pc[c] = "prepared" => file.pending # None

\* A holder that waits, waits on a request about the file as it is.
AskedInv ==
  \A c \in Clients :
    /\ pc[c] = "await" =>
         \/ asked[c] = TokenRequest(file) /\ file.pending # None
         \/ asked[c] = LoginRequest("session", file) /\ file.pending = None
         \/ asked[c] = LoginRequest("logout", file)
    /\ reply[c] # None => pc[c] = "await"
    /\ reply[c] \in {"ok", "garbled"} /\ asked[c].kind = "token"
         => cur[file.grant] = file.pending
    /\ reply[c] = "invalid" /\ asked[c].kind \in Renewing
         => asked[c].grant \notin live

\* The file and the server are at most one rotation apart, in the known order.
FileInv ==
  file # None =>
    /\ file.secret <= minted
    /\ file.pending # None => file.secret < file.pending /\ file.pending <= minted
    /\ \/ cur[file.grant] = file.secret
       \/ /\ file.pending # None
          /\ cur[file.grant] = file.pending
          /\ prev[file.grant] = file.secret
    /\ file.grant \notin retired
    /\ cur[file.grant] # 0

\* Of the rotations on the wire for the login in the file, those that present its
\* secret name its pending successor; all others present an older secret.
SentInv ==
  /\ \A m \in sent :
       /\ cur[m.grant] # 0
       /\ m.grant \in retired \/ (file # None /\ file.grant = m.grant)
       /\ m.kind = "token" => m.secret < m.next
       /\ m.kind = "token" /\ file # None /\ file.grant = m.grant =>
            /\ m.secret <= file.secret
            /\ m.secret = file.secret => m.next = file.pending
  /\ \A g \in retired : cur[g] # 0

\* A login that was granted and not yet stored is known to one client only.
FreshInv ==
  \A c \in Clients :
    /\ fresh[c] # None <=> pc[c] = "store"
    /\ fresh[c] # None =>
         /\ fresh[c].secret <= minted
         /\ cur[fresh[c].grant] = fresh[c].secret
         /\ cur[fresh[c].grant] # 0
         /\ fresh[c].grant \notin retired
         /\ file # None => file.grant # fresh[c].grant
         /\ \A m \in sent : m.grant # fresh[c].grant
         /\ \A d \in Clients \ {c} :
              fresh[d] # None => fresh[d].grant # fresh[c].grant

\* The old login's revocation, still to be sent, concerns a grant given up.
RevokeInv ==
  \A c \in Clients : pc[c] = "revoke" =>
    asked[c] # None /\ asked[c].kind = "logout" /\ asked[c].grant \in retired

IInv ==
  /\ TypeOK
  /\ LockInv
  /\ AskedInv
  /\ FileInv
  /\ SentInv
  /\ FreshInv
  /\ RevokeInv
  /\ OneSuccessor

\* A call that returns an access token returns one of the login that is in the
\* file as it returns, never one of a login another process replaced or cleared.
ReturnsCurrentLogin ==
  [][\A c \in Clients :
       token'[c] # token[c] /\ token'[c] # None
         => file' # None /\ token'[c] = AccessOf(file')]_vars

\* No call keeps the refresh lock for ever, even if the server never answers: it
\* times out or the process dies, and the other processes can go on.
LockIsLeft == \A c \in Clients : lock = c ~> lock # c

\* The two-phase rotation implements the atomic one: the machine holds the pending
\* successor from the moment the server accepts it.
HeldCredential ==
  IF file = None THEN None
  ELSE [grant |-> file.grant,
        secret |-> IF file.pending # None /\ cur[file.grant] = file.pending
                   THEN file.pending ELSE file.secret]

Abstract == INSTANCE RotatingLogin
  WITH held <- HeldCredential, accepted <- cur, given <- retired

ImplementsRotatingLogin == Abstract!Spec
=============================================================================
