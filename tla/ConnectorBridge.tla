---------------------------- MODULE ConnectorBridge ----------------------------
(***************************************************************************)
(* The bridge a coding agent talks MCP to (router_connectors/bridge.py)    *)
(* and the tokens it sends with (router_connectors/auth.py).  One thread   *)
(* reads the agent's messages: calls go to a bounded pool of workers,      *)
(* control messages it sends itself.  Whoever sends takes a token under    *)
(* the lock of the token cache and then the lock of the login, while the   *)
(* user signs in to another account or out.                                *)
(***************************************************************************)
EXTENDS Naturals, Sequences, FiniteSets, TLC

CONSTANTS
  Script,          \* the messages of the agent, in order
  Slow,            \* calls the server ends only once they are cancelled
  Workers,         \* the slots of the pool
  MaxLogins,       \* bound: sign-ins and sign-outs
  MaxBridgeFaults  \* bound: network failures, rejections

Reader == "reader"
Senders == {Reader} \cup Workers
Nobody == "nobody"
SignedOut == [account |-> "none", session |-> 0]
NoToken == [account |-> "none", session |-> 0, serial |-> 0]
Resting == [at |-> "rest"]

Positions == 1..Len(Script)
IsCall(m) == Script[m].kind = "call"
IsRequest(m) == Script[m].kind \in {"call", "initialize"}

\* A conversation of MCP: nothing is called before the session is opened.
ASSUME BridgeAssumption ==
  /\ Len(Script) \in Nat
  /\ \A m, n \in Positions : IsCall(m) /\ Script[n].kind = "initialize" => n < m
  /\ \A m \in Positions : Script[m].kind \in {"initialize", "call", "cancel"}
  /\ \A m \in Positions : Script[m].kind = "cancel" => Script[m].of \in Positions
  /\ Slow \subseteq {m \in Positions : IsCall(m)}
  /\ Reader \notin Workers /\ Nobody \notin Senders
  /\ MaxLogins \in Nat /\ MaxBridgeFaults \in Nat

VARIABLES
  login,           \* the stored Router login
  tokenCache,      \* the token stored for the binding
  cacheLock, loginLock,
  read,            \* how many messages have been read
  sending,         \* what each thread is doing
  mcpSession,      \* the session the bridge has pinned
  cancelled,       \* calls the server was told to cancel, or that are left to time out
  answers,         \* the answers the agent got to each message
  logins, minted, bridgeFaults

bridgeVars == <<login, tokenCache, cacheLock, loginLock, read, sending, mcpSession,
                cancelled, answers, logins, minted, bridgeFaults>>
account == <<login, logins>>
dialogue == <<read, mcpSession, cancelled, answers>>

BridgeInit ==
  /\ login = [account |-> "bound", session |-> 1]
  /\ tokenCache \in {NoToken, [account |-> "bound", session |-> 1, serial |-> 1]}
  /\ cacheLock = Nobody /\ loginLock = Nobody
  /\ read = 0
  /\ sending = [t \in Senders |-> Resting]
  /\ mcpSession = "none"
  /\ cancelled = {}
  /\ answers = [m \in Positions |-> 0]
  /\ logins = 1 /\ minted = 1 /\ bridgeFaults = MaxBridgeFaults

-----------------------------------------------------------------------------
(* Reading: run.                                                            *)

\* (mutant) every message takes a slot of the pool
NeverControl(m) == FALSE

\* Cancellations must pass when all workers are busy, and the session must be
\* pinned before anything else is sent.
Control(m) == ~IsCall(m)

Take(t, m) ==
  sending' = [sending EXCEPT ![t] = [at |-> "cache", message |-> m, attempt |-> 0,
                                     token |-> NoToken, session |-> "none", responded |-> FALSE]]

\* The reader sends a control message itself; a call goes to a free worker, or is
\* refused at once.
ReadMessage ==
  LET m == read + 1  free == {w \in Workers : sending[w] = Resting} IN
    /\ sending[Reader] = Resting /\ read < Len(Script)
    /\ read' = m
    /\ IF Control(m) THEN Take(Reader, m) /\ UNCHANGED answers
       ELSE IF free # {} THEN Take(CHOOSE w \in free : TRUE, m) /\ UNCHANGED answers
       ELSE /\ answers' = IF IsRequest(m) THEN [answers EXCEPT ![m] = @ + 1] ELSE answers
            /\ UNCHANGED sending
    /\ UNCHANGED <<account, tokenCache, cacheLock, loginLock, mcpSession, cancelled, minted,
                   bridgeFaults>>

-----------------------------------------------------------------------------
(* A token: issue.  Always the cache's lock before the login's.             *)

Goes(t, step) == sending' = [sending EXCEPT ![t].at = step]

LockCache(t) ==
  /\ sending[t].at = "cache" /\ cacheLock = Nobody
  /\ cacheLock' = t
  /\ Goes(t, "check")
  /\ UNCHANGED <<account, tokenCache, loginLock, dialogue, minted, bridgeFaults>>

\* _bound_authorization
Bound == login.account = "bound"

\* The login is checked before anything is renewed on its behalf.
CheckLogin(t) ==
  /\ sending[t].at = "check" /\ loginLock = Nobody
  /\ IF Bound THEN Goes(t, "renew") /\ UNCHANGED cacheLock
     ELSE Goes(t, "failed") /\ cacheLock' = Nobody
  /\ UNCHANGED <<account, tokenCache, loginLock, dialogue, minted, bridgeFaults>>

\* The login renews itself, under its own lock, or not.
Renew(t) ==
  /\ sending[t].at = "renew" /\ loginLock = Nobody
  /\ Goes(t, "issue")
  /\ UNCHANGED <<account, tokenCache, cacheLock, loginLock, dialogue, minted, bridgeFaults>>

\* (mutant) the login was checked before the renewal
BoundBefore == login # SignedOut

\* It may be another by now: it is checked again under the lock that it is used under.
StillBound == Bound

\* The stored token, unless it is of another session or was just rejected.
Cached(t) ==
  /\ tokenCache.session = login.session /\ tokenCache.account = login.account
  /\ tokenCache # sending[t].token

Issue(t) ==
  /\ sending[t].at = "issue" /\ loginLock = Nobody
  /\ IF ~StillBound THEN Goes(t, "failed") /\ cacheLock' = Nobody /\ UNCHANGED loginLock
     ELSE IF Cached(t)
     THEN /\ sending' = [sending EXCEPT ![t].at = "post", ![t].token = tokenCache]
          /\ cacheLock' = Nobody /\ UNCHANGED loginLock
     ELSE /\ loginLock' = t
          /\ Goes(t, "mint") /\ UNCHANGED cacheLock
  /\ UNCHANGED <<account, tokenCache, dialogue, minted, bridgeFaults>>

Mint(t) ==
  LET token == [account |-> login.account, session |-> login.session, serial |-> minted + 1] IN
    /\ sending[t].at = "mint"
    /\ minted' = minted + 1
    /\ tokenCache' = token
    /\ sending' = [sending EXCEPT ![t].at = "post", ![t].token = token]
    /\ cacheLock' = Nobody /\ loginLock' = Nobody
    /\ UNCHANGED <<account, dialogue, bridgeFaults>>

\* The renewal or the request for a token fails; both locks are released.
IssueFails(t) ==
  /\ sending[t].at \in {"renew", "mint"} /\ bridgeFaults > 0
  /\ bridgeFaults' = bridgeFaults - 1
  /\ Goes(t, "failed")
  /\ cacheLock' = Nobody
  /\ loginLock' = IF loginLock = t THEN Nobody ELSE loginLock
  /\ UNCHANGED <<account, tokenCache, dialogue, minted>>

-----------------------------------------------------------------------------
(* A message: Bridge.send, Bridge._send.                                    *)

Post(t) ==
  /\ sending[t].at = "post"
  /\ sending' = [sending EXCEPT ![t].at = "sent", ![t].session = mcpSession]
  /\ UNCHANGED <<account, tokenCache, cacheLock, loginLock, dialogue, minted, bridgeFaults>>

\* A token of a past session is rejected, another may be: once, a new one is tried.
Rejected(t) ==
  /\ sending[t].at = "sent"
  /\ bridgeFaults' = IF sending[t].token.session = login.session THEN bridgeFaults - 1 ELSE bridgeFaults
  /\ bridgeFaults' \in Nat
  /\ sending' = [sending EXCEPT ![t].at = IF sending[t].attempt = 0 THEN "cache" ELSE "failed",
                                ![t].attempt = 1]
  /\ UNCHANGED <<account, tokenCache, cacheLock, loginLock, dialogue, minted>>

\* The server takes the message; the answer to initialize pins the session.
Accepted(t) ==
  LET m == sending[t].message IN
    /\ sending[t].at = "sent"
    /\ cancelled' = IF Script[m].kind = "cancel" THEN cancelled \cup {Script[m].of} ELSE cancelled
    /\ mcpSession' = IF Script[m].kind = "initialize" THEN "pinned" ELSE mcpSession
    /\ Goes(t, IF IsRequest(m) THEN "stream" ELSE "over")
    /\ UNCHANGED <<account, tokenCache, cacheLock, loginLock, read, answers, minted, bridgeFaults>>

\* The result comes in the stream, for a slow call only once it is cancelled.
Answer(t) ==
  LET m == sending[t].message IN
    /\ sending[t].at = "stream" /\ (m \in Slow => m \in cancelled)
    /\ answers' = [answers EXCEPT ![m] = @ + 1]
    /\ sending' = [sending EXCEPT ![t].responded = TRUE, ![t].at = "over"]
    /\ UNCHANGED <<account, tokenCache, cacheLock, loginLock, read, mcpSession, cancelled, minted,
                   bridgeFaults>>

\* Until then the server keeps the stream alive.
KeepAlive(t) ==
  /\ sending[t].at = "stream" /\ sending[t].message \in Slow \ cancelled
  /\ UNCHANGED bridgeVars

\* The transport fails: before the answer, or after it.
TransportFails(t) ==
  /\ sending[t].at \in {"sent", "stream", "over"} /\ bridgeFaults > 0
  /\ bridgeFaults' = bridgeFaults - 1
  /\ Goes(t, "failed")
  /\ UNCHANGED <<account, tokenCache, cacheLock, loginLock, dialogue, minted>>

\* A failure completes a request that has no answer yet.
Unanswered(t) == IsRequest(sending[t].message) /\ ~sending[t].responded

\* A cancellation that fails has no answer: the call is left to its timeout.
Report(t) ==
  /\ sending[t].at = "failed"
  /\ LET sent == Script[sending[t].message] IN
       cancelled' = IF sent.kind = "cancel" THEN cancelled \cup {sent.of} ELSE cancelled
  /\ answers' = IF Unanswered(t) THEN [answers EXCEPT ![sending[t].message] = @ + 1] ELSE answers
  /\ sending' = [sending EXCEPT ![t] = Resting]
  /\ UNCHANGED <<account, tokenCache, cacheLock, loginLock, read, mcpSession, minted, bridgeFaults>>

Complete(t) ==
  /\ sending[t].at = "over"
  /\ sending' = [sending EXCEPT ![t] = Resting]
  /\ UNCHANGED <<account, tokenCache, cacheLock, loginLock, dialogue, minted, bridgeFaults>>

-----------------------------------------------------------------------------

\* The user signs in, to either account, or out, under the login's lock.
SignIn ==
  /\ loginLock = Nobody /\ logins <= MaxLogins
  /\ logins' = logins + 1
  /\ \E a \in {"bound", "other"} : login' = [account |-> a, session |-> logins + 1]
  /\ UNCHANGED <<tokenCache, cacheLock, loginLock, dialogue, sending, minted, bridgeFaults>>

SignOut ==
  /\ loginLock = Nobody /\ login # SignedOut
  /\ login' = SignedOut
  /\ UNCHANGED <<logins, tokenCache, cacheLock, loginLock, dialogue, sending, minted, bridgeFaults>>

\* The agent closes stdin: the pool is left when its calls are over.
Closed ==
  /\ read = Len(Script) /\ \A t \in Senders : sending[t] = Resting
  /\ UNCHANGED bridgeVars

Sends(t) ==
  \/ LockCache(t) \/ CheckLogin(t) \/ Renew(t) \/ Issue(t) \/ Mint(t) \/ IssueFails(t)
  \/ Post(t) \/ Rejected(t) \/ Accepted(t) \/ Answer(t) \/ TransportFails(t)
  \/ Report(t) \/ Complete(t)

BridgeNext ==
  ReadMessage \/ SignIn \/ SignOut \/ Closed \/ \E t \in Senders : Sends(t) \/ KeepAlive(t)

\* Senders are scheduled, locks are handed on, and requests time out.
BridgeSpec ==
  /\ BridgeInit /\ [][BridgeNext]_bridgeVars
  /\ WF_bridgeVars(ReadMessage)
  /\ \A t \in Senders : SF_bridgeVars(Sends(t))

-----------------------------------------------------------------------------

\* Nothing is sent to Router on behalf of an account other than the bound one, whoever
\* signs in while a login is renewed or a token is fetched, and every call carries the
\* session that initialize has pinned.  (issue, run)
SentAsBound ==
  \A t \in Senders :
    sending[t].at = "sent" =>
      /\ sending[t].token.account = "bound"
      /\ IsCall(sending[t].message) => sending[t].session = mcpSession

\* The agent gets one answer to each request, and waits for none: whatever fails, and
\* although calls occupy every worker that end only when they are cancelled.
\* (run, Bridge.send)
OneAnswerEach ==
  <>[](\A m \in Positions : answers[m] = IF IsRequest(m) THEN 1 ELSE 0)

\* The agent is never answered twice.
NeverAnsweredTwice == \A m \in Positions : answers[m] <= 1

-----------------------------------------------------------------------------
(* The inductive invariant behind SentAsBound and NeverAnsweredTwice.       *)

BridgeTokens == [account : {"none", "bound", "other"}, session : Nat, serial : Nat]

SendingSteps == {"cache", "check", "renew", "issue", "mint", "post", "sent", "stream",
                 "over", "failed"}

Sendings == [at : SendingSteps, message : Positions, attempt : {0, 1}, token : BridgeTokens,
             session : {"none", "pinned"}, responded : BOOLEAN]

BridgeTypeOK ==
  /\ login \in [account : {"none", "bound", "other"}, session : Nat]
  /\ tokenCache \in BridgeTokens
  /\ cacheLock \in Senders \cup {Nobody} /\ loginLock \in Senders \cup {Nobody}
  /\ read \in 0..Len(Script)
  /\ sending \in [Senders -> {Resting} \cup Sendings]
  /\ mcpSession \in {"none", "pinned"}
  /\ cancelled \subseteq Positions
  /\ answers \in [Positions -> Nat]
  /\ logins \in Nat /\ minted \in Nat /\ bridgeFaults \in Nat

\* Who is between the locks holds them, and nobody else does.
HeldInv ==
  \A t \in Senders :
    /\ cacheLock = t <=> sending[t].at \in {"check", "renew", "issue", "mint"}
    /\ loginLock = t <=> sending[t].at = "mint"

\* A token is of the bound account from the check under the login's lock on.
TokenInv ==
  \A t \in Senders :
    /\ sending[t].at = "mint" => Bound
    /\ sending[t].at \in {"post", "sent"} => sending[t].token.account = "bound"

\* Workers make the calls, each its own, and the reader reads on when it is done.
RoleInv ==
  \A t \in Senders : sending[t] # Resting =>
    /\ sending[t].message <= read
    /\ IsCall(sending[t].message) <=> t # Reader
    /\ t = Reader => sending[t].message = read
    /\ \A u \in Senders :
         sending[u] # Resting /\ sending[u].message = sending[t].message => u = t

\* A call carries the session there is.
SessionInv ==
  \A t \in Senders :
    sending[t].at = "sent" /\ IsCall(sending[t].message) => sending[t].session = mcpSession

\* A message has no answer before it is read, nor while its sender owes it.
AnswersInv ==
  /\ NeverAnsweredTwice
  /\ \A m \in Positions : m > read => answers[m] = 0
  /\ \A t \in Senders : sending[t] # Resting =>
       /\ ~sending[t].responded => answers[sending[t].message] = 0
       /\ sending[t].responded => sending[t].at \in {"over", "failed"}

BridgeInv ==
  /\ BridgeTypeOK /\ HeldInv /\ TokenInv /\ RoleInv /\ SessionInv /\ AnswersInv
=============================================================================
