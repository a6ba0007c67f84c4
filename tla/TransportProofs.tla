---------------------------- MODULE TransportProofs -----------------------------
(***************************************************************************)
(* The bridge of the connectors, for any conversation, any number of       *)
(* workers, sign-ins and failures, and the catalog of Pi's provider, for   *)
(* any number of keys, refreshes and changes of the credential.            *)
(*                                                                         *)
(* The bridge.  That a token is of the bound account rests on the login's  *)
(* lock, under which it is checked and made (HeldInv, TokenInv); that a    *)
(* call carries the session rests on the reader, which opens the session   *)
(* itself and reads nothing meanwhile (RoleInv); that no message is        *)
(* answered twice on each having one sender, which knows what it has       *)
(* answered (AnswersInv).                                                  *)
(*                                                                         *)
(* The catalog.  Nobody knows of a version Router has not had yet          *)
(* (NothingNewer); and who may still publish, by the generation, has read  *)
(* for the present key and is not older than what is live (NotBefore,      *)
(* TurnsAreCurrent).                                                       *)
(***************************************************************************)
EXTENDS ConnectorBridge, PiCatalog, TLAPS

\* Senders, messages and what is being sent.
LEMMA Facts ==
  /\ Len(Script) \in Nat /\ Reader \in Senders /\ Nobody \notin Senders
  /\ Workers \subseteq Senders /\ Reader \notin Workers
  /\ \A t \in Senders : t # Reader => t \in Workers
  /\ \A m \in Positions : m \in Nat /\ m >= 1 /\ m <= Len(Script)
  /\ \A s \in Sendings : s # Resting /\ s.at \in SendingSteps /\ s.message \in Positions
  /\ Resting \notin Sendings /\ Resting.at = "rest"
BY BridgeAssumption, SMT DEF Senders, Reader, Positions, Sendings, Resting, SendingSteps

\* Who is not resting sends.
LEMMA Sending ==
  ASSUME BridgeTypeOK, NEW t \in Senders
  PROVE  /\ sending[t].at # "rest" => sending[t] \in Sendings
         /\ sending[t] # Resting => sending[t] \in Sendings
BY Facts DEF BridgeTypeOK

\* One sender goes on with its message.
Moves(t) ==
  /\ sending[t] \in Sendings /\ sending'[t] \in Sendings
  /\ sending'[t].message = sending[t].message
  /\ \A u \in Senders : u # t => sending'[u] = sending[u]
  /\ sending' \in [Senders -> {Resting} \cup Sendings]

\* A sending in another place of its sender.
LEMMA Replaced ==
  ASSUME BridgeTypeOK, NEW t \in Senders, NEW s \in {Resting} \cup Sendings,
         sending' = [sending EXCEPT ![t] = s]
  PROVE  /\ sending'[t] = s
         /\ \A u \in Senders : u # t => sending'[u] = sending[u]
         /\ sending' \in [Senders -> {Resting} \cup Sendings]
BY DEF BridgeTypeOK

\* Two fields of a sending that change: the record they give.
LEMMA Changed ==
  ASSUME NEW s \in Sendings, NEW step, NEW token, NEW session
  PROVE  /\ [s EXCEPT !.at = step, !.token = token]
              = [at |-> step, message |-> s.message, attempt |-> s.attempt,
                 token |-> token, session |-> s.session, responded |-> s.responded]
         /\ [s EXCEPT !.at = step, !.session = session]
              = [at |-> step, message |-> s.message, attempt |-> s.attempt,
                 token |-> s.token, session |-> session, responded |-> s.responded]
         /\ [s EXCEPT !.at = step, !.attempt = 1]
              = [at |-> step, message |-> s.message, attempt |-> 1,
                 token |-> s.token, session |-> s.session, responded |-> s.responded]
<1>1. ASSUME NEW n, n = [s EXCEPT !.at = step, !.token = token]
      PROVE  n = [at |-> step, message |-> s.message, attempt |-> s.attempt,
                  token |-> token, session |-> s.session, responded |-> s.responded]
  BY <1>1, Zenon DEF Sendings
<1>2. ASSUME NEW n, n = [s EXCEPT !.at = step, !.session = session]
      PROVE  n = [at |-> step, message |-> s.message, attempt |-> s.attempt,
                  token |-> s.token, session |-> session, responded |-> s.responded]
  BY <1>2, Zenon DEF Sendings
<1>3. ASSUME NEW n, n = [s EXCEPT !.at = step, !.attempt = 1]
      PROVE  n = [at |-> step, message |-> s.message, attempt |-> 1,
                  token |-> s.token, session |-> s.session, responded |-> s.responded]
  BY <1>3, Zenon DEF Sendings
<1>4. QED BY <1>1, <1>2, <1>3, Zenon

\* A sending with its answer.
LEMMA WithAnswer ==
  ASSUME NEW s \in Sendings, NEW step \in SendingSteps, NEW n,
         n = [s EXCEPT !.responded = TRUE, !.at = step]
  PROVE  n \in Sendings /\ n.at = step /\ n.message = s.message /\ n.responded = TRUE
<1>1. n = [at |-> step, message |-> s.message, attempt |-> s.attempt,
             token |-> s.token, session |-> s.session, responded |-> TRUE]
  BY Zenon DEF Sendings
<1>2. n.responded = TRUE
  BY <1>1, Zenon
<1>3. n.at = step /\ n.message = s.message
  BY <1>1, Zenon
<1>4. /\ s.message \in Positions /\ s.attempt \in {0, 1} /\ s.token \in BridgeTokens
      /\ s.session \in {"none", "pinned"}
  BY SMT DEF Sendings
<1>5. n \in Sendings
  BY <1>1, <1>4, Zenon DEF Sendings
<1>6. QED BY <1>2, <1>3, <1>5

\* A sender goes on to its next step,
LEMMA GoesOn ==
  ASSUME BridgeTypeOK, NEW t \in Senders, sending[t] \in Sendings, NEW step \in SendingSteps,
         Goes(t, step)
  PROVE  /\ Moves(t) /\ sending'[t].at = step
         /\ sending'[t].token = sending[t].token /\ sending'[t].session = sending[t].session
         /\ sending'[t].responded = sending[t].responded
<1> DEFINE next == [sending[t] EXCEPT !.at = step]
<1>1. /\ next \in Sendings /\ next.at = step /\ next.message = sending[t].message
      /\ next.token = sending[t].token /\ next.session = sending[t].session
      /\ next.responded = sending[t].responded
  BY SMT DEF Sendings
<1>2. sending' = [sending EXCEPT ![t] = next]
  BY DEF Goes
<1> HIDE DEF next
<1>3. QED BY <1>1, <1>2, Replaced DEF Moves

\* ... with a token,
LEMMA GoesOnWithToken ==
  ASSUME BridgeTypeOK, NEW t \in Senders, sending[t] \in Sendings, NEW token \in BridgeTokens,
         sending' = [sending EXCEPT ![t].at = "post", ![t].token = token]
  PROVE  /\ Moves(t) /\ sending'[t].at = "post" /\ sending'[t].token = token
         /\ sending'[t].responded = sending[t].responded
<1> DEFINE s == sending[t]
           next == [at |-> "post", message |-> s.message, attempt |-> s.attempt,
                    token |-> token, session |-> s.session, responded |-> s.responded]
<1>1. /\ next \in Sendings /\ next.at = "post" /\ next.message = s.message
      /\ next.token = token /\ next.responded = s.responded
  BY SMT DEF Sendings, SendingSteps
<1>2. [s EXCEPT !.at = "post", !.token = token] = next
  BY Changed, Zenon
<1>3. sending' = [sending EXCEPT ![t] = next]
  BY <1>2
<1> HIDE DEF next
<1>4. QED BY <1>1, <1>3, Replaced DEF Moves

\* ... with the session there is,
LEMMA GoesOnWithSession ==
  ASSUME BridgeTypeOK, NEW t \in Senders, sending[t] \in Sendings,
         sending' = [sending EXCEPT ![t].at = "sent", ![t].session = mcpSession]
  PROVE  /\ Moves(t) /\ sending'[t].at = "sent" /\ sending'[t].session = mcpSession
         /\ sending'[t].token = sending[t].token
         /\ sending'[t].responded = sending[t].responded
<1> DEFINE s == sending[t]
           next == [at |-> "sent", message |-> s.message, attempt |-> s.attempt,
                    token |-> s.token, session |-> mcpSession, responded |-> s.responded]
<1>1. /\ next \in Sendings /\ next.at = "sent" /\ next.message = s.message
      /\ next.token = s.token /\ next.session = mcpSession /\ next.responded = s.responded
  BY SMT DEF Sendings, SendingSteps, BridgeTypeOK
<1>2. [s EXCEPT !.at = "sent", !.session = mcpSession] = next
  BY Changed, Zenon
<1>3. sending' = [sending EXCEPT ![t] = next]
  BY <1>2
<1> HIDE DEF next
<1>4. QED BY <1>1, <1>3, Replaced DEF Moves

\* ... to its second attempt, or none.
LEMMA TriesAgain ==
  ASSUME BridgeTypeOK, NEW t \in Senders, sending[t] \in Sendings,
         NEW step \in {"cache", "failed"},
         sending' = [sending EXCEPT ![t].at = step, ![t].attempt = 1]
  PROVE  /\ Moves(t) /\ sending'[t].at = step
         /\ sending'[t].responded = sending[t].responded
<1> DEFINE s == sending[t]
           next == [at |-> step, message |-> s.message, attempt |-> 1,
                    token |-> s.token, session |-> s.session, responded |-> s.responded]
<1>1. /\ next \in Sendings /\ next.at = step /\ next.message = s.message
      /\ next.responded = s.responded
  BY SMT DEF Sendings, SendingSteps
<1>2. [s EXCEPT !.at = step, !.attempt = 1] = next
  BY Changed, Zenon
<1>3. sending' = [sending EXCEPT ![t] = next]
  BY <1>2
<1> HIDE DEF next
<1>4. QED BY <1>1, <1>3, Replaced DEF Moves

\* A sender that goes on stays the one sender of its message.
LEMMA RoleStays ==
  ASSUME RoleInv, NEW t \in Senders, Moves(t), read' = read PROVE RoleInv'
BY Facts, SMT DEF RoleInv, Moves

\* Until it has answered, and as long as nobody has.
LEMMA AnswersStay ==
  ASSUME AnswersInv, NEW t \in Senders, Moves(t), read' = read, answers' = answers,
         sending'[t].responded = sending[t].responded,
         sending'[t].responded => sending'[t].at \in {"over", "failed"}
  PROVE  AnswersInv'
BY Facts, SMT DEF AnswersInv, NeverAnsweredTwice, Moves

\* A step that goes on to anything but the use of a token.
LEMMA TokensStay ==
  ASSUME BridgeTypeOK, HeldInv, TokenInv, NEW t \in Senders, Moves(t),
         sending'[t].at \notin {"mint", "post", "sent"},
         login' = login
  PROVE  TokenInv'
BY Facts, SMT DEF TokenInv, Moves, Bound

\* ... or the sending.
LEMMA SessionStays ==
  ASSUME SessionInv, NEW t \in Senders, Moves(t), sending'[t].at # "sent", mcpSession' = mcpSession
  PROVE  SessionInv'
BY Facts, SMT DEF SessionInv, Moves

\* The files start with the bound login, or with its token too.
LEMMA InitHolds == BridgeInit => BridgeInv
<1> SUFFICES ASSUME BridgeInit PROVE BridgeInv
  OBVIOUS
<1> USE Facts, BridgeAssumption DEF BridgeInit
<1>1. BridgeTypeOK
  BY SMT DEF BridgeTypeOK, BridgeTokens, NoToken
<1>2. HeldInv /\ TokenInv /\ RoleInv /\ SessionInv
  BY SMT DEF HeldInv, TokenInv, RoleInv, SessionInv
<1>3. AnswersInv
  BY SMT DEF AnswersInv, NeverAnsweredTwice
<1>4. QED BY <1>1, <1>2, <1>3 DEF BridgeInv

-----------------------------------------------------------------------------
(* A token.                                                                 *)

\* The cache's lock goes to one sender at a time.
LEMMA LockCacheKeeps == ASSUME BridgeInv, NEW t \in Senders, LockCache(t) PROVE BridgeInv'
<1> USE Facts DEF BridgeInv, LockCache, account, dialogue
<1>1. sending[t] \in Sendings
  BY Sending
<1>2. Moves(t) /\ sending'[t].at = "check" /\ sending'[t].responded = sending[t].responded
  BY <1>1, GoesOn DEF SendingSteps
<1>3. BridgeTypeOK'
  BY <1>2 DEF BridgeTypeOK, Moves
<1>4. HeldInv'
  BY <1>2, SMT DEF HeldInv, Moves
<1>5. TokenInv' /\ SessionInv' /\ RoleInv'
  BY <1>2, TokensStay, SessionStays, RoleStays
<1>6. AnswersInv'
  BY <1>1, <1>2, AnswersStay DEF AnswersInv
<1>7. QED BY <1>3, <1>4, <1>5, <1>6

\* A cached token is of the bound account while the login is.
LEMMA CheckLoginKeeps == ASSUME BridgeInv, NEW t \in Senders, CheckLogin(t) PROVE BridgeInv'
<1> USE Facts DEF BridgeInv, CheckLogin, account, dialogue
<1>1. sending[t] \in Sendings
  BY Sending
<1>2. Moves(t) /\ sending'[t].responded = sending[t].responded
  BY <1>1, GoesOn DEF SendingSteps
<1>3. \/ Bound /\ sending'[t].at = "renew" /\ cacheLock' = cacheLock
      \/ ~Bound /\ sending'[t].at = "failed" /\ cacheLock' = Nobody
  BY <1>1, GoesOn DEF SendingSteps
<1>4. BridgeTypeOK'
  BY <1>2, <1>3, SMT DEF BridgeTypeOK, Moves
<1>5. HeldInv'
  BY <1>2, <1>3, SMT DEF HeldInv, Moves
<1>6. TokenInv' /\ SessionInv' /\ RoleInv'
  BY <1>2, <1>3, TokensStay, SessionStays, RoleStays
<1>7. AnswersInv'
  BY <1>1, <1>2, AnswersStay DEF AnswersInv
<1>8. QED BY <1>4, <1>5, <1>6, <1>7

\* A renewal waits for the login's lock.
LEMMA RenewKeeps == ASSUME BridgeInv, NEW t \in Senders, Renew(t) PROVE BridgeInv'
<1> USE Facts DEF BridgeInv, Renew, account, dialogue
<1>1. sending[t] \in Sendings
  BY Sending
<1>2. Moves(t) /\ sending'[t].at = "issue" /\ sending'[t].responded = sending[t].responded
  BY <1>1, GoesOn DEF SendingSteps
<1>3. BridgeTypeOK'
  BY <1>2 DEF BridgeTypeOK, Moves
<1>4. HeldInv'
  BY <1>2, SMT DEF HeldInv, Moves
<1>5. TokenInv' /\ SessionInv' /\ RoleInv'
  BY <1>2, TokensStay, SessionStays, RoleStays
<1>6. AnswersInv'
  BY <1>1, <1>2, AnswersStay DEF AnswersInv
<1>7. QED BY <1>3, <1>4, <1>5, <1>6

\* The login is checked again in the step that takes the cached token, or the lock
\* under which a new one is made.
LEMMA IssueKeeps == ASSUME BridgeInv, NEW t \in Senders, Issue(t) PROVE BridgeInv'
<1> USE Facts DEF BridgeInv, account, dialogue
<1>1. sending[t] \in Sendings /\ sending[t].at = "issue"
  BY Sending DEF Issue
<1>2. CASE ~Bound
  <2>1. Moves(t) /\ sending'[t].at = "failed" /\ sending'[t].responded = sending[t].responded
    BY <1>1, <1>2, GoesOn DEF Issue, StillBound, SendingSteps
  <2>2. BridgeTypeOK'
    BY <1>2, <2>1 DEF BridgeTypeOK, Moves, Issue, StillBound
  <2>3. HeldInv'
    BY <1>1, <1>2, <2>1, SMT DEF HeldInv, Moves, Issue, StillBound
  <2>4. TokenInv' /\ SessionInv' /\ RoleInv'
    BY <2>1, TokensStay, SessionStays, RoleStays DEF Issue
  <2>5. AnswersInv'
    BY <1>1, <2>1, AnswersStay DEF AnswersInv, Issue
  <2>6. QED BY <2>2, <2>3, <2>4, <2>5
<1>3. CASE Bound /\ Cached(t)
  <2>1. /\ sending' = [sending EXCEPT ![t].at = "post", ![t].token = tokenCache]
        /\ cacheLock' = Nobody /\ loginLock' = loginLock /\ login' = login
    BY <1>3 DEF Issue, StillBound
  <2>2. tokenCache \in BridgeTokens /\ tokenCache.account = "bound"
    BY <1>3 DEF BridgeTypeOK, Cached, Bound
  <2>3. /\ Moves(t) /\ sending'[t].at = "post" /\ sending'[t].token = tokenCache
        /\ sending'[t].responded = sending[t].responded
    BY <1>1, <2>1, <2>2, GoesOnWithToken
  <2>4. BridgeTypeOK'
    BY <2>1, <2>3 DEF BridgeTypeOK, Moves, Issue
  <2>5. HeldInv'
    BY <1>1, <2>1, <2>3, SMT DEF HeldInv, Moves
  <2>6. TokenInv'
    BY <2>1, <2>2, <2>3, SMT DEF TokenInv, Moves, Bound
  <2>7. SessionInv' /\ RoleInv'
    BY <2>3, SessionStays, RoleStays DEF Issue
  <2>8. AnswersInv'
    BY <1>1, <2>3, AnswersStay DEF AnswersInv, Issue
  <2>9. QED BY <2>4, <2>5, <2>6, <2>7, <2>8
<1>4. CASE Bound /\ ~Cached(t)
  <2>1. Goes(t, "mint") /\ loginLock = Nobody /\ loginLock' = t /\ cacheLock' = cacheLock /\ login' = login
    BY <1>4 DEF Issue, StillBound
  <2>2. Moves(t) /\ sending'[t].at = "mint" /\ sending'[t].responded = sending[t].responded
    BY <1>1, <2>1, GoesOn DEF SendingSteps
  <2>3. BridgeTypeOK'
    BY <2>1, <2>2 DEF BridgeTypeOK, Moves, Issue
  <2>4. HeldInv'
    BY <1>1, <2>1, <2>2, SMT DEF HeldInv, Moves
  <2>5. TokenInv'
    BY <1>4, <2>1, <2>2, SMT DEF TokenInv, Moves, Bound
  <2>6. SessionInv' /\ RoleInv'
    BY <2>2, SessionStays, RoleStays DEF Issue
  <2>7. AnswersInv'
    BY <1>1, <2>2, AnswersStay DEF AnswersInv, Issue
  <2>8. QED BY <2>3, <2>4, <2>5, <2>6, <2>7
<1>5. QED BY <1>2, <1>3, <1>4

\* Nobody signs in or out while the token is made.
LEMMA MintKeeps == ASSUME BridgeInv, NEW t \in Senders, Mint(t) PROVE BridgeInv'
<1> USE Facts DEF BridgeInv, account, dialogue
<1> DEFINE token == [account |-> login.account, session |-> login.session, serial |-> minted + 1]
<1>1. sending[t] \in Sendings /\ sending[t].at = "mint"
  BY Sending DEF Mint
<1>2. token \in BridgeTokens /\ token.account = "bound"
  BY <1>1, SMT DEF BridgeTypeOK, BridgeTokens, TokenInv, Bound
<1>3. /\ sending' = [sending EXCEPT ![t].at = "post", ![t].token = token] /\ tokenCache' = token
      /\ cacheLock' = Nobody /\ loginLock' = Nobody /\ login' = login /\ minted' = minted + 1
  BY DEF Mint
<1> HIDE DEF token
<1>4. /\ Moves(t) /\ sending'[t].at = "post" /\ sending'[t].token = token
      /\ sending'[t].responded = sending[t].responded
  BY <1>1, <1>2, <1>3, GoesOnWithToken
<1>5. BridgeTypeOK'
  BY <1>2, <1>3, <1>4, SMT DEF BridgeTypeOK, Moves, Mint
<1>6. HeldInv'
  BY <1>1, <1>3, <1>4, SMT DEF HeldInv, Moves
<1>7. TokenInv'
  BY <1>2, <1>3, <1>4, SMT DEF TokenInv, Moves, Bound
<1>8. SessionInv' /\ RoleInv'
  BY <1>4, SessionStays, RoleStays DEF Mint
<1>9. AnswersInv'
  BY <1>1, <1>4, AnswersStay DEF AnswersInv, Mint
<1>10. QED BY <1>5, <1>6, <1>7, <1>8, <1>9

\* A failure gives back the locks and leaves an answer to be made.
LEMMA IssueFailsKeeps == ASSUME BridgeInv, NEW t \in Senders, IssueFails(t) PROVE BridgeInv'
<1> USE Facts DEF BridgeInv, IssueFails, account, dialogue
<1>1. sending[t] \in Sendings
  BY Sending
<1>2. Moves(t) /\ sending'[t].at = "failed" /\ sending'[t].responded = sending[t].responded
  BY <1>1, GoesOn DEF SendingSteps
<1>3. BridgeTypeOK'
  BY <1>2, SMT DEF BridgeTypeOK, Moves
<1>4. HeldInv'
  BY <1>2, SMT DEF HeldInv, Moves
<1>5. TokenInv' /\ SessionInv' /\ RoleInv'
  BY <1>2, TokensStay, SessionStays, RoleStays
<1>6. AnswersInv'
  BY <1>1, <1>2, AnswersStay DEF AnswersInv
<1>7. QED BY <1>3, <1>4, <1>5, <1>6

-----------------------------------------------------------------------------
(* A message.                                                               *)

\* What is posted carries the token issued and the session there is.
LEMMA PostKeeps == ASSUME BridgeInv, NEW t \in Senders, Post(t) PROVE BridgeInv'
<1> USE Facts DEF BridgeInv, account, dialogue
<1>1. sending[t] \in Sendings /\ sending[t].at = "post"
  BY Sending DEF Post
<1>2. /\ Moves(t) /\ sending'[t].at = "sent" /\ sending'[t].session = mcpSession
      /\ sending'[t].token = sending[t].token
      /\ sending'[t].responded = sending[t].responded
  BY <1>1, GoesOnWithSession DEF Post
<1>3. BridgeTypeOK'
  BY <1>2 DEF BridgeTypeOK, Moves, Post
<1>4. HeldInv' /\ TokenInv'
  BY <1>1, <1>2, SMT DEF HeldInv, TokenInv, Bound, Moves, Post
<1>5. SessionInv'
  BY <1>2, SMT DEF SessionInv, Moves, Post
<1>6. RoleInv'
  BY <1>2, RoleStays DEF Post
<1>7. AnswersInv'
  BY <1>1, <1>2, AnswersStay DEF AnswersInv, Post
<1>8. QED BY <1>3, <1>4, <1>5, <1>6, <1>7

\* A rejected token is dropped; another is issued once.
LEMMA RejectedKeeps == ASSUME BridgeInv, NEW t \in Senders, Rejected(t) PROVE BridgeInv'
<1> USE Facts DEF BridgeInv, account, dialogue
<1> DEFINE step == IF sending[t].attempt = 0 THEN "cache" ELSE "failed"
<1>1. sending[t] \in Sendings /\ sending[t].at = "sent"
  BY Sending DEF Rejected
<1>2. /\ step \in {"cache", "failed"}
      /\ sending' = [sending EXCEPT ![t].at = step, ![t].attempt = 1]
  BY DEF Rejected
<1> HIDE DEF step
<1>3. /\ Moves(t) /\ sending'[t].at = step
      /\ sending'[t].responded = sending[t].responded
  BY <1>1, <1>2, TriesAgain
<1>4. BridgeTypeOK'
  BY <1>3 DEF BridgeTypeOK, Moves, Rejected
<1>5. HeldInv'
  BY <1>1, <1>2, <1>3, SMT DEF HeldInv, Moves, Rejected
<1>6. TokenInv' /\ SessionInv' /\ RoleInv'
  BY <1>2, <1>3, TokensStay, SessionStays, RoleStays DEF Rejected
<1>7. AnswersInv'
  BY <1>1, <1>2, <1>3, AnswersStay DEF AnswersInv, Rejected
<1>8. QED BY <1>4, <1>5, <1>6, <1>7

\* The session is opened while no call is under way: all calls come later, and the
\* reader has read nothing since.
LEMMA AcceptedKeeps == ASSUME BridgeInv, NEW t \in Senders, Accepted(t) PROVE BridgeInv'
<1> USE Facts DEF BridgeInv, account
<1>1. sending[t] \in Sendings /\ sending[t].at = "sent"
  BY Sending DEF Accepted
<1>2. \E step \in {"stream", "over"} : Goes(t, step)
  BY DEF Accepted
<1>3. /\ Moves(t) /\ sending'[t].at \in {"stream", "over"}
      /\ sending'[t].responded = sending[t].responded
  BY <1>1, <1>2, GoesOn DEF SendingSteps
<1>4. BridgeTypeOK'
  <2>1. cancelled' \subseteq Positions /\ mcpSession' \in {"none", "pinned"}
    BY <1>1, BridgeAssumption DEF BridgeTypeOK, Accepted
  <2>2. QED BY <1>3, <2>1 DEF BridgeTypeOK, Moves, Accepted
<1>5. HeldInv'
  BY <1>1, <1>3, SMT DEF HeldInv, Moves, Accepted
<1>6. TokenInv' /\ RoleInv'
  BY <1>3, TokensStay, RoleStays DEF Accepted
<1>7. SessionInv'
  <2>1. CASE Script[sending[t].message].kind = "initialize"
    <3> SUFFICES ASSUME NEW u \in Senders, u # t, sending[u].at = "sent", IsCall(sending[u].message)
                 PROVE  FALSE
      BY <1>3 DEF SessionInv, Moves
    <3>1. sending[u] \in Sendings
      BY Sending
    <3>2. ~IsCall(sending[t].message)
      BY <2>1 DEF IsCall
    <3>3. sending[t].message = read /\ sending[u].message <= read
      BY <1>1, <3>1, <3>2 DEF RoleInv
    <3>4. sending[t].message < sending[u].message
      BY <1>1, <2>1, <3>1, BridgeAssumption
    <3>5. QED BY <1>1, <3>1, <3>3, <3>4, SMT
  <2>2. CASE Script[sending[t].message].kind # "initialize"
    BY <1>3, <2>2, SessionStays DEF Accepted
  <2>3. QED BY <2>1, <2>2
<1>8. AnswersInv'
  BY <1>1, <1>3, AnswersStay DEF AnswersInv, Accepted
<1>9. QED BY <1>4, <1>5, <1>6, <1>7, <1>8

\* The sender of a message is the only one to answer it.
LEMMA AnswerKeeps == ASSUME BridgeInv, NEW t \in Senders, Answer(t) PROVE BridgeInv'
<1> USE Facts DEF BridgeInv, account
<1> DEFINE m == sending[t].message
           next == [sending[t] EXCEPT !.responded = TRUE, !.at = "over"]
<1>1. sending[t] \in Sendings /\ sending[t].at = "stream" /\ m \in Positions
  BY Sending DEF Answer
<1>2. next \in Sendings /\ next.at = "over" /\ next.message = m /\ next.responded = TRUE
  <2>1. "over" \in SendingSteps
    BY DEF SendingSteps
  <2>2. QED BY <1>1, <2>1, WithAnswer
<1>3. /\ sending' = [sending EXCEPT ![t] = next] /\ read' = read
      /\ answers' = [answers EXCEPT ![m] = @ + 1]
  BY DEF Answer
<1> HIDE DEF next
<1>4. Moves(t) /\ sending'[t] = next
  BY <1>1, <1>2, <1>3, Replaced DEF Moves
<1>5. answers[m] = 0
  BY <1>1 DEF AnswersInv
<1>6. answers' \in [Positions -> Nat] /\ answers'[m] = 1
      /\ \A n \in Positions : n # m => answers'[n] = answers[n]
  BY <1>1, <1>3, <1>5, SMT DEF BridgeTypeOK
<1>7. BridgeTypeOK'
  BY <1>4, <1>6 DEF BridgeTypeOK, Moves, Answer
<1>8. HeldInv'
  BY <1>1, <1>2, <1>4, SMT DEF HeldInv, Moves, Answer
<1>9. TokenInv' /\ SessionInv' /\ RoleInv'
  BY <1>2, <1>3, <1>4, TokensStay, SessionStays, RoleStays DEF Answer
<1>10. AnswersInv'
  <2>1. m <= read /\ \A u \in Senders : u # t /\ sending[u] # Resting => sending[u].message # m
    BY <1>1 DEF RoleInv
  <2>2. \A n \in Positions : answers'[n] <= 1 /\ (n > read' => answers'[n] = 0)
    BY <1>1, <1>3, <1>6, <2>1, SMT DEF AnswersInv, NeverAnsweredTwice, BridgeTypeOK
  <2>3. ASSUME NEW u \in Senders, sending'[u] # Resting
        PROVE  /\ ~sending'[u].responded => answers'[sending'[u].message] = 0
               /\ sending'[u].responded => sending'[u].at \in {"over", "failed"}
    <3>1. CASE u = t
      BY <1>2, <1>4, <3>1
    <3>2. CASE u # t
      BY <1>4, <1>6, <2>1, <2>3, <3>2, Sending DEF AnswersInv, Moves
    <3>3. QED BY <3>1, <3>2
  <2>4. QED BY <2>2, <2>3 DEF AnswersInv, NeverAnsweredTwice
<1>11. QED BY <1>7, <1>8, <1>9, <1>10

\* A request that fails is answered by its sender as well.
LEMMA TransportFailsKeeps == ASSUME BridgeInv, NEW t \in Senders, TransportFails(t) PROVE BridgeInv'
<1> USE Facts DEF BridgeInv, TransportFails, account, dialogue
<1>1. sending[t] \in Sendings
  BY Sending
<1>2. Moves(t) /\ sending'[t].at = "failed" /\ sending'[t].responded = sending[t].responded
  BY <1>1, GoesOn DEF SendingSteps
<1>3. BridgeTypeOK'
  BY <1>2, SMT DEF BridgeTypeOK, Moves
<1>4. HeldInv'
  BY <1>2, SMT DEF HeldInv, Moves
<1>5. TokenInv' /\ SessionInv' /\ RoleInv'
  BY <1>2, TokensStay, SessionStays, RoleStays
<1>6. AnswersInv'
  BY <1>1, <1>2, AnswersStay DEF AnswersInv
<1>7. QED BY <1>3, <1>4, <1>5, <1>6

\* A sender that rests takes nothing along.
LEMMA Rests ==
  ASSUME BridgeTypeOK, HeldInv, TokenInv, RoleInv, SessionInv,
         NEW t \in Senders, sending[t].at \in {"failed", "over"},
         sending' = [sending EXCEPT ![t] = Resting],
         login' = login, cacheLock' = cacheLock, loginLock' = loginLock, read' = read,
         mcpSession' = mcpSession
  PROVE  /\ HeldInv' /\ TokenInv' /\ RoleInv' /\ SessionInv'
         /\ sending' \in [Senders -> {Resting} \cup Sendings]
         /\ sending'[t] = Resting /\ \A u \in Senders : u # t => sending'[u] = sending[u]
<1>1. /\ sending' \in [Senders -> {Resting} \cup Sendings]
      /\ sending'[t] = Resting /\ \A u \in Senders : u # t => sending'[u] = sending[u]
  BY Replaced
<1>2. HeldInv'
  BY <1>1, Facts, SMT DEF HeldInv
<1>3. TokenInv' /\ SessionInv'
  BY <1>1, Facts, SMT DEF TokenInv, Bound, SessionInv
<1>4. RoleInv'
  BY <1>1, SMT DEF RoleInv
<1>5. QED BY <1>1, <1>2, <1>3, <1>4

\* A failure is reported if the message has no answer yet.
LEMMA ReportKeeps == ASSUME BridgeInv, NEW t \in Senders, Report(t) PROVE BridgeInv'
<1> USE Facts DEF BridgeInv, account
<1> DEFINE m == sending[t].message
<1>1. sending[t] \in Sendings /\ sending[t].at = "failed" /\ m \in Positions
  BY Sending DEF Report
<1>2. /\ HeldInv' /\ TokenInv' /\ RoleInv' /\ SessionInv'
      /\ sending' \in [Senders -> {Resting} \cup Sendings]
      /\ sending'[t] = Resting /\ \A u \in Senders : u # t => sending'[u] = sending[u]
  BY <1>1, Rests DEF Report
<1>3. /\ answers' \in [Positions -> Nat]
      /\ (answers'[m] = answers[m] \/ (~sending[t].responded /\ answers'[m] = answers[m] + 1))
      /\ \A n \in Positions : n # m => answers'[n] = answers[n]
  <2>1. \/ answers' = answers
        \/ ~sending[t].responded /\ answers' = [answers EXCEPT ![m] = @ + 1]
    BY DEF Report, Unanswered
  <2>2. answers \in [Positions -> Nat] /\ answers[m] + 1 \in Nat
    BY <1>1, SMT DEF BridgeTypeOK
  <2> HIDE DEF m
  <2>3. CASE answers' = answers
    BY <2>2, <2>3, Zenon
  <2>4. CASE ~sending[t].responded /\ answers' = [answers EXCEPT ![m] = @ + 1]
    BY <1>1, <2>2, <2>4, Zenon
  <2>5. QED BY <2>1, <2>3, <2>4
<1>4. BridgeTypeOK'
  <2>1. cancelled' \subseteq Positions
    BY <1>1, BridgeAssumption DEF BridgeTypeOK, Report
  <2>2. QED BY <1>2, <1>3, <2>1 DEF BridgeTypeOK, Report
<1>5. AnswersInv'
  <2>1. m <= read /\ \A u \in Senders : u # t /\ sending[u] # Resting => sending[u].message # m
    BY <1>1 DEF RoleInv
  <2>2. answers'[m] <= 1
    BY <1>1, <1>3, SMT DEF AnswersInv, NeverAnsweredTwice, BridgeTypeOK
  <2>3. \A n \in Positions : answers'[n] <= 1 /\ (n > read' => answers'[n] = 0)
    BY <1>1, <1>3, <2>1, <2>2, SMT DEF AnswersInv, NeverAnsweredTwice, BridgeTypeOK, Report
  <2>4. ASSUME NEW u \in Senders, sending'[u] # Resting
        PROVE  /\ ~sending'[u].responded => answers'[sending'[u].message] = 0
               /\ sending'[u].responded => sending'[u].at \in {"over", "failed"}
    <3>1. u # t /\ sending'[u] = sending[u]
      BY <1>2, <2>4
    <3>2. QED BY <1>3, <2>1, <2>4, <3>1, Sending DEF AnswersInv
  <2>5. QED BY <2>3, <2>4 DEF AnswersInv, NeverAnsweredTwice
<1>6. QED BY <1>2, <1>4, <1>5

\* A sender that is done owes nothing any more.
LEMMA CompleteKeeps == ASSUME BridgeInv, NEW t \in Senders, Complete(t) PROVE BridgeInv'
<1> USE DEF BridgeInv, Complete, account, dialogue
<1>1. /\ HeldInv' /\ TokenInv' /\ RoleInv' /\ SessionInv'
      /\ sending' \in [Senders -> {Resting} \cup Sendings]
      /\ sending'[t] = Resting /\ \A u \in Senders : u # t => sending'[u] = sending[u]
  BY Rests
<1>2. BridgeTypeOK'
  BY <1>1 DEF BridgeTypeOK
<1>3. AnswersInv'
  BY <1>1, SMT DEF AnswersInv, NeverAnsweredTwice
<1>4. QED BY <1>1, <1>2, <1>3

-----------------------------------------------------------------------------
(* Reading, and the user.                                                   *)

\* A message that is taken: by the reader while it reads no further, or by a worker
\* that has no other.
LEMMA TakeKeeps ==
  ASSUME BridgeInv, NEW t \in Senders, sending[t] = Resting, sending[Reader] = Resting,
         read + 1 \in Positions, Take(t, read + 1), IsCall(read + 1) <=> t # Reader,
         read' = read + 1, answers' = answers,
         UNCHANGED <<account, tokenCache, cacheLock, loginLock, mcpSession, cancelled, minted,
                     bridgeFaults>>
  PROVE  BridgeInv'
<1> USE Facts DEF BridgeInv, account
<1> DEFINE m == read + 1
           next == [at |-> "cache", message |-> m, attempt |-> 0,
                    token |-> NoToken, session |-> "none", responded |-> FALSE]
<1>1. next \in Sendings /\ next.at = "cache" /\ next.message = m /\ ~next.responded
  BY SMT DEF Sendings, SendingSteps, BridgeTokens, NoToken
<1>2. sending' = [sending EXCEPT ![t] = next]
  BY DEF Take
<1> HIDE DEF next
<1>3. /\ sending' \in [Senders -> {Resting} \cup Sendings]
      /\ sending'[t] = next /\ \A u \in Senders : u # t => sending'[u] = sending[u]
  BY <1>1, <1>2, Replaced
<1>4. read \in Nat /\ m \in Nat /\ m > read /\ read' \in 0..Len(Script)
  BY SMT DEF BridgeTypeOK, Positions
<1>5. BridgeTypeOK'
  BY <1>3, <1>4 DEF BridgeTypeOK
<1>6. HeldInv' /\ TokenInv' /\ SessionInv'
  BY <1>1, <1>3, SMT DEF HeldInv, TokenInv, Bound, SessionInv
<1>7. RoleInv'
  <2>1. \A u \in Senders : sending[u] # Resting =>
          sending[u].message \in Nat /\ sending[u].message <= read
    BY Sending DEF RoleInv
  <2>2. QED BY <1>1, <1>3, <1>4, <2>1, SMT DEF RoleInv
<1>8. AnswersInv'
  <2>1. answers[m] = 0
    BY <1>4 DEF AnswersInv
  <2>2. \A n \in Positions : n > read' => answers'[n] = 0
    BY <1>4, SMT DEF AnswersInv
  <2>3. QED BY <1>1, <1>3, <2>1, <2>2, SMT DEF AnswersInv, NeverAnsweredTwice
<1>9. QED BY <1>5, <1>6, <1>7, <1>8

\* The message read next has no answer and no sender yet.
LEMMA ReadMessageKeeps == ASSUME BridgeInv, ReadMessage PROVE BridgeInv'
<1> USE Facts DEF BridgeInv
<1> DEFINE m == read + 1
           free == {w \in Workers : sending[w] = Resting}
<1>1. /\ read \in Nat /\ m \in Nat /\ m \in Positions /\ m > read /\ read' = m /\ read' \in 0..Len(Script)
      /\ sending[Reader] = Resting
  BY SMT DEF ReadMessage, BridgeTypeOK, Positions
<1>2. CASE ~IsCall(m)
  BY <1>1, <1>2, TakeKeeps DEF ReadMessage, Control
<1>3. CASE IsCall(m) /\ free # {}
  <2> DEFINE w == CHOOSE v \in free : TRUE
  <2>1. w \in free
    BY <1>3
  <2>2. Take(w, m) /\ answers' = answers
    BY <1>3 DEF ReadMessage, Control
  <2> HIDE DEF w
  <2>3. QED BY <1>1, <1>3, <2>1, <2>2, TakeKeeps DEF ReadMessage
<1>4. CASE IsCall(m) /\ free = {}
  <2>1. /\ sending' = sending
        /\ answers' = IF IsRequest(m) THEN [answers EXCEPT ![m] = @ + 1] ELSE answers
        /\ UNCHANGED <<account, tokenCache, cacheLock, loginLock, mcpSession, cancelled, minted,
                       bridgeFaults>>
    BY <1>4 DEF ReadMessage, Control
  <2>2. answers[m] = 0
    BY <1>1 DEF AnswersInv
  <2>3. /\ answers' \in [Positions -> Nat] /\ answers'[m] <= 1
        /\ \A n \in Positions : n # m => answers'[n] = answers[n]
    BY <1>1, <2>1, <2>2, SMT DEF BridgeTypeOK
  <2>4. BridgeTypeOK' /\ HeldInv' /\ TokenInv' /\ SessionInv'
    BY <1>1, <2>1, <2>3 DEF BridgeTypeOK, HeldInv, TokenInv, Bound, SessionInv, account
  <2>5. \A u \in Senders : sending[u] # Resting => sending[u].message \in Positions /\ sending[u].message <= read
    BY Sending DEF RoleInv
  <2>6. RoleInv'
    BY <1>1, <2>1, <2>5, SMT DEF RoleInv
  <2>7. AnswersInv'
    BY <1>1, <2>1, <2>3, <2>5, SMT DEF AnswersInv, NeverAnsweredTwice, BridgeTypeOK
  <2>8. QED BY <2>4, <2>6, <2>7
<1>5. QED BY <1>2, <1>3, <1>4

\* A sign-in waits for the login's lock, so no token is being made.
LEMMA UserKeeps == ASSUME BridgeInv, SignIn \/ SignOut PROVE BridgeInv'
<1> USE DEF BridgeInv, dialogue
<1>1. loginLock = Nobody /\ UNCHANGED <<tokenCache, cacheLock, loginLock, dialogue, sending, minted, bridgeFaults>>
  BY DEF SignIn, SignOut
<1>2. login' \in [account : {"none", "bound", "other"}, session : Nat] /\ logins' \in Nat
  BY SMT DEF SignIn, SignOut, SignedOut, BridgeTypeOK
<1>3. BridgeTypeOK'
  BY <1>1, <1>2 DEF BridgeTypeOK
<1>4. \A t \in Senders : sending[t].at # "mint"
  BY <1>1, Facts DEF HeldInv
<1>5. TokenInv'
  BY <1>1, <1>4 DEF TokenInv
<1>6. HeldInv' /\ RoleInv' /\ SessionInv' /\ AnswersInv'
  BY <1>1 DEF HeldInv, RoleInv, SessionInv, AnswersInv, NeverAnsweredTwice
<1>7. QED BY <1>3, <1>5, <1>6

\* A step of the rest of the system changes nothing here.
LEMMA StutterKeeps == ASSUME BridgeInv, UNCHANGED bridgeVars PROVE BridgeInv'
BY DEF BridgeInv, bridgeVars, BridgeTypeOK, HeldInv, TokenInv, Bound, RoleInv, SessionInv,
       AnswersInv, NeverAnsweredTwice

-----------------------------------------------------------------------------

\* Who holds the locks, who sends which message with which token, and what is
\* answered fit together in every state (Bridge.send, issue).
THEOREM BridgeInductive == BridgeSpec => []BridgeInv
<1>1. BridgeInv /\ [BridgeNext]_bridgeVars => BridgeInv'
  <2> SUFFICES ASSUME BridgeInv, [BridgeNext]_bridgeVars PROVE BridgeInv'
    OBVIOUS
  <2>1. CASE UNCHANGED bridgeVars
    BY <2>1, StutterKeeps
  <2>2. CASE ReadMessage \/ SignIn \/ SignOut \/ Closed
    BY <2>2, ReadMessageKeeps, UserKeeps, StutterKeeps DEF Closed
  <2>3. CASE \E t \in Senders : Sends(t) \/ KeepAlive(t)
    BY <2>3, LockCacheKeeps, CheckLoginKeeps, RenewKeeps, IssueKeeps, MintKeeps, IssueFailsKeeps,
       PostKeeps, RejectedKeeps, AcceptedKeeps, AnswerKeeps, TransportFailsKeeps, ReportKeeps,
       CompleteKeeps, StutterKeeps DEF Sends, KeepAlive
  <2>4. QED BY <2>1, <2>2, <2>3 DEF BridgeNext
<1>2. QED BY InitHolds, <1>1, PTL DEF BridgeSpec

\* Whatever is sent to Router is sent for the bound account, whoever has signed in
\* meanwhile, and every call carries the session that initialize has pinned.
THEOREM BoundTokensOnly == BridgeSpec => []SentAsBound
<1>1. BridgeInv => SentAsBound
  BY DEF BridgeInv, TokenInv, SessionInv, SentAsBound
<1>2. QED BY BridgeInductive, <1>1, PTL

\* No request of the agent is answered twice, whichever retries, failures and
\* refusals its sending has gone through.
THEOREM AnswersAreSingle == BridgeSpec => []NeverAnsweredTwice
<1>1. BridgeInv => NeverAnsweredTwice
  BY DEF BridgeInv, AnswersInv
<1>2. QED BY BridgeInductive, <1>1, PTL

-----------------------------------------------------------------------------
(* Pi's catalog.                                                            *)

USE PiBoundsAssumption

\* Catalogs, and what is under way.
LEMMA CatalogFields ==
  /\ \A c \in Catalogs : c.version \in Nat /\ (c.of = "none" => c = EmptyCatalog)
  /\ EmptyCatalog.version = 0 /\ EmptyCatalog.of = "none"
  /\ \A k \in RouterKeys, v \in Nat :
       /\ [of |-> k, version |-> v] \in Catalogs
       /\ [of |-> k, version |-> v].of = k /\ [of |-> k, version |-> v].version = v
BY DEF Catalogs, EmptyCatalog

\* The background's refresh at each of its stages.
LEMMA BackgroundFields ==
  /\ NoBackground.at = "none"
  /\ \A b \in Backgrounds :
       /\ b.at \in {"asking", "checking", "checked"} <=> b # NoBackground
       /\ b # NoBackground => b.key \in RouterKeys
       /\ b.at \in {"checking", "checked"} => b.version \in Nat
BY DEF Backgrounds, NoBackground

\* A refresh of the host at each of its stages.
LEMMA RefreshFields ==
  /\ NoRefresh.at = "none"
  /\ \A s \in Refreshes :
       /\ s.at \in {"asking", "publishing"} <=> s # NoRefresh
       /\ s # NoRefresh => s.key \in RouterKeys
       /\ s.at = "publishing" => s.version \in Nat
BY DEF Refreshes, NoRefresh

\* The launch at each of its stages.
LEMMA LaunchFields ==
  \A l \in Launches :
    /\ l.at \in {"off", "running", "asking", "checking"}
    /\ l.at \in {"asking", "checking"} => l.key \in RouterKeys
    /\ l.at = "checking" => l.version \in Nat
BY DEF Launches

\* The key in force is one of Router's keys.
LEMMA EffectiveKey == PiTypeOK => Effective \in RouterKeys
BY DEF PiTypeOK, Effective

\* The provider is registered with its catalog.
LEMMA RegisterKeeps ==
  ASSUME PiInv, launch.at # "running", NEW k \in RouterKeys, NEW v \in Nat, v <= served, NEW b \in BOOLEAN,
         Register(k, v, b), cacheFile' \in Catalogs, cacheFile'.version <= served,
         UNCHANGED piOutside
  PROVE  PiInv'
<1>1. /\ launch'.at = "running" /\ launch' \in Launches
      /\ liveCatalog' \in Catalogs /\ liveCatalog'.of = k /\ liveCatalog'.version = v
      /\ told' = k /\ hostTurn' = "nobody"
      /\ hostRefresh' = hostRefresh /\ served' = served /\ storedKey' = storedKey
      /\ runtimeKey' = runtimeKey
  BY CatalogFields DEF Register, Launches, PiInv, NotBefore, piOutside
<1>2. /\ generation' \in {"background", "nobody"}
      /\ background' \in Backgrounds /\ background'.at \in {"none", "asking"}
      /\ background'.at = "asking" => background'.key = k
  BY BackgroundFields DEF Register, Backgrounds, NoBackground
<1>3. PiTypeOK'
  BY <1>1, <1>2 DEF PiInv, PiTypeOK, Publishers
<1>4. NothingNewer'
  BY <1>1, <1>2 DEF PiInv, NothingNewer
<1>5. NotBefore'
  BY <1>1 DEF NotBefore
<1>6. TurnsAreCurrent'
  BY <1>1, <1>2, <1>3, BackgroundFields DEF TurnsAreCurrent, PiTypeOK
<1> QED BY <1>3, <1>4, <1>5, <1>6 DEF PiInv

\* What is cached for a key is of that key.
LEMMA CachedVersion ==
  ASSUME PiInv, NEW k
  PROVE  CachedFor(k) \in Nat /\ CachedFor(k) <= served
BY CatalogFields DEF CachedFor, PiInv, PiTypeOK, NothingNewer

\* A launch, in its steps.
LEMMA LaunchKeeps ==
  ASSUME PiInv, LaunchAtOnce \/ LaunchAsking \/ LaunchAnswered \/ LaunchChecked
  PROVE  PiInv'
<1>1. CASE LaunchAtOnce
  <2>1. PICK b \in BOOLEAN : Register(storedKey, CachedFor(storedKey), b)
    <3>1. PICK online \in BOOLEAN :
            Register(storedKey, CachedFor(storedKey), online /\ CachedFor(storedKey) > 0)
      BY <1>1 DEF LaunchAtOnce
    <3>2. (online /\ CachedFor(storedKey) > 0) \in BOOLEAN
      OBVIOUS
    <3> QED BY <3>1, <3>2
  <2>2. launch.at # "running" /\ cacheFile' = cacheFile /\ UNCHANGED piOutside
    BY <1>1 DEF LaunchAtOnce
  <2>3. storedKey \in RouterKeys /\ cacheFile' \in Catalogs /\ cacheFile'.version <= served
    BY <2>2 DEF PiInv, PiTypeOK, NothingNewer
  <2> QED BY <2>1, <2>2, <2>3, CachedVersion, RegisterKeeps
<1>2. CASE LaunchAsking
  <2>1. /\ launch' = [at |-> "asking", key |-> storedKey] /\ launch.at = "off"
        /\ UNCHANGED <<piOutside, cacheFile, liveCatalog, generation, background, hostRefresh,
                       hostTurn, snapshot, told>>
    BY <1>2 DEF LaunchAsking
  <2>2. launch' \in Launches /\ launch'.at = "asking"
    BY <2>1 DEF PiInv, PiTypeOK, Launches
  <2> QED BY <2>1, <2>2 DEF piOutside, PiInv, PiTypeOK, NothingNewer, NotBefore, TurnsAreCurrent
<1>3. CASE LaunchAnswered
  <2>1. launch.at = "asking" /\ launch.key \in RouterKeys /\ UNCHANGED <<piOutside, cacheFile>>
    BY <1>3, LaunchFields DEF LaunchAnswered, PiInv, PiTypeOK
  <2>2. CASE Register(launch.key, 0, FALSE)
    <3>1. cacheFile' \in Catalogs /\ cacheFile'.version <= served /\ 0 <= served /\ FALSE \in BOOLEAN
      BY <2>1 DEF PiInv, PiTypeOK, NothingNewer
    <3> QED BY <2>1, <2>2, <3>1, RegisterKeeps
  <2>3. CASE ~Register(launch.key, 0, FALSE)
    <3>1. /\ launch' = [at |-> "checking", key |-> launch.key, version |-> served]
          /\ UNCHANGED <<liveCatalog, generation, background, hostRefresh, hostTurn, snapshot, told>>
      BY <1>3, <2>3 DEF LaunchAnswered
    <3>2. launch' \in Launches /\ launch'.at = "checking" /\ launch'.version = served
      BY <2>1, <3>1 DEF PiInv, PiTypeOK, Launches
    <3> QED BY <2>1, <3>1, <3>2 DEF piOutside, PiInv, PiTypeOK, NothingNewer, NotBefore, TurnsAreCurrent
  <2> QED BY <2>2, <2>3
<1>4. CASE LaunchChecked
  <2>1. /\ launch.at = "checking" /\ launch.key \in RouterKeys /\ launch.version \in Nat
        /\ launch.version <= served /\ UNCHANGED piOutside
    BY <1>4, LaunchFields DEF LaunchChecked, PiInv, PiTypeOK, NothingNewer
  <2>2. CASE /\ Register(launch.key, launch.version, FALSE)
             /\ cacheFile' = [of |-> launch.key, version |-> launch.version]
    <3>1. cacheFile' \in Catalogs /\ cacheFile'.version <= served /\ FALSE \in BOOLEAN
      BY <2>1, <2>2, CatalogFields
    <3> QED BY <2>1, <2>2, <3>1, RegisterKeeps
  <2>3. CASE Register(launch.key, 0, FALSE) /\ UNCHANGED cacheFile
    <3>1. /\ cacheFile' \in Catalogs /\ cacheFile'.version <= served /\ 0 <= served /\ 0 \in Nat
          /\ FALSE \in BOOLEAN
      BY <2>3 DEF PiInv, PiTypeOK, NothingNewer
    <3> QED BY <2>1, <2>3, <3>1, RegisterKeeps
  <2> QED BY <1>4, <2>2, <2>3 DEF LaunchChecked
<1> QED BY <1>1, <1>2, <1>3, <1>4

\* Pi is quit.
LEMMA QuitKeeps == PiInv /\ Quit => PiInv'
<1> SUFFICES ASSUME PiInv, Quit PROVE PiInv'
  OBVIOUS
<1>1. /\ launch' \in Launches /\ launch'.at = "off" /\ liveCatalog' = EmptyCatalog
      /\ generation' = "nobody" /\ hostTurn' = "nobody" /\ background' = NoBackground
      /\ hostRefresh' = [r \in HostRefreshes |-> NoRefresh] /\ runtimeKey' = "none"
      /\ UNCHANGED <<served, storedKey, cacheFile>>
  BY DEF Quit, Launches
<1>2. background' \in Backgrounds /\ hostRefresh' \in [HostRefreshes -> Refreshes] /\ liveCatalog' \in Catalogs
  BY <1>1 DEF Backgrounds, Refreshes, Catalogs
<1>3. PiTypeOK'
  BY <1>1, <1>2 DEF PiInv, PiTypeOK, Publishers
<1>4. NothingNewer'
  BY <1>1, CatalogFields, BackgroundFields, RefreshFields DEF PiInv, PiTypeOK, NothingNewer
<1>5. NotBefore' /\ TurnsAreCurrent'
  BY <1>1 DEF NotBefore, TurnsAreCurrent
<1> QED BY <1>3, <1>4, <1>5 DEF PiInv

\* The refresh in the background asks and checks.
LEMMA BackgroundKeeps ==
  ASSUME PiInv, BackgroundAnswered \/ BackgroundChecked
  PROVE  PiInv'
<1> USE BackgroundFields
<1>1. /\ background # NoBackground /\ background \in Backgrounds /\ background.key \in RouterKeys
      /\ served \in Nat /\ liveCatalog.version <= served
  BY DEF BackgroundAnswered, BackgroundChecked, PiInv, PiTypeOK, NothingNewer
<1>2. \/ background' = NoBackground
      \/ /\ background' \in Backgrounds /\ background'.at \in {"checking", "checked"}
         /\ background'.key = background.key
         /\ \/ background'.version = served
            \/ background.at = "checking" /\ background'.version = background.version
  <2>1. CASE BackgroundAnswered
    BY <1>1, <2>1 DEF BackgroundAnswered, Backgrounds
  <2>2. CASE BackgroundChecked
    <3>1. background \in [at : {"checking", "checked"}, key : RouterKeys, version : Nat]
      BY <1>1, <2>2 DEF BackgroundChecked, Backgrounds, NoBackground
    <3>2. background' \in {NoBackground, [background EXCEPT !.at = "checked"]}
      BY <2>2 DEF BackgroundChecked
    <3> QED BY <2>2, <3>1, <3>2 DEF BackgroundChecked, Backgrounds
  <2> QED BY <2>1, <2>2
<1>3. UNCHANGED <<piOutside, cacheFile, launch, liveCatalog, generation, hostRefresh, hostTurn, told>>
  BY DEF BackgroundAnswered, BackgroundChecked
<1>4. PiTypeOK'
  BY <1>2, <1>3 DEF PiInv, PiTypeOK, piOutside, Backgrounds
<1>5. NothingNewer'
  BY <1>1, <1>2, <1>3 DEF PiInv, PiTypeOK, NothingNewer, piOutside
<1>6. NotBefore' /\ TurnsAreCurrent'
  BY <1>1, <1>2, <1>3 DEF PiInv, NotBefore, TurnsAreCurrent
<1> QED BY <1>4, <1>5, <1>6 DEF PiInv

\* It shows its answer, if it still has the turn.
LEMMA PublishBackgroundKeeps == PiInv /\ PublishBackground => PiInv'
<1> SUFFICES ASSUME PiInv, PublishBackground PROVE PiInv'
  OBVIOUS
<1> USE BackgroundFields, CatalogFields
<1> DEFINE answer == [of |-> background.key, version |-> background.version]
<1>1. /\ background \in Backgrounds /\ background.at = "checked" /\ background.key \in RouterKeys
      /\ background.version \in Nat /\ background.version <= served
      /\ answer \in Catalogs /\ answer.of = background.key /\ answer.version = background.version
  BY DEF PublishBackground, PiInv, PiTypeOK, NothingNewer
<1>2. /\ background' = NoBackground /\ cacheFile' \in {cacheFile, answer}
      /\ liveCatalog' = liveCatalog \/ (generation = "background" /\ liveCatalog' = answer)
      /\ UNCHANGED <<piOutside, launch, generation, hostRefresh, hostTurn, told>>
  BY DEF PublishBackground, ItsTurn
<1> HIDE DEF answer
<1>3. PiTypeOK'
  BY <1>1, <1>2 DEF PiInv, PiTypeOK, piOutside, Backgrounds
<1>4. NothingNewer'
  BY <1>1, <1>2 DEF PiInv, PiTypeOK, NothingNewer, piOutside
<1>5. NotBefore' /\ TurnsAreCurrent'
  BY <1>1, <1>2 DEF PiInv, NotBefore, TurnsAreCurrent
<1> QED BY <1>3, <1>4, <1>5 DEF PiInv

\* A changed credential ends the turns.
LEMMA OfflineKeeps == PiInv /\ RefreshOffline => PiInv'
<1> SUFFICES ASSUME PiInv, RefreshOffline PROVE PiInv'
  OBVIOUS
<1> USE BackgroundFields, CatalogFields
<1>1. /\ launch.at = "running" /\ told' = Effective /\ hostTurn' = "nobody"
      /\ IF liveCatalog.of = Effective THEN liveCatalog' = liveCatalog /\ generation' = generation
         ELSE liveCatalog' = EmptyCatalog /\ generation' = "nobody"
      /\ UNCHANGED <<piOutside, cacheFile, launch, background, hostRefresh>>
  BY DEF RefreshOffline, Invalidated
<1>2. PiTypeOK'
  BY <1>1 DEF PiInv, PiTypeOK, piOutside, Publishers, Catalogs
<1>3. NothingNewer'
  BY <1>1 DEF PiInv, PiTypeOK, NothingNewer, piOutside
<1>4. NotBefore'
  BY <1>1 DEF NotBefore
<1>5. TurnsAreCurrent'
  BY <1>1 DEF PiInv, TurnsAreCurrent
<1> QED BY <1>2, <1>3, <1>4, <1>5 DEF PiInv

\* Pi begins a refresh, and Router answers it or does not.
LEMMA RefreshKeeps ==
  ASSUME PiInv, NEW r \in HostRefreshes, BeginRefresh(r) \/ RefreshAnswered(r) \/ RefreshFails(r)
  PROVE  PiInv'
<1> USE BackgroundFields, RefreshFields
<1> DEFINE s == hostRefresh'[r]
<1>1. /\ hostRefresh \in [HostRefreshes -> Refreshes] /\ served \in Nat /\ liveCatalog.version <= served
      /\ hostRefresh[r] \in Refreshes
  BY DEF PiInv, PiTypeOK, NothingNewer
<1>2. \A q \in HostRefreshes : q # r => hostRefresh'[q] = hostRefresh[q]
  BY <1>1 DEF BeginRefresh, RefreshAnswered, RefreshFails
<1>3. UNCHANGED <<piOutside, cacheFile, launch, liveCatalog, background>>
  BY DEF BeginRefresh, RefreshAnswered, RefreshFails
<1>4. CASE BeginRefresh(r)
  <2>1. /\ launch.at = "running" /\ generation' = r /\ hostTurn' = r /\ told' = Effective
        /\ hostRefresh' = [hostRefresh EXCEPT ![r] = [at |-> "asking", key |-> Effective]]
    BY <1>4 DEF BeginRefresh
  <2>2. s \in Refreshes /\ s.at = "asking" /\ s.key = Effective /\ hostRefresh' \in [HostRefreshes -> Refreshes]
    BY <1>1, <2>1, EffectiveKey DEF Refreshes, PiInv
  <2>3. r \notin {"nobody", "background"}
    OBVIOUS
  <2> HIDE DEF s
  <2>4. PiTypeOK'
    BY <1>3, <2>1, <2>2 DEF PiInv, PiTypeOK, piOutside, Publishers
  <2>5. NothingNewer'
    BY <1>2, <1>3, <2>2 DEF PiInv, NothingNewer, piOutside, s
  <2>6. NotBefore' /\ TurnsAreCurrent'
    BY <1>2, <1>3, <2>1, <2>2, <2>3 DEF PiInv, NotBefore, TurnsAreCurrent, s
  <2> QED BY <2>4, <2>5, <2>6 DEF PiInv
<1>5. CASE RefreshAnswered(r) \/ RefreshFails(r)
  <2>1. UNCHANGED <<generation, hostTurn, told>>
    BY <1>5 DEF RefreshAnswered, RefreshFails
  <2>2. \/ s = NoRefresh
        \/ /\ s \in Refreshes /\ s.at = "publishing" /\ s.version = served
           /\ hostRefresh[r] # NoRefresh /\ s.key = hostRefresh[r].key
    <3>1. CASE RefreshFails(r)
      BY <1>1, <3>1 DEF RefreshFails
    <3>2. CASE RefreshAnswered(r)
      <4>1. hostRefresh[r].at = "asking" /\ hostRefresh[r].key \in RouterKeys
        BY <1>1, <3>2 DEF RefreshAnswered
      <4>2. s \in {NoRefresh, [at |-> "publishing", key |-> hostRefresh[r].key, version |-> served]}
        BY <1>1, <3>2 DEF RefreshAnswered
      <4> QED BY <1>1, <4>1, <4>2 DEF Refreshes
    <3> QED BY <1>5, <3>1, <3>2
  <2>3. s \in Refreshes
    BY <2>2 DEF Refreshes
  <2>4. hostRefresh' \in [HostRefreshes -> Refreshes]
    <3>1. hostRefresh' = [hostRefresh EXCEPT ![r] = s]
      BY <1>1, <1>5 DEF RefreshAnswered, RefreshFails
    <3> HIDE DEF s
    <3> QED BY <1>1, <2>3, <3>1
  <2> HIDE DEF s
  <2>5. PiTypeOK'
    BY <1>3, <2>1, <2>4 DEF PiInv, PiTypeOK, piOutside
  <2>6. NothingNewer'
    BY <1>1, <1>2, <1>3, <2>2 DEF PiInv, NothingNewer, piOutside, s
  <2>7. NotBefore' /\ TurnsAreCurrent'
    BY <1>1, <1>2, <1>3, <2>1, <2>2 DEF PiInv, NotBefore, TurnsAreCurrent, s
  <2> QED BY <2>5, <2>6, <2>7 DEF PiInv
<1> QED BY <1>4, <1>5

\* A refresh publishes, if it is still the newest.
LEMMA PublishRefreshKeeps ==
  ASSUME PiInv, NEW r \in HostRefreshes, PublishRefresh(r)
  PROVE  PiInv'
<1> USE BackgroundFields, RefreshFields, CatalogFields
<1> DEFINE answer == [of |-> hostRefresh[r].key, version |-> hostRefresh[r].version]
<1>1. /\ hostRefresh \in [HostRefreshes -> Refreshes] /\ hostRefresh[r].at = "publishing"
      /\ hostRefresh[r].key \in RouterKeys /\ hostRefresh[r].version \in Nat
      /\ hostRefresh[r].version <= served
      /\ answer \in Catalogs /\ answer.of = hostRefresh[r].key /\ answer.version = hostRefresh[r].version
  BY DEF PublishRefresh, PiInv, PiTypeOK, NothingNewer
<1>2. /\ hostRefresh' = [hostRefresh EXCEPT ![r] = NoRefresh] /\ cacheFile' \in {cacheFile, answer}
      /\ liveCatalog' = liveCatalog \/ (generation = r /\ hostTurn = r /\ liveCatalog' = answer)
      /\ UNCHANGED <<piOutside, launch, generation, background, hostTurn, told>>
  BY DEF PublishRefresh
<1> HIDE DEF answer
<1>3. /\ hostRefresh' \in [HostRefreshes -> Refreshes] /\ hostRefresh'[r] = NoRefresh
      /\ \A q \in HostRefreshes : q # r => hostRefresh'[q] = hostRefresh[q]
  BY <1>1, <1>2 DEF Refreshes
<1>4. r \notin {"nobody", "background"}
  OBVIOUS
<1>5. PiTypeOK'
  BY <1>1, <1>2, <1>3 DEF PiInv, PiTypeOK, piOutside
<1>6. NothingNewer'
  BY <1>1, <1>2, <1>3 DEF PiInv, PiTypeOK, NothingNewer, piOutside
<1>7. NotBefore' /\ TurnsAreCurrent'
  BY <1>1, <1>2, <1>3, <1>4 DEF PiInv, NotBefore, TurnsAreCurrent
<1> QED BY <1>5, <1>6, <1>7 DEF PiInv

\* Router's list and the keys change.
LEMMA OutsideKeeps ==
  ASSUME PiInv, NewCatalog \/ StoreKey \/ SetRuntimeKey
  PROVE  PiInv'
<1>1. /\ UNCHANGED <<piProcess, cacheFile>> /\ served' \in Nat /\ served' >= served
      /\ storedKey' \in RouterKeys /\ runtimeKey' \in RouterKeys \cup {"none"}
  BY DEF NewCatalog, StoreKey, SetRuntimeKey, PiInv, PiTypeOK
<1>2. PiTypeOK'
  BY <1>1 DEF PiInv, PiTypeOK, piProcess
<1>3. NothingNewer'
  <2>1. /\ cacheFile.version \in Nat /\ liveCatalog.version \in Nat /\ served \in Nat
        /\ launch.at = "checking" => launch.version \in Nat
        /\ background.at \in {"checking", "checked"} => background.version \in Nat
        /\ \A r \in HostRefreshes : hostRefresh[r].at = "publishing" => hostRefresh[r].version \in Nat
    BY CatalogFields, LaunchFields, BackgroundFields, RefreshFields DEF PiInv, PiTypeOK
  <2> QED BY <1>1, <2>1 DEF PiInv, NothingNewer, piProcess
<1>4. NotBefore' /\ TurnsAreCurrent'
  BY <1>1 DEF PiInv, NotBefore, TurnsAreCurrent, piProcess
<1> QED BY <1>2, <1>3, <1>4 DEF PiInv

\* Nothing is known at the start.
LEMMA PiInitially == PiInit => PiInv
<1> SUFFICES ASSUME PiInit PROVE PiInv
  OBVIOUS
<1> USE CatalogFields, BackgroundFields, RefreshFields
<1>1. cacheFile \in Catalogs /\ cacheFile.version <= 1
  BY DEF PiInit, Catalogs
<1>2. /\ launch \in Launches /\ launch.at = "off" /\ background \in Backgrounds
      /\ hostRefresh \in [HostRefreshes -> Refreshes] /\ liveCatalog \in Catalogs
  BY DEF PiInit, Launches, Backgrounds, Refreshes, Catalogs
<1>3. PiTypeOK
  BY <1>1, <1>2 DEF PiInit, PiTypeOK, Publishers
<1>4. NothingNewer
  BY <1>1, <1>2 DEF PiInit, NothingNewer
<1>5. NotBefore /\ TurnsAreCurrent
  BY <1>2 DEF PiInit, NotBefore, TurnsAreCurrent
<1> QED BY <1>3, <1>4, <1>5 DEF PiInv

\* Every step of Pi's provider keeps the invariant.
LEMMA PiSteps == PiInv /\ [PiNext]_piVars => PiInv'
<1> SUFFICES ASSUME PiInv, [PiNext]_piVars PROVE PiInv'
  OBVIOUS
<1>1. CASE LaunchAtOnce \/ LaunchAsking \/ LaunchAnswered \/ LaunchChecked
  BY <1>1, LaunchKeeps
<1>2. CASE Quit \/ PublishBackground \/ RefreshOffline
  BY <1>2, QuitKeeps, PublishBackgroundKeeps, OfflineKeeps
<1>3. CASE BackgroundAnswered \/ BackgroundChecked
  BY <1>3, BackgroundKeeps
<1>4. ASSUME NEW r \in HostRefreshes, BeginRefresh(r) \/ RefreshAnswered(r) \/ RefreshFails(r)
      PROVE  PiInv'
  BY <1>4, RefreshKeeps
<1>5. ASSUME NEW r \in HostRefreshes, PublishRefresh(r) PROVE PiInv'
  BY <1>5, PublishRefreshKeeps
<1>6. CASE NewCatalog \/ StoreKey \/ SetRuntimeKey
  BY <1>6, OutsideKeeps
<1>7. CASE UNCHANGED piVars
  BY <1>7 DEF piVars, piProcess, piOutside, PiInv, PiTypeOK, NothingNewer, NotBefore, TurnsAreCurrent
<1> QED BY <1>1, <1>2, <1>3, <1>4, <1>5, <1>6, <1>7 DEF PiNext

\* Who has the turn to publish has asked with the key named last, after what is on show
\* was answered, in every state.  (catalogGeneration in refreshModels)
THEOREM CatalogInductive == PiSpec => []PiInv
BY PiInitially, PiSteps, PTL DEF PiSpec

\* Registering shows something only where nothing was shown.
LEMMA RegisterShows ==
  ASSUME PiInv, launch.at # "running", NEW k \in RouterKeys, NEW v, NEW b, Register(k, v, b)
  PROVE  liveCatalog'.of # liveCatalog.of
BY CatalogFields DEF PiInv, NotBefore, Register

\* A catalog that appears is one of the key named last, and none is older than the one
\* of its key that it replaces: whatever the background, Pi's refreshes and the changes
\* of the credential do to each other.  (refreshModels, publishBackground)
THEOREM CatalogsStayCurrent == PiSpec => CatalogsAreCurrent
<1> DEFINE Shows == /\ launch.at = "running" /\ liveCatalog' \notin {liveCatalog, EmptyCatalog}
                         => liveCatalog'.of = told
                    /\ liveCatalog'.of = liveCatalog.of => liveCatalog'.version >= liveCatalog.version
<1>1. PiInv /\ [PiNext]_piVars => [Shows]_piVars
  <2> SUFFICES ASSUME PiInv, [PiNext]_piVars PROVE Shows
    OBVIOUS
  <2> USE CatalogFields, BackgroundFields, RefreshFields
  <2>1. liveCatalog \in Catalogs /\ liveCatalog.version \in Nat
    BY DEF PiInv, PiTypeOK
  <2>2. CASE liveCatalog' = liveCatalog
    BY <2>1, <2>2
  <2>3. CASE liveCatalog' = EmptyCatalog
    BY <2>1, <2>3
  <2>4. CASE LaunchAtOnce \/ LaunchAsking \/ LaunchAnswered \/ LaunchChecked
    <3>1. launch.at # "running"
      BY <2>4 DEF LaunchAtOnce, LaunchAsking, LaunchAnswered, LaunchChecked
    <3>2. \/ liveCatalog' = liveCatalog
          \/ \E k \in RouterKeys : \E v, b : Register(k, v, b)
      <4>1. storedKey \in RouterKeys /\ launch \in Launches
        BY DEF PiInv, PiTypeOK
      <4> QED BY <2>4, <4>1, LaunchFields DEF LaunchAtOnce, LaunchAsking, LaunchAnswered, LaunchChecked
    <3> QED BY <2>2, <3>1, <3>2, RegisterShows
  <2>5. CASE PublishBackground
    <3>1. \/ liveCatalog' = liveCatalog
          \/ /\ generation = "background" /\ background.at = "checked"
             /\ liveCatalog' = [of |-> background.key, version |-> background.version]
      BY <2>5 DEF PublishBackground, ItsTurn
    <3>2. background \in Backgrounds
      BY DEF PiInv, PiTypeOK
    <3> QED BY <2>1, <2>2, <3>1, <3>2 DEF PiInv, TurnsAreCurrent
  <2>6. ASSUME NEW r \in HostRefreshes, PublishRefresh(r) PROVE Shows
    <3>1. \/ liveCatalog' = liveCatalog
          \/ /\ generation = r /\ hostTurn = r /\ hostRefresh[r].at = "publishing"
             /\ liveCatalog' = [of |-> hostRefresh[r].key, version |-> hostRefresh[r].version]
      BY <2>6 DEF PublishRefresh
    <3>2. hostRefresh[r] \in Refreshes
      BY DEF PiInv, PiTypeOK
    <3> QED BY <2>1, <2>2, <3>1, <3>2 DEF PiInv, TurnsAreCurrent
  <2>7. ASSUME NEW r \in HostRefreshes, BeginRefresh(r) \/ RefreshAnswered(r) \/ RefreshFails(r)
        PROVE  Shows
    BY <2>2, <2>7 DEF BeginRefresh, RefreshAnswered, RefreshFails
  <2>8. CASE Quit \/ RefreshOffline
    BY <2>2, <2>3, <2>8 DEF Quit, RefreshOffline, Invalidated
  <2>9. CASE \/ BackgroundAnswered \/ BackgroundChecked \/ NewCatalog \/ StoreKey \/ SetRuntimeKey
             \/ UNCHANGED piVars
    BY <2>2, <2>9 DEF BackgroundAnswered, BackgroundChecked, NewCatalog, StoreKey, SetRuntimeKey,
                      piVars, piProcess
  <2> QED BY <2>4, <2>5, <2>6, <2>7, <2>8, <2>9 DEF PiNext
<1> QED BY <1>1, CatalogInductive, PTL DEF PiSpec, CatalogsAreCurrent
=============================================================================
