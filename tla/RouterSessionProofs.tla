------------------------ MODULE RouterSessionProofs ------------------------
(***************************************************************************)
(* Proofs about RouterSession for every set of clients and grants.  The    *)
(* invariant IInv is kept by every step (one lemma per conjunct, one step  *)
(* per action); the safety properties, the two action properties and the   *)
(* refinement of RotatingLogin follow from it.                             *)
(***************************************************************************)
EXTENDS RouterSession, TLAPS

\* What the parts of a stored login are, and what is made of them.
LEMMA LoginTypes ==
  ASSUME NEW l \in Login
  PROVE  /\ l.grant \in Grants /\ l.secret \in Nat /\ l.pending \in Nat \cup {None}
         /\ l # None
         /\ AccessOf(l) \in Token
         /\ LoginRequest("session", l) \in Request
         /\ LoginRequest("logout", l) \in Request
         /\ l.pending # None => TokenRequest(l) \in Request
BY NoneAssumption DEF Login, Token, AccessOf, LoginRequest, TokenRequest, Request

\* Writing a pending successor changes nothing else of the login.
LEMMA LoginUpdates ==
  ASSUME NEW l \in Login, NEW n \in Nat
  PROVE  /\ [l EXCEPT !.pending = n] \in Login
         /\ [l EXCEPT !.pending = n].pending = n
         /\ [l EXCEPT !.pending = n].grant = l.grant
         /\ [l EXCEPT !.pending = n].secret = l.secret
BY DEF Login

\* The access token's clock is not part of the credential.
LEMMA LoginTicks ==
  ASSUME NEW l \in Login, NEW k \in Clock
  PROVE  /\ [l EXCEPT !.clock = k] \in Login
         /\ [l EXCEPT !.clock = k].pending = l.pending
         /\ [l EXCEPT !.clock = k].grant = l.grant
         /\ [l EXCEPT !.clock = k].secret = l.secret
BY DEF Login

\* A granted login can be stored.
LEMMA TokenTypes ==
  ASSUME NEW t \in Token
  PROVE  /\ t.grant \in Grants /\ t.secret \in Nat /\ t # None
         /\ NewLogin(t.grant, t.secret) \in Login
         /\ NewLogin(t.grant, t.secret) # None
         /\ NewLogin(t.grant, t.secret).grant = t.grant
         /\ NewLogin(t.grant, t.secret).secret = t.secret
         /\ NewLogin(t.grant, t.secret).pending = None
BY NoneAssumption DEF Token, Login, Clock, NewLogin

\* What every request carries.
LEMMA RequestTypes ==
  ASSUME NEW r \in Request
  PROVE  /\ r.grant \in Grants /\ r.secret \in Nat
         /\ r.kind = "token" => r.next \in Nat
         /\ r # None
BY NoneAssumption DEF Request

\* Ending a call keeps the types of the caller's state.
LEMMA LeaveTypes ==
  ASSUME TypeOK, NEW c \in Clients, NEW where \in PC, NEW t \in Token \cup {None}
  PROVE  /\ GoTo(c, where) =>
              /\ pc' \in [Clients -> PC] /\ mode' \in [Clients -> Mode]
              /\ rejected' \in [Clients -> Token \cup {None}]
         /\ Leave(c, where, t) =>
              /\ token' \in [Clients -> Token \cup {None}]
              /\ asked' \in [Clients -> Request \cup {None}]
              /\ reply' \in [Clients -> Code \cup {None}]
              /\ fresh' \in [Clients -> Token \cup {None}]
BY DEF TypeOK, GoTo, Leave, Mode

\* Replacing the login file keeps its type and that of the history.
LEMMA SetFileTypes ==
  ASSUME TypeOK, NEW l \in Login \cup {None}, SetFile(l)
  PROVE  file' \in Login \cup {None} /\ retired' \subseteq Grants
<1>1. file # None => file.grant \in Grants
  BY LoginTypes DEF TypeOK
<1> QED
  BY <1>1 DEF TypeOK, SetFile

\* What the steps that rewrite the login leave of it.
LEMMA TickFile ==
  ASSUME TypeOK, Tick
  PROVE  /\ file' \in Login /\ file \in Login /\ file' # None
         /\ file'.grant = file.grant
         /\ file'.secret = file.secret /\ file'.pending = file.pending
<1>1. file \in Login
  BY DEF TypeOK, Tick
<1>2. PICK k \in Clock : file' = [file EXCEPT !.clock = k]
  BY DEF Tick, Clock
<1> QED BY <1>1, <1>2, LoginTicks, LoginTypes

\* Preparing a rotation writes one fresh successor, or keeps the one there is.
LEMMA PrepareFile ==
  ASSUME TypeOK, NEW c \in Clients, PrepareRotation(c)
  PROVE  /\ file \in Login /\ file' \in Login /\ file' # None
         /\ file'.grant = file.grant /\ file'.secret = file.secret
         /\ file'.pending \in Nat /\ retired' = retired /\ minted' \in Nat
         /\ \/ file.pending = None /\ file'.pending = minted + 1 /\ minted' = minted + 1
            \/ file' = file /\ minted' = minted
<1>1. file \in Login /\ file # None
  BY DEF TypeOK, PrepareRotation
<1>2. CASE file.pending = None
  <2>1. minted + 1 \in Nat
    BY DEF TypeOK
  <2>2. PICK d : d = [file EXCEPT !.pending = minted + 1]
    OBVIOUS
  <2>3. d \in Login /\ d # None /\ d.grant = file.grant /\ d.secret = file.secret
        /\ d.pending = minted + 1
    BY <1>1, <2>1, <2>2, LoginUpdates, LoginTypes
  <2> QED BY <1>1, <1>2, <2>1, <2>2, <2>3 DEF PrepareRotation, SetFile
<1>3. CASE file.pending # None
  BY <1>1, <1>3, LoginTypes, NoneAssumption DEF PrepareRotation, TypeOK
<1> QED BY <1>2, <1>3

\* The client that prepared a rotation or waits for an answer holds the lock and
\* has a login in the file.
LEMMA Holder ==
  ASSUME TypeOK, LockInv, NEW c \in Clients, pc[c] \in {"prepared", "await"}
  PROVE  lock = c /\ file # None /\ file \in Login
BY NoneAssumption DEF TypeOK, LockInv

\* A client that waits on a rotation waits on that of the login in the file.
LEMMA Rotating ==
  ASSUME TypeOK, LockInv, AskedInv, NEW c \in Clients,
         pc[c] = "await", asked[c].kind = "token"
  PROVE  asked[c] = TokenRequest(file) /\ asked[c].next = file.pending
         /\ file.pending \in Nat
BY Holder, LoginTypes DEF AskedInv, TokenRequest, LoginRequest

\* Committing a rotation stores the successor that the server already accepts.
LEMMA CommitFile ==
  ASSUME TypeOK, LockInv, AskedInv, NEW c \in Clients, CommitRotation(c)
  PROVE  /\ file \in Login /\ file' \in Login /\ file' # None
         /\ file'.grant = file.grant /\ file'.pending = None
         /\ file.pending \in Nat /\ file'.secret = file.pending
         /\ retired' = retired /\ cur[file.grant] = file.pending
<1>1. /\ pc[c] = "await" /\ asked[c].kind = "token" /\ reply[c] = "ok"
  BY DEF CommitRotation, Answered
<1>2. file \in Login /\ file # None /\ asked[c].next = file.pending /\ asked[c].next \in Nat
  BY <1>1, Holder, Rotating
<1>3. PICK d : d = NewLogin(asked[c].grant, asked[c].next) /\ asked[c].grant = file.grant
  BY <1>1, Rotating DEF TokenRequest
<1>4. d \in Login /\ d # None /\ d.grant = file.grant /\ d.pending = None
      /\ d.secret = file.pending
  BY <1>2, <1>3, NoneAssumption DEF Login, Clock, NewLogin
<1>5. cur[file.grant] = file.pending
  BY <1>1 DEF AskedInv
<1> QED BY <1>2, <1>3, <1>4, <1>5 DEF CommitRotation, SetFile


\* None is no answer.
LEMMA NoCode == None \notin {"ok", "garbled", "invalid", "reauth", "error"}
BY NoneAssumption DEF Code

\* At most one client is between preparing a request and its answer.
LEMMA OneHolder ==
  ASSUME TypeOK, LockInv, AskedInv, NEW c \in Clients,
         lock = None \/ pc[c] \in {"prepared", "await"}
  PROVE  \A d \in Clients \ {c} :
           pc[d] \notin {"prepared", "await"} /\ reply[d] = None
BY NoneAssumption DEF TypeOK, LockInv, AskedInv

\* A rotation the server carries out for the login in the file is the one the file
\* has pending.
LEMMA RotationEffect ==
  ASSUME TypeOK, FileInv, SentInv, NEW m \in sent, ServeRotation(m), file # None
  PROVE  \/ cur'[file.grant] = cur[file.grant] /\ prev'[file.grant] = prev[file.grant]
         \/ /\ m.grant = file.grant /\ m.secret = file.secret
            /\ m.next = file.pending /\ file.pending \in Nat
            /\ file.secret < file.pending
            /\ cur'[file.grant] = file.pending
            /\ prev'[file.grant] = file.secret
<1> /\ file \in Login /\ m \in Request /\ m.kind = "token"
    /\ m.grant \in Grants /\ m.secret \in Nat /\ m.next \in Nat
    /\ file.secret \in Nat /\ file.grant \in Grants /\ file.pending \in Nat \cup {None}
  BY LoginTypes, RequestTypes DEF TypeOK, ServeRotation
<1>1. CASE UNCHANGED <<cur, prev>> \/ m.grant # file.grant
  BY <1>1 DEF ServeRotation, TypeOK
<1>2. CASE Knows(m) /\ m.grant = file.grant /\ ~UNCHANGED <<cur, prev>>
  <2>1. m.secret = cur[file.grant] /\ m.secret <= file.secret
    BY <1>2 DEF Knows, SentInv
  <2>2. m.secret = file.secret
    BY <2>1, NoneAssumption DEF FileInv
  <2>3. m.next = file.pending /\ file.secret < file.pending
    BY <1>2, <2>2, NoneAssumption DEF SentInv, FileInv
  <2>4. cur' = [cur EXCEPT ![m.grant] = m.next] /\ prev' = [prev EXCEPT ![m.grant] = m.secret]
    BY <1>2 DEF ServeRotation
  <2> QED BY <1>2, <2>1, <2>2, <2>3, <2>4 DEF TypeOK
<1> QED BY <1>1, <1>2 DEF ServeRotation

\* Every step keeps the types.
LEMMA TypeStep ==
  ASSUME TypeOK, LockInv, AskedInv, FreshInv, RevokeInv, [Next]_vars PROVE TypeOK'
<1> USE DEF TypeOK, serverVars, clientVars
<1>1. ASSUME NEW c \in Clients, NEW m \in Calls, Begin(c, m) PROVE TypeOK'
  BY <1>1, CallsAssumption DEF Begin, PC, Mode
<1>2. ASSUME NEW c \in Clients, ReturnCached(c) PROVE TypeOK'
  <2>1. file \in Login /\ pc[c] = "wait"
    BY <1>2 DEF ReturnCached, CachedValid, Calling
  <2>2. Leave(c, "idle", IF Checks(mode[c]) THEN checked[c] ELSE AccessOf(file))
        /\ (IF Checks(mode[c]) THEN checked[c] ELSE AccessOf(file)) \in Token \cup {None}
    BY <2>1, <1>2, LoginTypes DEF ReturnCached
  <2> QED BY <2>2, <1>2, LeaveTypes DEF ReturnCached, PC, Leave
<1>3. ASSUME NEW c \in Clients, Refuse(c) PROVE TypeOK'
  BY <1>3, LeaveTypes DEF Refuse, PC, ForgetCheck, Leave
<1>4. ASSUME NEW c \in Clients, CheckSession(c) PROVE TypeOK'
  <2>1. file \in Login
    BY <1>4 DEF CheckSession, CachedValid
  <2> QED BY <2>1, <1>4, LoginTypes DEF CheckSession, PC, ForgetCheck, Post
<1>5. ASSUME NEW c \in Clients, PrepareRotation(c) PROVE TypeOK'
  BY <1>5, PrepareFile DEF PrepareRotation, PC, ForgetCheck
<1>6. ASSUME NEW c \in Clients, PostRotation(c) PROVE TypeOK'
  <2>1. TokenRequest(file) \in Request
    BY <1>6, Holder, LoginTypes DEF PostRotation, LockInv
  <2> QED BY <2>1, <1>6 DEF PostRotation, PC, Post
<1>7. ASSUME NEW c \in Clients, CommitRotation(c) PROVE TypeOK'
  <2>2. /\ file \in Login /\ asked[c].next = file.pending
        /\ asked[c].grant = file.grant /\ file.pending \in Nat
    BY <1>7, Holder, Rotating DEF CommitRotation, Answered, TokenRequest
  <2>1. [grant |-> asked[c].grant, secret |-> asked[c].next] \in Token
    BY <2>2, LoginTypes DEF Token
  <2> QED BY <2>1, CommitFile, <1>7, LeaveTypes DEF CommitRotation, PC, Leave
<1>8. ASSUME NEW c \in Clients, PassCheck(c) PROVE TypeOK'
  <2>2. file \in Login /\ AccessOf(asked[c]) = AccessOf(file)
    BY <1>8, Holder DEF PassCheck, Answered, AccessOf, AskedInv, LoginRequest, TokenRequest
  <2>1. AccessOf(asked[c]) \in Token
    BY <2>2, LoginTypes
  <2> QED BY <2>1, <1>8, LeaveTypes DEF PassCheck, PC, Leave
<1>9. ASSUME NEW c \in Clients, RejectGarbled(c) PROVE TypeOK'
  BY <1>9, LeaveTypes, SetFileTypes DEF RejectGarbled, PC, ForgetCheck, Leave
<1>10. ASSUME NEW c \in Clients, Expire(c) PROVE TypeOK'
  BY <1>10, LeaveTypes, SetFileTypes DEF Expire, PC, ForgetCheck, Leave
<1>11. ASSUME NEW c \in Clients, Reauthorize(c) PROVE TypeOK'
  BY <1>11, LeaveTypes DEF Reauthorize, PC, Leave
<1>12. ASSUME NEW c \in Clients, Fail(c) PROVE TypeOK'
  BY <1>12, LeaveTypes DEF Fail, PC, Leave
<1>13. ASSUME NEW c \in Clients, Timeout(c) PROVE TypeOK'
  BY <1>13, LeaveTypes DEF Timeout, PC, Leave
<1>14. ASSUME NEW c \in Clients, NEW interactive \in BOOLEAN, Recover(c, interactive) PROVE
   TypeOK'
  BY <1>14, LeaveTypes DEF Recover, PC
<1>15. ASSUME NEW c \in Clients, NEW g \in Grants, ExchangeCode(c, g) PROVE TypeOK'
  <2>1. [grant |-> g, secret |-> minted + 1] \in Token
    BY DEF Token
  <2> QED BY <2>1, <1>15 DEF ExchangeCode, PC
<1>16. ASSUME NEW c \in Clients, AbandonLogin(c) PROVE TypeOK'
  BY <1>16, LeaveTypes DEF AbandonLogin, PC
<1>17. ASSUME NEW c \in Clients, StoreLogin(c) PROVE TypeOK'
  <2>1. fresh[c] \in Token
    BY <1>17 DEF StoreLogin, FreshInv
  <2>2. file' \in Login \cup {None} /\ retired' \subseteq Grants
    BY <2>1, <1>17, TokenTypes, SetFileTypes DEF StoreLogin
  <2>3. file # None => LoginRequest("logout", file) \in Request
    BY LoginTypes
  <2>4. asked' \in [Clients -> Request \cup {None}]
    BY <2>3, <1>17 DEF StoreLogin
  <2>5. GoTo(c, AfterLogin(c)) \/ GoTo(c, "revoke")
    BY <1>17 DEF StoreLogin
  <2> QED BY <2>2, <2>4, <2>5, <1>17, LeaveTypes DEF StoreLogin, AfterLogin, PC
<1>18. ASSUME NEW c \in Clients, NEW reached \in BOOLEAN, RevokeOld(c, reached) PROVE TypeOK'
  <2>1. asked[c] \in Request
    BY <1>18 DEF RevokeOld, RevokeInv
  <2> QED BY <2>1, <1>18, LeaveTypes DEF RevokeOld, AfterLogin, PC
<1>19. ASSUME NEW c \in Clients, Logout(c) PROVE TypeOK'
  <2>1. CASE file = None
    BY <2>1, <1>19, LeaveTypes DEF Logout, ForgetCheck, Leave, PC
  <2>2. CASE file # None
    <3>1. LoginRequest("logout", file) \in Request
      BY <2>2, LoginTypes
    <3> QED BY <2>2, <3>1, <1>19 DEF Logout, Post, PC
  <2> QED BY <2>1, <2>2
<1>20. ASSUME NEW c \in Clients, CompleteLogout(c) PROVE TypeOK'
  BY <1>20, LeaveTypes, SetFileTypes DEF CompleteLogout, PC, ForgetCheck, Leave
<1>21. ASSUME NEW c \in Clients, Crash(c) PROVE TypeOK'
  BY <1>21, LeaveTypes, NoneAssumption DEF Crash, ForgetCheck, PC
<1>22. ASSUME NEW c \in Clients, CheckAges(c) PROVE TypeOK'
  BY <1>22 DEF CheckAges, ForgetCheck
<1>23. ASSUME NEW m \in sent, ServeRotation(m) PROVE TypeOK'
  <2>1. m \in Request /\ m.grant \in Grants /\ m.secret \in Nat /\ m.next \in Nat
    BY <1>23, RequestTypes DEF ServeRotation
  <2> QED BY <2>1, <1>23 DEF ServeRotation, Serving, Answer, Code
<1>24. ASSUME NEW m \in sent, RefuseRotation(m) PROVE TypeOK'
  BY <1>24 DEF RefuseRotation, Serving, Answer, Code
<1>25. ASSUME NEW m \in sent, ServeSession(m) PROVE TypeOK'
  BY <1>25 DEF ServeSession, Serving, Answer, Code
<1>26. ASSUME NEW m \in sent, ServeLogout(m) PROVE TypeOK'
  BY <1>26 DEF ServeLogout, Serving, Answer, Code
<1>27. ASSUME NEW m \in sent, ServeError(m) PROVE TypeOK'
  BY <1>27 DEF ServeError, Serving, Answer, Code
<1>28. ASSUME NEW g \in Grants, EndGrant(g) PROVE TypeOK'
  BY <1>28 DEF EndGrant
<1>29. CASE Tick
  BY <1>29, TickFile DEF Tick
<1>30. CASE UNCHANGED vars
  BY <1>30 DEF vars
<1> HIDE DEF TypeOK, serverVars, clientVars
<1> QED
  BY <1>1, <1>2, <1>3, <1>4, <1>5, <1>6, <1>7, <1>8, <1>9, <1>10, <1>11, <1>12, <1>13,
     <1>14, <1>15, <1>16, <1>17, <1>18, <1>19, <1>20, <1>21, <1>22, <1>23, <1>24, <1>25,
     <1>26, <1>27, <1>28, <1>29, <1>30 DEF Next, ClientStep, ServerStep

\* Every step keeps the lock with the one client that is using the login.
LEMMA LockStep ==
  ASSUME TypeOK, LockInv, AskedInv, FileInv, SentInv, FreshInv,
         RevokeInv, OneSuccessor, TypeOK', [Next]_vars
  PROVE  LockInv'
<1> USE NoneAssumption DEF TypeOK, LockInv, serverVars, clientVars
<1>1. ASSUME NEW c \in Clients, NEW m \in Calls, Begin(c, m) PROVE LockInv'
  BY <1>1 DEF Begin
<1>2. ASSUME NEW c \in Clients, ReturnCached(c) PROVE LockInv'
  BY <1>2 DEF ReturnCached, Calling, CachedValid, Leave, GoTo
<1>3. ASSUME NEW c \in Clients, Refuse(c) PROVE LockInv'
  BY <1>3 DEF Refuse, Calling, CachedValid, ForgetCheck, Leave, GoTo
<1>4. ASSUME NEW c \in Clients, CheckSession(c) PROVE LockInv'
  BY <1>4 DEF CheckSession, Calling, CachedValid, ForgetCheck, Post
<1>5. ASSUME NEW c \in Clients, PrepareRotation(c) PROVE LockInv'
  BY <1>5, PrepareFile DEF PrepareRotation, Calling, ForgetCheck
<1>6. ASSUME NEW c \in Clients, PostRotation(c) PROVE LockInv'
  BY <1>6 DEF PostRotation, Post
<1>7. ASSUME NEW c \in Clients, CommitRotation(c) PROVE LockInv'
  <2>1. lock = c
    BY <1>7, Holder DEF CommitRotation, Answered
  <2> QED BY <2>1, <1>7 DEF CommitRotation, Leave, GoTo
<1>8. ASSUME NEW c \in Clients, PassCheck(c) PROVE LockInv'
  BY <1>8 DEF PassCheck, Answered, Leave, GoTo
<1>9. ASSUME NEW c \in Clients, RejectGarbled(c) PROVE LockInv'
  BY <1>9 DEF RejectGarbled, Answered, SetFile, ForgetCheck, Leave, GoTo
<1>10. ASSUME NEW c \in Clients, Expire(c) PROVE LockInv'
  BY <1>10 DEF Expire, Answered, SetFile, ForgetCheck, Leave, GoTo
<1>11. ASSUME NEW c \in Clients, Reauthorize(c) PROVE LockInv'
  BY <1>11 DEF Reauthorize, Answered, Leave, GoTo
<1>12. ASSUME NEW c \in Clients, Fail(c) PROVE LockInv'
  BY <1>12 DEF Fail, Leave, GoTo
<1>13. ASSUME NEW c \in Clients, Timeout(c) PROVE LockInv'
  BY <1>13 DEF Timeout, Leave, GoTo
<1>14. ASSUME NEW c \in Clients, NEW interactive \in BOOLEAN, Recover(c, interactive) PROVE
   LockInv'
  BY <1>14 DEF Recover, GoTo
<1>15. ASSUME NEW c \in Clients, NEW g \in Grants, ExchangeCode(c, g) PROVE LockInv'
  BY <1>15 DEF ExchangeCode
<1>16. ASSUME NEW c \in Clients, AbandonLogin(c) PROVE LockInv'
  BY <1>16 DEF AbandonLogin, GoTo
<1>17. ASSUME NEW c \in Clients, StoreLogin(c) PROVE LockInv'
  BY <1>17 DEF StoreLogin, SetFile, GoTo, AfterLogin
<1>18. ASSUME NEW c \in Clients, NEW reached \in BOOLEAN, RevokeOld(c, reached) PROVE LockInv'
  BY <1>18 DEF RevokeOld, GoTo, AfterLogin
<1>19. ASSUME NEW c \in Clients, Logout(c) PROVE LockInv'
  BY <1>19 DEF Logout, ForgetCheck, Leave, GoTo, Post
<1>20. ASSUME NEW c \in Clients, CompleteLogout(c) PROVE LockInv'
  BY <1>20 DEF CompleteLogout, Answered, SetFile, ForgetCheck, Leave, GoTo
<1>21. ASSUME NEW c \in Clients, Crash(c) PROVE LockInv'
  BY <1>21 DEF Crash, GoTo, ForgetCheck
<1>22. ASSUME NEW c \in Clients, CheckAges(c) PROVE LockInv'
  BY <1>22 DEF CheckAges, ForgetCheck
<1>23. ASSUME NEW m \in sent, ServeRotation(m) PROVE LockInv'
  BY <1>23 DEF ServeRotation, Serving, Answer
<1>24. ASSUME NEW m \in sent, RefuseRotation(m) PROVE LockInv'
  BY <1>24 DEF RefuseRotation, Serving, Answer
<1>25. ASSUME NEW m \in sent, ServeSession(m) PROVE LockInv'
  BY <1>25 DEF ServeSession, Serving, Answer
<1>26. ASSUME NEW m \in sent, ServeLogout(m) PROVE LockInv'
  BY <1>26 DEF ServeLogout, Serving, Answer
<1>27. ASSUME NEW m \in sent, ServeError(m) PROVE LockInv'
  BY <1>27 DEF ServeError, Serving, Answer
<1>28. ASSUME NEW g \in Grants, EndGrant(g) PROVE LockInv'
  BY <1>28 DEF EndGrant
<1>29. CASE Tick
  BY <1>29, TickFile DEF Tick
<1>30. CASE UNCHANGED vars
  BY <1>30 DEF vars
<1> HIDE DEF TypeOK, LockInv, serverVars, clientVars
<1> QED
  BY <1>1, <1>2, <1>3, <1>4, <1>5, <1>6, <1>7, <1>8, <1>9, <1>10, <1>11, <1>12, <1>13,
     <1>14, <1>15, <1>16, <1>17, <1>18, <1>19, <1>20, <1>21, <1>22, <1>23, <1>24, <1>25,
     <1>26, <1>27, <1>28, <1>29, <1>30 DEF Next, ClientStep, ServerStep

\* Every step keeps the file at most one rotation away from the server.
LEMMA FileStep ==
  ASSUME TypeOK, LockInv, AskedInv, FileInv, SentInv, FreshInv,
         RevokeInv, OneSuccessor, TypeOK', [Next]_vars
  PROVE  FileInv'
<1> USE NoneAssumption DEF FileInv, serverVars, clientVars
<1>1. ASSUME NEW c \in Clients, NEW m \in Calls, Begin(c, m) PROVE FileInv'
  BY <1>1 DEF Begin
<1>2. ASSUME NEW c \in Clients, ReturnCached(c) PROVE FileInv'
  BY <1>2 DEF ReturnCached
<1>3. ASSUME NEW c \in Clients, Refuse(c) PROVE FileInv'
  BY <1>3 DEF Refuse
<1>4. ASSUME NEW c \in Clients, CheckSession(c) PROVE FileInv'
  BY <1>4 DEF CheckSession
<1>5. ASSUME NEW c \in Clients, PrepareRotation(c) PROVE FileInv'
  <2>1. /\ file.secret \in Nat /\ minted \in Nat /\ file # None
        /\ file'.grant = file.grant /\ file'.secret = file.secret /\ retired' = retired
    BY <1>5, PrepareFile, LoginTypes DEF TypeOK
  <2>2. UNCHANGED <<cur, prev>>
    BY <1>5 DEF PrepareRotation
  <2>3. CASE file' = file /\ minted' = minted
    BY <2>1, <2>2, <2>3
  <2>4. CASE file.pending = None /\ file'.pending = minted + 1 /\ minted' = minted + 1
    BY <2>1, <2>2, <2>4
  <2> QED BY <2>3, <2>4, <1>5, PrepareFile
<1>6. ASSUME NEW c \in Clients, PostRotation(c) PROVE FileInv'
  BY <1>6 DEF PostRotation
<1>7. ASSUME NEW c \in Clients, CommitRotation(c) PROVE FileInv'
  <2>1. /\ file # None /\ file.pending # None
        /\ file'.grant = file.grant /\ file'.pending = None /\ file'.secret = file.pending
        /\ retired' = retired /\ cur[file.grant] = file.pending
    BY <1>7, CommitFile, LoginTypes
  <2>2. UNCHANGED <<cur, prev, minted>>
    BY <1>7 DEF CommitRotation
  <2> QED BY <2>1, <2>2
<1>8. ASSUME NEW c \in Clients, PassCheck(c) PROVE FileInv'
  BY <1>8 DEF PassCheck
<1>9. ASSUME NEW c \in Clients, RejectGarbled(c) PROVE FileInv'
  BY <1>9 DEF RejectGarbled, SetFile
<1>10. ASSUME NEW c \in Clients, Expire(c) PROVE FileInv'
  BY <1>10 DEF Expire, SetFile
<1>11. ASSUME NEW c \in Clients, Reauthorize(c) PROVE FileInv'
  BY <1>11 DEF Reauthorize
<1>12. ASSUME NEW c \in Clients, Fail(c) PROVE FileInv'
  BY <1>12 DEF Fail
<1>13. ASSUME NEW c \in Clients, Timeout(c) PROVE FileInv'
  BY <1>13 DEF Timeout
<1>14. ASSUME NEW c \in Clients, NEW interactive \in BOOLEAN, Recover(c, interactive) PROVE
   FileInv'
  BY <1>14 DEF Recover
<1>15. ASSUME NEW c \in Clients, NEW g \in Grants, ExchangeCode(c, g) PROVE FileInv'
  BY <1>15, LoginTypes DEF ExchangeCode, TypeOK
<1>16. ASSUME NEW c \in Clients, AbandonLogin(c) PROVE FileInv'
  BY <1>16 DEF AbandonLogin
<1>17. ASSUME NEW c \in Clients, StoreLogin(c) PROVE FileInv'
  <2>1. fresh[c] \in Token /\ fresh[c] # None
    BY <1>17 DEF StoreLogin, FreshInv, TypeOK
  <2>2. file' # None /\ file'.grant = fresh[c].grant /\ file'.secret = fresh[c].secret
        /\ file'.pending = None
    BY <2>1, <1>17, TokenTypes DEF StoreLogin, SetFile
  <2> QED BY <2>1, <2>2, <1>17 DEF StoreLogin, FreshInv, SetFile
<1>18. ASSUME NEW c \in Clients, NEW reached \in BOOLEAN, RevokeOld(c, reached) PROVE FileInv'
  BY <1>18 DEF RevokeOld
<1>19. ASSUME NEW c \in Clients, Logout(c) PROVE FileInv'
  BY <1>19 DEF Logout
<1>20. ASSUME NEW c \in Clients, CompleteLogout(c) PROVE FileInv'
  BY <1>20 DEF CompleteLogout, SetFile
<1>21. ASSUME NEW c \in Clients, Crash(c) PROVE FileInv'
  BY <1>21 DEF Crash
<1>22. ASSUME NEW c \in Clients, CheckAges(c) PROVE FileInv'
  BY <1>22 DEF CheckAges
<1>23. ASSUME NEW m \in sent, ServeRotation(m) PROVE FileInv'
  BY <1>23, RotationEffect, LoginTypes DEF ServeRotation, Serving, TypeOK
<1>24. ASSUME NEW m \in sent, RefuseRotation(m) PROVE FileInv'
  BY <1>24 DEF RefuseRotation, Serving
<1>25. ASSUME NEW m \in sent, ServeSession(m) PROVE FileInv'
  BY <1>25 DEF ServeSession, Serving
<1>26. ASSUME NEW m \in sent, ServeLogout(m) PROVE FileInv'
  BY <1>26 DEF ServeLogout, Serving
<1>27. ASSUME NEW m \in sent, ServeError(m) PROVE FileInv'
  BY <1>27 DEF ServeError, Serving
<1>28. ASSUME NEW g \in Grants, EndGrant(g) PROVE FileInv'
  BY <1>28 DEF EndGrant
<1>29. CASE Tick
  BY <1>29, TickFile DEF Tick
<1>30. CASE UNCHANGED vars
  BY <1>30 DEF vars
<1> HIDE DEF FileInv, serverVars, clientVars
<1> QED
  BY <1>1, <1>2, <1>3, <1>4, <1>5, <1>6, <1>7, <1>8, <1>9, <1>10, <1>11, <1>12, <1>13,
     <1>14, <1>15, <1>16, <1>17, <1>18, <1>19, <1>20, <1>21, <1>22, <1>23, <1>24, <1>25,
     <1>26, <1>27, <1>28, <1>29, <1>30 DEF Next, ClientStep, ServerStep

\* Every step keeps the requests on the wire consistent with the file.
LEMMA SentStep ==
  ASSUME TypeOK, LockInv, AskedInv, FileInv, SentInv, FreshInv,
         RevokeInv, OneSuccessor, TypeOK', [Next]_vars
  PROVE  SentInv'
<1> USE NoneAssumption DEF SentInv, serverVars, clientVars
<1>1. ASSUME NEW c \in Clients, NEW m \in Calls, Begin(c, m) PROVE SentInv'
  BY <1>1 DEF Begin
<1>2. ASSUME NEW c \in Clients, ReturnCached(c) PROVE SentInv'
  BY <1>2 DEF ReturnCached
<1>3. ASSUME NEW c \in Clients, Refuse(c) PROVE SentInv'
  BY <1>3 DEF Refuse
<1>4. ASSUME NEW c \in Clients, CheckSession(c) PROVE SentInv'
  BY <1>4 DEF CheckSession, Post, LoginRequest, FileInv, CachedValid
<1>5. ASSUME NEW c \in Clients, PrepareRotation(c) PROVE SentInv'
  <2>1. \A m \in sent : m.kind = "token" => m.next \in Nat
    BY RequestTypes DEF TypeOK
  <2> QED BY <2>1, <1>5, PrepareFile DEF PrepareRotation
<1>6. ASSUME NEW c \in Clients, PostRotation(c) PROVE SentInv'
  <2>1. file # None /\ file \in Login /\ file.pending # None
    BY <1>6, Holder DEF PostRotation, LockInv
  <2> QED BY <2>1, <1>6, LoginTypes DEF PostRotation, Post, TokenRequest, FileInv
<1>7. ASSUME NEW c \in Clients, CommitRotation(c) PROVE SentInv'
  <2>1. \A m \in sent : m.kind = "token" => m.secret \in Nat
    BY RequestTypes DEF TypeOK
  <2>2. /\ file # None /\ file' # None /\ file.pending # None /\ file.secret < file.pending
        /\ file.secret \in Nat /\ file.pending \in Nat
        /\ file'.grant = file.grant /\ file'.pending = None /\ file'.secret = file.pending
        /\ retired' = retired
    BY <1>7, CommitFile, LoginTypes DEF FileInv
  <2>3. UNCHANGED <<cur, sent>>
    BY <1>7 DEF CommitRotation
  <2> QED BY <2>1, <2>2, <2>3
<1>8. ASSUME NEW c \in Clients, PassCheck(c) PROVE SentInv'
  BY <1>8 DEF PassCheck
<1>9. ASSUME NEW c \in Clients, RejectGarbled(c) PROVE SentInv'
  BY <1>9 DEF RejectGarbled, SetFile, FileInv
<1>10. ASSUME NEW c \in Clients, Expire(c) PROVE SentInv'
  BY <1>10 DEF Expire, SetFile, FileInv
<1>11. ASSUME NEW c \in Clients, Reauthorize(c) PROVE SentInv'
  BY <1>11 DEF Reauthorize
<1>12. ASSUME NEW c \in Clients, Fail(c) PROVE SentInv'
  BY <1>12 DEF Fail
<1>13. ASSUME NEW c \in Clients, Timeout(c) PROVE SentInv'
  BY <1>13 DEF Timeout
<1>14. ASSUME NEW c \in Clients, NEW interactive \in BOOLEAN, Recover(c, interactive) PROVE
   SentInv'
  BY <1>14 DEF Recover
<1>15. ASSUME NEW c \in Clients, NEW g \in Grants, ExchangeCode(c, g) PROVE SentInv'
  BY <1>15, RequestTypes DEF ExchangeCode, TypeOK
<1>16. ASSUME NEW c \in Clients, AbandonLogin(c) PROVE SentInv'
  BY <1>16 DEF AbandonLogin
<1>17. ASSUME NEW c \in Clients, StoreLogin(c) PROVE SentInv'
  <2>1. fresh[c] \in Token /\ fresh[c] # None
    BY <1>17 DEF StoreLogin, FreshInv, TypeOK
  <2>2. file' # None /\ file'.grant = fresh[c].grant
    BY <2>1, <1>17, TokenTypes DEF StoreLogin, SetFile
  <2> QED BY <2>1, <2>2, <1>17 DEF StoreLogin, FreshInv, SetFile, FileInv
<1>18. ASSUME NEW c \in Clients, NEW reached \in BOOLEAN, RevokeOld(c, reached) PROVE SentInv'
  BY <1>18 DEF RevokeOld, RevokeInv
<1>19. ASSUME NEW c \in Clients, Logout(c) PROVE SentInv'
  BY <1>19 DEF Logout, Post, LoginRequest, FileInv, Leave
<1>20. ASSUME NEW c \in Clients, CompleteLogout(c) PROVE SentInv'
  BY <1>20 DEF CompleteLogout, SetFile, FileInv
<1>21. ASSUME NEW c \in Clients, Crash(c) PROVE SentInv'
  BY <1>21 DEF Crash
<1>22. ASSUME NEW c \in Clients, CheckAges(c) PROVE SentInv'
  BY <1>22 DEF CheckAges
<1>23. ASSUME NEW m \in sent, ServeRotation(m) PROVE SentInv'
  <2>1. m \in Request /\ m.grant \in Grants /\ m.secret \in Nat /\ m.next \in Nat
        /\ m.secret < m.next /\ m.kind = "token"
    BY <1>23, RequestTypes DEF ServeRotation, TypeOK
  <2>2. m.next # 0
    BY <2>1
  <2>3. \A g \in Grants : cur[g] # 0 => cur'[g] # 0
    BY <2>1, <2>2, <1>23 DEF ServeRotation, TypeOK
  <2>4. \A n \in sent : n.grant \in Grants
    BY RequestTypes DEF TypeOK
  <2> QED BY <2>3, <2>4, <1>23 DEF ServeRotation, Serving, TypeOK
<1>24. ASSUME NEW m \in sent, RefuseRotation(m) PROVE SentInv'
  BY <1>24 DEF RefuseRotation, Serving, Knows
<1>25. ASSUME NEW m \in sent, ServeSession(m) PROVE SentInv'
  BY <1>25 DEF ServeSession, Serving, Knows
<1>26. ASSUME NEW m \in sent, ServeLogout(m) PROVE SentInv'
  BY <1>26 DEF ServeLogout, Serving, Knows
<1>27. ASSUME NEW m \in sent, ServeError(m) PROVE SentInv'
  BY <1>27 DEF ServeError, Serving
<1>28. ASSUME NEW g \in Grants, EndGrant(g) PROVE SentInv'
  BY <1>28 DEF EndGrant
<1>29. CASE Tick
  BY <1>29, TickFile DEF Tick
<1>30. CASE UNCHANGED vars
  BY <1>30 DEF vars
<1> HIDE DEF SentInv, serverVars, clientVars
<1> QED
  BY <1>1, <1>2, <1>3, <1>4, <1>5, <1>6, <1>7, <1>8, <1>9, <1>10, <1>11, <1>12, <1>13,
     <1>14, <1>15, <1>16, <1>17, <1>18, <1>19, <1>20, <1>21, <1>22, <1>23, <1>24, <1>25,
     <1>26, <1>27, <1>28, <1>29, <1>30 DEF Next, ClientStep, ServerStep

\* Every step keeps one successor per secret.
LEMMA SuccessorStep ==
  ASSUME TypeOK, LockInv, AskedInv, FileInv, SentInv, FreshInv,
         RevokeInv, OneSuccessor, TypeOK', [Next]_vars
  PROVE  OneSuccessor'
<1> USE NoneAssumption DEF OneSuccessor, serverVars, clientVars
<1>1. ASSUME NEW c \in Clients, NEW m \in Calls, Begin(c, m) PROVE OneSuccessor'
  BY <1>1 DEF Begin
<1>2. ASSUME NEW c \in Clients, ReturnCached(c) PROVE OneSuccessor'
  BY <1>2 DEF ReturnCached
<1>3. ASSUME NEW c \in Clients, Refuse(c) PROVE OneSuccessor'
  BY <1>3 DEF Refuse
<1>4. ASSUME NEW c \in Clients, CheckSession(c) PROVE OneSuccessor'
  BY <1>4 DEF CheckSession, Post, LoginRequest
<1>5. ASSUME NEW c \in Clients, PrepareRotation(c) PROVE OneSuccessor'
  BY <1>5 DEF PrepareRotation
<1>6. ASSUME NEW c \in Clients, PostRotation(c) PROVE OneSuccessor'
  <2>1. file # None
    BY <1>6, Holder DEF PostRotation
  <2> QED BY <2>1, <1>6 DEF PostRotation, Post, TokenRequest, SentInv
<1>7. ASSUME NEW c \in Clients, CommitRotation(c) PROVE OneSuccessor'
  BY <1>7 DEF CommitRotation
<1>8. ASSUME NEW c \in Clients, PassCheck(c) PROVE OneSuccessor'
  BY <1>8 DEF PassCheck
<1>9. ASSUME NEW c \in Clients, RejectGarbled(c) PROVE OneSuccessor'
  BY <1>9 DEF RejectGarbled
<1>10. ASSUME NEW c \in Clients, Expire(c) PROVE OneSuccessor'
  BY <1>10 DEF Expire
<1>11. ASSUME NEW c \in Clients, Reauthorize(c) PROVE OneSuccessor'
  BY <1>11 DEF Reauthorize
<1>12. ASSUME NEW c \in Clients, Fail(c) PROVE OneSuccessor'
  BY <1>12 DEF Fail
<1>13. ASSUME NEW c \in Clients, Timeout(c) PROVE OneSuccessor'
  BY <1>13 DEF Timeout
<1>14. ASSUME NEW c \in Clients, NEW interactive \in BOOLEAN, Recover(c, interactive) PROVE
   OneSuccessor'
  BY <1>14 DEF Recover
<1>15. ASSUME NEW c \in Clients, NEW g \in Grants, ExchangeCode(c, g) PROVE OneSuccessor'
  BY <1>15 DEF ExchangeCode
<1>16. ASSUME NEW c \in Clients, AbandonLogin(c) PROVE OneSuccessor'
  BY <1>16 DEF AbandonLogin
<1>17. ASSUME NEW c \in Clients, StoreLogin(c) PROVE OneSuccessor'
  BY <1>17 DEF StoreLogin
<1>18. ASSUME NEW c \in Clients, NEW reached \in BOOLEAN, RevokeOld(c, reached) PROVE
   OneSuccessor'
  BY <1>18 DEF RevokeOld, RevokeInv
<1>19. ASSUME NEW c \in Clients, Logout(c) PROVE OneSuccessor'
  BY <1>19 DEF Logout, Post, LoginRequest, Leave
<1>20. ASSUME NEW c \in Clients, CompleteLogout(c) PROVE OneSuccessor'
  BY <1>20 DEF CompleteLogout
<1>21. ASSUME NEW c \in Clients, Crash(c) PROVE OneSuccessor'
  BY <1>21 DEF Crash
<1>22. ASSUME NEW c \in Clients, CheckAges(c) PROVE OneSuccessor'
  BY <1>22 DEF CheckAges
<1>23. ASSUME NEW m \in sent, ServeRotation(m) PROVE OneSuccessor'
  BY <1>23 DEF ServeRotation, Serving
<1>24. ASSUME NEW m \in sent, RefuseRotation(m) PROVE OneSuccessor'
  BY <1>24 DEF RefuseRotation, Serving
<1>25. ASSUME NEW m \in sent, ServeSession(m) PROVE OneSuccessor'
  BY <1>25 DEF ServeSession, Serving
<1>26. ASSUME NEW m \in sent, ServeLogout(m) PROVE OneSuccessor'
  BY <1>26 DEF ServeLogout, Serving
<1>27. ASSUME NEW m \in sent, ServeError(m) PROVE OneSuccessor'
  BY <1>27 DEF ServeError, Serving
<1>28. ASSUME NEW g \in Grants, EndGrant(g) PROVE OneSuccessor'
  BY <1>28 DEF EndGrant
<1>29. CASE Tick
  BY <1>29 DEF Tick
<1>30. CASE UNCHANGED vars
  BY <1>30 DEF vars
<1> HIDE DEF OneSuccessor, serverVars, clientVars
<1> QED
  BY <1>1, <1>2, <1>3, <1>4, <1>5, <1>6, <1>7, <1>8, <1>9, <1>10, <1>11, <1>12, <1>13,
     <1>14, <1>15, <1>16, <1>17, <1>18, <1>19, <1>20, <1>21, <1>22, <1>23, <1>24, <1>25,
     <1>26, <1>27, <1>28, <1>29, <1>30 DEF Next, ClientStep, ServerStep

\* Every step keeps a waiting client's request about the file as it is.
LEMMA AskedStep ==
  ASSUME TypeOK, LockInv, AskedInv, FileInv, SentInv, FreshInv,
         RevokeInv, OneSuccessor, TypeOK', [Next]_vars
  PROVE  AskedInv'
<1> USE NoCode DEF serverVars, clientVars
<1>1. ASSUME NEW c \in Clients, NEW m \in Calls, Begin(c, m) PROVE AskedInv'
  BY <1>1 DEF Begin, Leave, GoTo, TypeOK, AskedInv
<1>2. ASSUME NEW c \in Clients, ReturnCached(c) PROVE AskedInv'
  <2>1. \A d \in Clients : pc'[d] # "await" /\ reply'[d] = None
    BY <1>2, OneHolder DEF ReturnCached, Calling, Answered, Leave, GoTo, TypeOK, AskedInv
  <2> QED BY <2>1 DEF AskedInv
<1>3. ASSUME NEW c \in Clients, Refuse(c) PROVE AskedInv'
  <2>1. \A d \in Clients : pc'[d] # "await" /\ reply'[d] = None
    BY <1>3, OneHolder DEF Refuse, Calling, Answered, Leave, GoTo, TypeOK, AskedInv
  <2> QED BY <2>1 DEF AskedInv
<1>4. ASSUME NEW c \in Clients, CheckSession(c) PROVE AskedInv'
  <2>1. \A d \in Clients : d # c => pc'[d] # "await"
    BY <1>4, OneHolder DEF CheckSession, Calling, Post, TypeOK
  <2>2. \A d \in Clients : reply'[d] = None
    BY <1>4, OneHolder DEF CheckSession, Calling, Post, TypeOK, AskedInv
  <2>3. asked'[c] = LoginRequest("session", file) /\ file.pending = None /\ file' = file
    BY <1>4 DEF CheckSession, CachedValid, Post, TypeOK
  <2> QED BY <2>1, <2>2, <2>3 DEF AskedInv
<1>5. ASSUME NEW c \in Clients, PrepareRotation(c) PROVE AskedInv'
  <2>1. \A d \in Clients : pc'[d] # "await" /\ reply'[d] = None
    BY <1>5, OneHolder DEF PrepareRotation, Calling, Answered, Leave, GoTo, TypeOK, AskedInv
  <2> QED BY <2>1 DEF AskedInv
<1>6. ASSUME NEW c \in Clients, PostRotation(c) PROVE AskedInv'
  <2>1. \A d \in Clients : d # c => pc'[d] # "await"
    BY <1>6, OneHolder DEF PostRotation, Post, TypeOK
  <2>2. \A d \in Clients : reply'[d] = None
    BY <1>6, OneHolder DEF PostRotation, Post, TypeOK, AskedInv
  <2>3. asked'[c] = TokenRequest(file) /\ file.pending # None /\ file' = file
    BY <1>6 DEF PostRotation, Post, TypeOK, LockInv
  <2> QED BY <2>1, <2>2, <2>3 DEF AskedInv
<1>7. ASSUME NEW c \in Clients, CommitRotation(c) PROVE AskedInv'
  <2>1. \A d \in Clients : pc'[d] # "await" /\ reply'[d] = None
    BY <1>7, OneHolder DEF CommitRotation, Calling, Answered, Leave, GoTo, TypeOK, AskedInv
  <2> QED BY <2>1 DEF AskedInv
<1>8. ASSUME NEW c \in Clients, PassCheck(c) PROVE AskedInv'
  <2>1. \A d \in Clients : pc'[d] # "await" /\ reply'[d] = None
    BY <1>8, OneHolder DEF PassCheck, Calling, Answered, Leave, GoTo, TypeOK, AskedInv
  <2> QED BY <2>1 DEF AskedInv
<1>9. ASSUME NEW c \in Clients, RejectGarbled(c) PROVE AskedInv'
  <2>1. \A d \in Clients : pc'[d] # "await" /\ reply'[d] = None
    BY <1>9, OneHolder DEF RejectGarbled, Calling, Answered, Leave, GoTo, TypeOK, AskedInv
  <2> QED BY <2>1 DEF AskedInv
<1>10. ASSUME NEW c \in Clients, Expire(c) PROVE AskedInv'
  <2>1. \A d \in Clients : pc'[d] # "await" /\ reply'[d] = None
    BY <1>10, OneHolder DEF Expire, Calling, Answered, Leave, GoTo, TypeOK, AskedInv
  <2> QED BY <2>1 DEF AskedInv
<1>11. ASSUME NEW c \in Clients, Reauthorize(c) PROVE AskedInv'
  <2>1. \A d \in Clients : pc'[d] # "await" /\ reply'[d] = None
    BY <1>11, OneHolder DEF Reauthorize, Calling, Answered, Leave, GoTo, TypeOK, AskedInv
  <2> QED BY <2>1 DEF AskedInv
<1>12. ASSUME NEW c \in Clients, Fail(c) PROVE AskedInv'
  <2>1. \A d \in Clients : pc'[d] # "await" /\ reply'[d] = None
    BY <1>12, OneHolder DEF Fail, Calling, Answered, Leave, GoTo, TypeOK, AskedInv
  <2> QED BY <2>1 DEF AskedInv
<1>13. ASSUME NEW c \in Clients, Timeout(c) PROVE AskedInv'
  <2>1. \A d \in Clients : pc'[d] # "await" /\ reply'[d] = None
    BY <1>13, OneHolder DEF Timeout, Calling, Answered, Leave, GoTo, TypeOK, AskedInv
  <2> QED BY <2>1 DEF AskedInv
<1>14. ASSUME NEW c \in Clients, NEW interactive \in BOOLEAN, Recover(c, interactive) PROVE
   AskedInv'
  BY <1>14 DEF Recover, Leave, GoTo, TypeOK, AskedInv
<1>15. ASSUME NEW c \in Clients, NEW g \in Grants, ExchangeCode(c, g) PROVE AskedInv'
  <2>1. file # None => file.grant # g /\ cur'[file.grant] = cur[file.grant]
    BY <1>15, LoginTypes DEF ExchangeCode, FileInv, TypeOK
  <2>2. \A d \in Clients : pc'[d] = "await" => pc[d] = "await" /\ file # None
    BY <1>15, Holder DEF ExchangeCode, TypeOK
  <2>3. \A d \in Clients : pc[d] = "await" => asked[d].grant = file.grant
    BY DEF AskedInv, TokenRequest, LoginRequest
  <2>4. \A d \in Clients :
          /\ asked'[d] = asked[d] /\ reply'[d] = reply[d]
          /\ pc[d] = "await" => pc'[d] = "await"
    BY <1>15 DEF ExchangeCode, TypeOK
  <2> QED BY <2>1, <2>2, <2>3, <2>4, <1>15 DEF ExchangeCode, AskedInv
<1>16. ASSUME NEW c \in Clients, AbandonLogin(c) PROVE AskedInv'
  BY <1>16 DEF AbandonLogin, Leave, GoTo, TypeOK, AskedInv
<1>17. ASSUME NEW c \in Clients, StoreLogin(c) PROVE AskedInv'
  <2>1. \A d \in Clients : pc'[d] # "await" /\ reply'[d] = None
    BY <1>17, OneHolder DEF StoreLogin, Calling, Answered, Leave, GoTo, TypeOK, AskedInv,
       AfterLogin
  <2> QED BY <2>1 DEF AskedInv
<1>18. ASSUME NEW c \in Clients, NEW reached \in BOOLEAN, RevokeOld(c, reached) PROVE AskedInv'
  <2>1. reply'[c] = None /\ pc'[c] # "await"
    BY <1>18 DEF RevokeOld, GoTo, AfterLogin, TypeOK, AskedInv
  <2>2. \A d \in Clients : d # c => pc'[d] = pc[d] /\ asked'[d] = asked[d] /\ reply'[d] =
     reply[d]
    BY <1>18 DEF RevokeOld, GoTo, TypeOK
  <2> QED BY <2>1, <2>2, <1>18 DEF RevokeOld, AskedInv
<1>19. ASSUME NEW c \in Clients, Logout(c) PROVE AskedInv'
  <2>1. \A d \in Clients : d # c => pc'[d] # "await"
    BY <1>19, OneHolder DEF Logout, Post, Leave, GoTo, TypeOK
  <2>2. \A d \in Clients : reply'[d] = None
    BY <1>19, OneHolder DEF Logout, Post, Leave, GoTo, TypeOK, AskedInv
  <2>3. pc'[c] = "await" => asked'[c] = LoginRequest("logout", file) /\ file' = file
    BY <1>19 DEF Logout, Post, Leave, GoTo, TypeOK
  <2> QED BY <2>1, <2>2, <2>3 DEF AskedInv
<1>20. ASSUME NEW c \in Clients, CompleteLogout(c) PROVE AskedInv'
  <2>1. \A d \in Clients : pc'[d] # "await" /\ reply'[d] = None
    BY <1>20, OneHolder DEF CompleteLogout, Calling, Answered, Leave, GoTo, TypeOK, AskedInv
  <2> QED BY <2>1 DEF AskedInv
<1>21. ASSUME NEW c \in Clients, Crash(c) PROVE AskedInv'
  <2>1. reply'[c] = None /\ pc'[c] # "await"
    BY <1>21 DEF Crash, GoTo, TypeOK
  <2>2. \A d \in Clients : d # c => pc'[d] = pc[d] /\ asked'[d] = asked[d] /\ reply'[d] =
     reply[d]
    BY <1>21 DEF Crash, GoTo, TypeOK
  <2> QED BY <2>1, <2>2, <1>21 DEF Crash, AskedInv
<1>22. ASSUME NEW c \in Clients, CheckAges(c) PROVE AskedInv'
  BY <1>22 DEF CheckAges, Leave, GoTo, TypeOK, AskedInv
<1>23. ASSUME NEW m \in sent, ServeRotation(m) PROVE AskedInv'
  <2>1. m.kind = "token" /\ file' = file /\ asked' = asked /\ pc' = pc /\ live' = live
    BY <1>23 DEF ServeRotation, Serving
  <2>2. \A d \in Clients :
          \/ reply'[d] = reply[d]
          \/ pc[d] = "await" /\ asked[d] = m /\ reply'[d] \in {"ok", "garbled"}
    BY <1>23 DEF ServeRotation, Answer, TypeOK
  <2>3. ASSUME NEW d \in Clients, pc[d] = "await", asked[d] = m
        PROVE  cur'[file.grant] = file.pending
    <3>1. file # None /\ file \in Login /\ m.grant = file.grant /\ m.secret = file.secret
          /\ m.next = file.pending /\ file.pending \in Nat /\ file.grant \in Grants
      BY <2>1, <2>3, Holder, Rotating, LoginTypes DEF TokenRequest
    <3> QED BY <3>1, <1>23 DEF ServeRotation, TypeOK
  <2>4. ASSUME NEW d \in Clients, pc[d] = "await", cur[file.grant] = file.pending
        PROVE  cur'[file.grant] = file.pending
    BY <2>4, <1>23, Holder, RotationEffect
  <2> QED BY <2>1, <2>2, <2>3, <2>4 DEF AskedInv
<1>24. ASSUME NEW m \in sent, RefuseRotation(m) PROVE AskedInv'
  <2>1. m.kind = "token" /\ file' = file /\ asked' = asked /\ pc' = pc /\ UNCHANGED <<live,
     cur, prev>>
    BY <1>24 DEF RefuseRotation, Serving
  <2>2. \A d \in Clients :
          \/ reply'[d] = reply[d]
          \/ pc[d] = "await" /\ asked[d] = m /\ reply'[d] = "invalid"
    BY <1>24 DEF RefuseRotation, Answer, TypeOK
  <2>3. ASSUME NEW d \in Clients, pc[d] = "await", asked[d] = m
        PROVE  m.grant \notin live
    <3>1. file # None /\ file \in Login /\ m.grant = file.grant /\ m.secret = file.secret
          /\ m.next = file.pending
      BY <2>1, <2>3, Holder, Rotating DEF TokenRequest
    <3> QED BY <3>1, <1>24 DEF RefuseRotation, Knows, FileInv
  <2> QED BY <2>1, <2>2, <2>3 DEF AskedInv
<1>25. ASSUME NEW m \in sent, ServeSession(m) PROVE AskedInv'
  <2>1. m.kind = "session" /\ file' = file /\ asked' = asked /\ pc' = pc /\ UNCHANGED
     <<live, cur, prev>>
    BY <1>25 DEF ServeSession, Serving
  <2>2. \A d \in Clients :
          \/ reply'[d] = reply[d]
          \/ pc[d] = "await" /\ asked[d] = m /\ reply'[d] # None /\ (reply'[d] = "invalid" => ~Knows(m))
    BY <1>25 DEF ServeSession, Answer, TypeOK
  <2>3. ASSUME NEW d \in Clients, pc[d] = "await", asked[d] = m, ~Knows(m)
        PROVE  m.grant \notin live
    <3>1. file # None /\ m.grant = file.grant /\ m.secret = file.secret /\ file.pending = None
      BY <2>1, <2>3, Holder DEF AskedInv, TokenRequest, LoginRequest
    <3> QED BY <3>1, <2>3 DEF Knows, FileInv
  <2> QED BY <2>1, <2>2, <2>3 DEF AskedInv
<1>26. ASSUME NEW m \in sent, ServeLogout(m) PROVE AskedInv'
  <2>1. m.kind = "logout" /\ file' = file /\ asked' = asked /\ pc' = pc /\ live' \subseteq
     live /\ cur' = cur
    BY <1>26 DEF ServeLogout, Serving
  <2>2. \A d \in Clients : reply'[d] = reply[d] \/ (pc[d] = "await" /\ asked[d] = m)
    BY <1>26 DEF ServeLogout, Answer, TypeOK
  <2> QED BY <2>1, <2>2 DEF AskedInv, Renewing
<1>27. ASSUME NEW m \in sent, ServeError(m) PROVE AskedInv'
  <2>1. file' = file /\ asked' = asked /\ pc' = pc /\ UNCHANGED <<live, cur, prev>>
    BY <1>27 DEF ServeError, Serving
  <2>2. \A d \in Clients :
          \/ reply'[d] = reply[d]
          \/ pc[d] = "await" /\ reply'[d] \in {"reauth", "error"}
    BY <1>27 DEF ServeError, Answer, TypeOK
  <2> QED BY <2>1, <2>2 DEF AskedInv
<1>28. ASSUME NEW g \in Grants, EndGrant(g) PROVE AskedInv'
  BY <1>28 DEF EndGrant, AskedInv
<1>29. CASE Tick
  <2>1. TokenRequest(file') = TokenRequest(file)
        /\ LoginRequest("session", file') = LoginRequest("session", file)
        /\ LoginRequest("logout", file') = LoginRequest("logout", file)
    BY <1>29, TickFile DEF TokenRequest, LoginRequest
  <2> QED BY <2>1, <1>29, TickFile DEF Tick, AskedInv
<1>30. CASE UNCHANGED vars
  BY <1>30 DEF vars, AskedInv, TokenRequest, LoginRequest
<1> HIDE DEF serverVars, clientVars
<1> QED
  BY <1>1, <1>2, <1>3, <1>4, <1>5, <1>6, <1>7, <1>8, <1>9, <1>10, <1>11, <1>12, <1>13,
     <1>14, <1>15, <1>16, <1>17, <1>18, <1>19, <1>20, <1>21, <1>22, <1>23, <1>24, <1>25,
     <1>26, <1>27, <1>28, <1>29, <1>30 DEF Next, ClientStep, ServerStep

\* Every step keeps a granted login private until it is stored.
LEMMA FreshStep ==
  ASSUME TypeOK, LockInv, AskedInv, FileInv, SentInv, FreshInv,
         RevokeInv, OneSuccessor, TypeOK', [Next]_vars
  PROVE  FreshInv'
<1> USE NoneAssumption DEF TypeOK, FreshInv, serverVars, clientVars
<1>1. ASSUME NEW c \in Clients, NEW m \in Calls, Begin(c, m) PROVE FreshInv'
  BY <1>1 DEF Begin
<1>2. ASSUME NEW c \in Clients, ReturnCached(c) PROVE FreshInv'
  BY <1>2 DEF ReturnCached, Calling, Leave, GoTo
<1>3. ASSUME NEW c \in Clients, Refuse(c) PROVE FreshInv'
  BY <1>3 DEF Refuse, Calling, ForgetCheck, Leave, GoTo
<1>4. ASSUME NEW c \in Clients, CheckSession(c) PROVE FreshInv'
  BY <1>4 DEF CheckSession, Calling, CachedValid, Post, LoginRequest
<1>5. ASSUME NEW c \in Clients, PrepareRotation(c) PROVE FreshInv'
  <2>1. /\ file' # None /\ file # None /\ file'.grant = file.grant /\ retired' = retired
        /\ minted' \in {minted, minted + 1}
    BY <1>5, PrepareFile
  <2>2. \A d \in Clients : fresh[d] # None => fresh[d].secret \in Nat
    BY TokenTypes
  <2>3. \A d \in Clients : (pc'[d] = "store") <=> (pc[d] = "store")
    BY <1>5 DEF PrepareRotation, Calling
  <2> QED BY <2>1, <2>2, <2>3, <1>5 DEF PrepareRotation
<1>6. ASSUME NEW c \in Clients, PostRotation(c) PROVE FreshInv'
  BY <1>6, Holder DEF PostRotation, Post, TokenRequest
<1>7. ASSUME NEW c \in Clients, CommitRotation(c) PROVE FreshInv'
  <2>1. /\ file' # None /\ file # None /\ file'.grant = file.grant /\ retired' = retired
    BY <1>7, CommitFile
  <2>2. \A d \in Clients : (pc'[d] = "store") <=> (pc[d] = "store")
    BY <1>7 DEF CommitRotation, Answered, Leave, GoTo
  <2> QED BY <2>1, <2>2, <1>7 DEF CommitRotation, Leave
<1>8. ASSUME NEW c \in Clients, PassCheck(c) PROVE FreshInv'
  BY <1>8 DEF PassCheck, Answered, Leave, GoTo
<1>9. ASSUME NEW c \in Clients, RejectGarbled(c) PROVE FreshInv'
  BY <1>9 DEF RejectGarbled, Answered, SetFile, ForgetCheck, Leave, GoTo
<1>10. ASSUME NEW c \in Clients, Expire(c) PROVE FreshInv'
  BY <1>10 DEF Expire, Answered, SetFile, ForgetCheck, Leave, GoTo
<1>11. ASSUME NEW c \in Clients, Reauthorize(c) PROVE FreshInv'
  BY <1>11 DEF Reauthorize, Answered, Leave, GoTo
<1>12. ASSUME NEW c \in Clients, Fail(c) PROVE FreshInv'
  BY <1>12 DEF Fail, Leave, GoTo
<1>13. ASSUME NEW c \in Clients, Timeout(c) PROVE FreshInv'
  BY <1>13 DEF Timeout, Leave, GoTo
<1>14. ASSUME NEW c \in Clients, NEW interactive \in BOOLEAN, Recover(c, interactive) PROVE
   FreshInv'
  BY <1>14 DEF Recover, GoTo
<1>15. ASSUME NEW c \in Clients, NEW g \in Grants, ExchangeCode(c, g) PROVE FreshInv'
  <2>1. /\ \A d \in Clients : fresh[d] # None => fresh[d].grant # g
        /\ \A m \in sent : m.grant # g
        /\ g \notin retired
        /\ file # None => file.grant # g
    BY <1>15 DEF ExchangeCode, SentInv, FileInv
  <2>4. /\ fresh'[c] = [grant |-> g, secret |-> minted + 1] /\ cur'[g] = minted + 1
        /\ \A d \in Clients : d # c => fresh'[d] = fresh[d] /\ pc'[d] = pc[d]
        /\ pc'[c] = "store" /\ minted' = minted + 1
    BY <2>1, <1>15 DEF ExchangeCode
  <2>5. \A d \in Clients : fresh[d] # None => fresh[d].grant \in Grants
    BY TokenTypes
  <2>6. \A d \in Clients : fresh[d] # None => cur'[fresh[d].grant] = cur[fresh[d].grant]
    BY <2>1, <2>5, <1>15 DEF ExchangeCode
  <2>7. [grant |-> g, secret |-> minted + 1] \in Token
    BY DEF Token
  <2>2. /\ fresh'[c].grant = g /\ fresh'[c].secret = minted + 1 /\ fresh'[c] # None
        /\ minted + 1 # 0 /\ minted + 1 <= minted + 1
    BY <2>4, <2>7, TokenTypes
  <2>3. \A d \in Clients : fresh[d] # None => fresh[d].secret \in Nat
    BY TokenTypes
  <2> QED BY <2>1, <2>2, <2>3, <2>4, <2>6, <1>15 DEF ExchangeCode
<1>16. ASSUME NEW c \in Clients, AbandonLogin(c) PROVE FreshInv'
  BY <1>16 DEF AbandonLogin, GoTo
<1>17. ASSUME NEW c \in Clients, StoreLogin(c) PROVE FreshInv'
  <2>1. fresh[c] \in Token /\ fresh[c] # None
    BY <1>17 DEF StoreLogin
  <2>2. file' # None /\ file'.grant = fresh[c].grant
    BY <2>1, <1>17, TokenTypes DEF StoreLogin, SetFile
  <2>3. \A d \in Clients : d # c => fresh'[d] = fresh[d] /\ pc'[d] = pc[d]
    BY <1>17 DEF StoreLogin, GoTo
  <2>4. fresh'[c] = None /\ pc'[c] # "store"
    BY <1>17 DEF StoreLogin, GoTo, AfterLogin
  <2>5. retired' \subseteq retired \cup (IF file = None THEN {} ELSE {file.grant})
    BY <1>17 DEF StoreLogin, SetFile
  <2> QED BY <2>1, <2>2, <2>3, <2>4, <2>5, <1>17 DEF StoreLogin
<1>18. ASSUME NEW c \in Clients, NEW reached \in BOOLEAN, RevokeOld(c, reached) PROVE FreshInv'
  BY <1>18 DEF RevokeOld, GoTo, AfterLogin, RevokeInv
<1>19. ASSUME NEW c \in Clients, Logout(c) PROVE FreshInv'
  BY <1>19 DEF Logout, Leave, GoTo, Post, LoginRequest
<1>20. ASSUME NEW c \in Clients, CompleteLogout(c) PROVE FreshInv'
  BY <1>20 DEF CompleteLogout, Answered, SetFile, ForgetCheck, Leave, GoTo
<1>21. ASSUME NEW c \in Clients, Crash(c) PROVE FreshInv'
  BY <1>21 DEF Crash, GoTo, ForgetCheck
<1>22. ASSUME NEW c \in Clients, CheckAges(c) PROVE FreshInv'
  BY <1>22 DEF CheckAges, ForgetCheck
<1>23. ASSUME NEW m \in sent, ServeRotation(m) PROVE FreshInv'
  <2>1. \A d \in Clients : fresh[d] # None =>
          fresh[d].grant # m.grant /\ cur'[fresh[d].grant] = cur[fresh[d].grant]
    <3>1. \A d \in Clients : fresh[d] # None => fresh[d].grant \in Grants
      BY TokenTypes
    <3> QED BY <3>1, <1>23 DEF ServeRotation
  <2> QED BY <2>1, <1>23 DEF ServeRotation, Serving
<1>24. ASSUME NEW m \in sent, RefuseRotation(m) PROVE FreshInv'
  BY <1>24 DEF RefuseRotation, Serving, Answer
<1>25. ASSUME NEW m \in sent, ServeSession(m) PROVE FreshInv'
  BY <1>25 DEF ServeSession, Serving, Answer
<1>26. ASSUME NEW m \in sent, ServeLogout(m) PROVE FreshInv'
  BY <1>26 DEF ServeLogout, Serving, Answer
<1>27. ASSUME NEW m \in sent, ServeError(m) PROVE FreshInv'
  BY <1>27 DEF ServeError, Serving, Answer
<1>28. ASSUME NEW g \in Grants, EndGrant(g) PROVE FreshInv'
  BY <1>28 DEF EndGrant
<1>29. CASE Tick
  BY <1>29, TickFile DEF Tick
<1>30. CASE UNCHANGED vars
  BY <1>30 DEF vars
<1> HIDE DEF TypeOK, FreshInv, serverVars, clientVars
<1> QED
  BY <1>1, <1>2, <1>3, <1>4, <1>5, <1>6, <1>7, <1>8, <1>9, <1>10, <1>11, <1>12, <1>13,
     <1>14, <1>15, <1>16, <1>17, <1>18, <1>19, <1>20, <1>21, <1>22, <1>23, <1>24, <1>25,
     <1>26, <1>27, <1>28, <1>29, <1>30 DEF Next, ClientStep, ServerStep

\* Every step keeps late revocations about grants given up.
LEMMA RevokeStep ==
  ASSUME TypeOK, LockInv, AskedInv, FileInv, SentInv, FreshInv,
         RevokeInv, OneSuccessor, TypeOK', [Next]_vars
  PROVE  RevokeInv'
<1> USE NoneAssumption DEF TypeOK, RevokeInv, serverVars, clientVars
<1>1. ASSUME NEW c \in Clients, NEW m \in Calls, Begin(c, m) PROVE RevokeInv'
  BY <1>1 DEF Begin
<1>2. ASSUME NEW c \in Clients, ReturnCached(c) PROVE RevokeInv'
  BY <1>2 DEF ReturnCached, Calling, Leave, GoTo
<1>3. ASSUME NEW c \in Clients, Refuse(c) PROVE RevokeInv'
  BY <1>3 DEF Refuse, Calling, ForgetCheck, Leave, GoTo
<1>4. ASSUME NEW c \in Clients, CheckSession(c) PROVE RevokeInv'
  BY <1>4 DEF CheckSession, Calling, ForgetCheck, Post
<1>5. ASSUME NEW c \in Clients, PrepareRotation(c) PROVE RevokeInv'
  BY <1>5, PrepareFile DEF PrepareRotation
<1>6. ASSUME NEW c \in Clients, PostRotation(c) PROVE RevokeInv'
  BY <1>6 DEF PostRotation, Post
<1>7. ASSUME NEW c \in Clients, CommitRotation(c) PROVE RevokeInv'
  BY <1>7, CommitFile DEF CommitRotation, Leave, GoTo
<1>8. ASSUME NEW c \in Clients, PassCheck(c) PROVE RevokeInv'
  BY <1>8 DEF PassCheck, Answered, Leave, GoTo
<1>9. ASSUME NEW c \in Clients, RejectGarbled(c) PROVE RevokeInv'
  BY <1>9 DEF RejectGarbled, Answered, SetFile, ForgetCheck, Leave, GoTo
<1>10. ASSUME NEW c \in Clients, Expire(c) PROVE RevokeInv'
  BY <1>10 DEF Expire, Answered, SetFile, ForgetCheck, Leave, GoTo
<1>11. ASSUME NEW c \in Clients, Reauthorize(c) PROVE RevokeInv'
  BY <1>11 DEF Reauthorize, Answered, Leave, GoTo
<1>12. ASSUME NEW c \in Clients, Fail(c) PROVE RevokeInv'
  BY <1>12 DEF Fail, Leave, GoTo
<1>13. ASSUME NEW c \in Clients, Timeout(c) PROVE RevokeInv'
  BY <1>13 DEF Timeout, Leave, GoTo
<1>14. ASSUME NEW c \in Clients, NEW interactive \in BOOLEAN, Recover(c, interactive) PROVE
   RevokeInv'
  BY <1>14 DEF Recover, GoTo
<1>15. ASSUME NEW c \in Clients, NEW g \in Grants, ExchangeCode(c, g) PROVE RevokeInv'
  BY <1>15 DEF ExchangeCode
<1>16. ASSUME NEW c \in Clients, AbandonLogin(c) PROVE RevokeInv'
  BY <1>16 DEF AbandonLogin, GoTo
<1>17. ASSUME NEW c \in Clients, StoreLogin(c) PROVE RevokeInv'
  <2>1. file # None => /\ LoginRequest("logout", file) \in Request
                       /\ LoginRequest("logout", file).kind = "logout"
                       /\ LoginRequest("logout", file).grant = file.grant
    BY LoginTypes DEF LoginRequest
  <2>2. fresh[c] \in Token /\ fresh[c] # None
    BY <1>17 DEF StoreLogin, FreshInv
  <2>3. file # None => file.grant # fresh[c].grant
    BY <2>2 DEF FreshInv
  <2>4. retired \subseteq retired' /\ (file # None => file.grant \in retired')
    BY <2>2, <2>3, <1>17, TokenTypes DEF StoreLogin, SetFile
  <2>5. \A d \in Clients : d # c => asked'[d] = asked[d] /\ (pc'[d] = "revoke" => pc[d] =
     "revoke")
    BY <1>17 DEF StoreLogin, GoTo
  <2>6. pc'[c] = "revoke" => file # None /\ asked'[c] = LoginRequest("logout", file)
    BY <1>17 DEF StoreLogin, GoTo, AfterLogin
  <2> QED BY <2>1, <2>4, <2>5, <2>6, RequestTypes
<1>18. ASSUME NEW c \in Clients, NEW reached \in BOOLEAN, RevokeOld(c, reached) PROVE RevokeInv'
  BY <1>18 DEF RevokeOld, GoTo, AfterLogin
<1>19. ASSUME NEW c \in Clients, Logout(c) PROVE RevokeInv'
  BY <1>19 DEF Logout, ForgetCheck, Leave, GoTo, Post
<1>20. ASSUME NEW c \in Clients, CompleteLogout(c) PROVE RevokeInv'
  BY <1>20 DEF CompleteLogout, Answered, SetFile, ForgetCheck, Leave, GoTo
<1>21. ASSUME NEW c \in Clients, Crash(c) PROVE RevokeInv'
  BY <1>21 DEF Crash, GoTo, ForgetCheck
<1>22. ASSUME NEW c \in Clients, CheckAges(c) PROVE RevokeInv'
  BY <1>22 DEF CheckAges, ForgetCheck
<1>23. ASSUME NEW m \in sent, ServeRotation(m) PROVE RevokeInv'
  BY <1>23 DEF ServeRotation, Serving, Answer
<1>24. ASSUME NEW m \in sent, RefuseRotation(m) PROVE RevokeInv'
  BY <1>24 DEF RefuseRotation, Serving, Answer
<1>25. ASSUME NEW m \in sent, ServeSession(m) PROVE RevokeInv'
  BY <1>25 DEF ServeSession, Serving, Answer
<1>26. ASSUME NEW m \in sent, ServeLogout(m) PROVE RevokeInv'
  BY <1>26 DEF ServeLogout, Serving, Answer
<1>27. ASSUME NEW m \in sent, ServeError(m) PROVE RevokeInv'
  BY <1>27 DEF ServeError, Serving, Answer
<1>28. ASSUME NEW g \in Grants, EndGrant(g) PROVE RevokeInv'
  BY <1>28 DEF EndGrant
<1>29. CASE Tick
  BY <1>29 DEF Tick
<1>30. CASE UNCHANGED vars
  BY <1>30 DEF vars
<1> HIDE DEF TypeOK, RevokeInv, serverVars, clientVars
<1> QED
  BY <1>1, <1>2, <1>3, <1>4, <1>5, <1>6, <1>7, <1>8, <1>9, <1>10, <1>11, <1>12, <1>13,
     <1>14, <1>15, <1>16, <1>17, <1>18, <1>19, <1>20, <1>21, <1>22, <1>23, <1>24, <1>25,
     <1>26, <1>27, <1>28, <1>29, <1>30 DEF Next, ClientStep, ServerStep


\* The invariant is inductive.
THEOREM Inductive == Spec => []IInv
<1>1. Init => IInv
  BY NoneAssumption, NoCode DEF Init, Code, Login, IInv, TypeOK, LockInv, AskedInv, FileInv,
     SentInv, FreshInv,
     RevokeInv, OneSuccessor, PC, Mode
<1>2. IInv /\ [Next]_vars => IInv'
  BY TypeStep, LockStep, AskedStep, FileStep, SentStep, FreshStep, RevokeStep,
     SuccessorStep DEF IInv
<1> QED
  BY <1>1, <1>2, PTL DEF Spec

\* Every variable of the login protocol keeps its type.
THEOREM TypeCorrect == Spec => []TypeOK
<1>1. IInv => TypeOK
  BY DEF IInv
<1> QED
  BY <1>1, Inductive, PTL

\* A rotation cut short anywhere (access_token saves the successor first) leaves a file
\* that names the secret the server accepts.
THEOREM CredentialsSurvive == Spec => []CredentialSurvives
<1>1. IInv => CredentialSurvives
  BY DEF IInv, FileInv, CredentialSurvives
<1> QED
  BY <1>1, Inductive, PTL

\* All rotations of one secret name one successor, across processes, retries, crashes.
THEOREM RotationsNeverFork == Spec => []OneSuccessor
<1>1. IInv => OneSuccessor
  BY DEF IInv
<1> QED
  BY <1>1, Inductive, PTL

\* invalid_grant, on which access_token clears the login, only answers an ended grant.
THEOREM NeverSignsItselfOut == Spec => []NoSelfInflictedSignOut
<1>1. IInv => NoSelfInflictedSignOut
  BY DEF IInv, AskedInv, NoSelfInflictedSignOut
<1> QED
  BY <1>1, Inductive, PTL

\* A login that login(), logout() or a failed refresh removed is never stored again.
THEOREM LoginsNeverReturn == Spec => []NoResurrection
<1>1. IInv => NoResurrection
  BY DEF IInv, FileInv, NoResurrection
<1> QED
  BY <1>1, Inductive, PTL

\* A session check never presents a secret that was already offered for rotation.
THEOREM SessionsAfterRotations == Spec => NoSessionWithOfferedSecret
<1> DEFINE P == \A m \in sent' \ sent : \A n \in sent :
       m.kind = "session" /\ n.kind = "token" /\ n.grant = m.grant
         => n.secret # m.secret
<1>1. IInv /\ [Next]_vars => [P]_vars
  <2> SUFFICES ASSUME IInv, [Next]_vars PROVE P
    OBVIOUS
  <2> SUFFICES ASSUME NEW m \in sent' \ sent, NEW n \in sent,
                      m.kind = "session", n.kind = "token", n.grant = m.grant
               PROVE  n.secret # m.secret
    OBVIOUS
  <2>1. ASSUME NEW c \in Clients, CheckSession(c) PROVE n.secret # m.secret
    <3>1. file # None /\ file.pending = None /\ m = LoginRequest("session", file)
      BY <2>1 DEF CheckSession, CachedValid, Post
    <3>2. n.next \in Nat
      BY RequestTypes DEF IInv, TypeOK
    <3> QED BY <3>1, <3>2, NoneAssumption DEF IInv, SentInv, LoginRequest
  <2>2. ASSUME NEW c \in Clients, PostRotation(c) PROVE FALSE
    BY <2>2 DEF PostRotation, Post, TokenRequest
  <2>3. ASSUME NEW c \in Clients, Logout(c) PROVE FALSE
    BY <2>3 DEF Logout, Post, LoginRequest
  <2>4. ASSUME NEW c \in Clients, NEW reached \in BOOLEAN, RevokeOld(c, reached) PROVE FALSE
    BY <2>4 DEF RevokeOld, IInv, RevokeInv
  <2>5. sent' # sent
    OBVIOUS
  <2>6. PICK c \in Clients : ClientStep(c)
    BY <2>5 DEF Next, Tick, ServerStep, ServeRotation, RefuseRotation, ServeSession,
       ServeLogout, ServeError, EndGrant, Serving, vars
  <2> QED
    BY <2>1, <2>2, <2>3, <2>4, <2>5, <2>6 DEF ClientStep, Begin, ReturnCached, Refuse,
       PrepareRotation, CommitRotation, PassCheck, RejectGarbled, Expire, Reauthorize,
       Fail, Timeout, Recover, ExchangeCode, AbandonLogin, StoreLogin, CompleteLogout,
       Crash, CheckAges
<1> QED
  BY <1>1, Inductive, PTL DEF Spec, NoSessionWithOfferedSecret

\* Every token an access_token call returns is one of the login in the file.
THEOREM TokensAreCurrent == Spec => ReturnsCurrentLogin
<1> DEFINE P == \A c \in Clients :
       token'[c] # token[c] /\ token'[c] # None
         => file' # None /\ token'[c] = AccessOf(file')
<1>1. IInv /\ [Next]_vars => [P]_vars
  <2> SUFFICES ASSUME IInv, [Next]_vars PROVE P
    OBVIOUS
  <2> USE DEF TypeOK
  <2> TypeOK
    BY DEF IInv
  <2>1. ASSUME NEW c \in Clients, ReturnCached(c) PROVE P
    <3>1. file # None /\ file' = file
      BY <2>1 DEF ReturnCached, CachedValid
    <3>2. token' = [token EXCEPT ![c] = AccessOf(file)]
      BY <2>1 DEF ReturnCached, Reusable, Leave
    <3> QED BY <3>1, <3>2
  <2>2. ASSUME NEW c \in Clients, CommitRotation(c) PROVE P
    <3>1. file' # None /\ file'.grant = file.grant /\ file'.secret = asked[c].next
          /\ asked[c].grant = file.grant
      BY <2>2, CommitFile, Rotating DEF IInv, CommitRotation, Answered, TokenRequest
    <3>2. token' = [token EXCEPT ![c] = AccessOf(file')]
      BY <2>2, <3>1 DEF CommitRotation, Leave, AccessOf
    <3> QED BY <3>1, <3>2
  <2>3. ASSUME NEW c \in Clients, PassCheck(c) PROVE P
    <3>1. file # None /\ file' = file /\ AccessOf(asked[c]) = AccessOf(file')
      BY <2>3, Holder DEF IInv, PassCheck, Answered, AskedInv, AccessOf, TokenRequest,
         LoginRequest
    <3> QED BY <2>3, <3>1 DEF PassCheck, Leave
  <2>4. ASSUME NEW c \in Clients, token' = [token EXCEPT ![c] = token[c]] PROVE P
    BY <2>4
  <2>5. ASSUME NEW c \in Clients, token' = [token EXCEPT ![c] = None] PROVE P
    BY <2>5
  <2>6. CASE token' = token
    BY <2>6
  <2>7. ASSUME NEW c \in Clients, ClientStep(c) PROVE P
    BY <2>1, <2>2, <2>3, <2>4, <2>5, <2>6, <2>7 DEF ClientStep, Begin, Refuse,
       CheckSession, PrepareRotation, PostRotation, RejectGarbled, Expire, Reauthorize,
       Fail, Timeout, Recover, ExchangeCode, AbandonLogin, StoreLogin, RevokeOld, Logout,
       CompleteLogout, Crash, CheckAges, Leave, Post
  <2>8. CASE Tick \/ ServerStep \/ UNCHANGED vars
    BY <2>6, <2>8 DEF Tick, ServerStep, ServeRotation, RefuseRotation, ServeSession,
       ServeLogout, ServeError, EndGrant, Serving, vars, clientVars
  <2> QED
    BY <2>7, <2>8 DEF Next
<1> QED
  BY <1>1, Inductive, PTL DEF Spec, ReturnsCurrentLogin


\* Held credentials change only with the file or the accepted secrets.
LEMMA HeldStutters ==
  ASSUME file' = file, cur' = cur
  PROVE  HeldCredential' = HeldCredential
BY DEF HeldCredential

\* The two-phase rotation refines the atomic one: the held credential changes in the
\* very step in which the server changes the one it accepts.
THEOREM RotationIsAtomic == Spec => ImplementsRotatingLogin
<1>1. Init => Abstract!Init
  BY DEF Init, Abstract!Init, HeldCredential
<1>2. IInv /\ [Next]_vars => [Abstract!Next]_(Abstract!vars)
  <2> SUFFICES ASSUME IInv, [Next]_vars
               PROVE  Abstract!Next \/ UNCHANGED <<HeldCredential, cur, live, retired>>
    BY DEF Abstract!vars
  <2> TypeOK /\ LockInv /\ AskedInv /\ FileInv /\ SentInv /\ FreshInv
    BY DEF IInv
  <2> DEFINE Goal == Abstract!Next \/ UNCHANGED <<HeldCredential, cur, live, retired>>
  <2>1. CASE UNCHANGED <<file, cur, live, retired>>
    BY <2>1, HeldStutters
  <2>2. ASSUME NEW c \in Clients, PrepareRotation(c) PROVE Goal
    <3>1. UNCHANGED <<cur, live, retired>>
      BY <2>2, PrepareFile DEF PrepareRotation, serverVars
    <3>2. CASE file' = file
      BY <3>1, <3>2, HeldStutters
    <3>3. CASE file.pending = None /\ file'.pending = minted + 1
      <4>1. file # None /\ file' # None /\ file'.grant = file.grant /\ file'.secret =
         file.secret
            /\ file.secret \in Nat /\ minted \in Nat
        BY <2>2, PrepareFile, LoginTypes DEF TypeOK
      <4>2. cur[file.grant] = file.secret /\ file.secret <= minted
        BY <3>3, <4>1 DEF FileInv
      <4>3. cur[file.grant] # minted + 1
        BY <4>1, <4>2
      <4> QED BY <3>1, <3>3, <4>1, <4>2, <4>3 DEF HeldCredential
    <3> QED BY <2>2, <3>2, <3>3, PrepareFile
  <2>3. ASSUME NEW c \in Clients, CommitRotation(c) PROVE Goal
    <3>1. UNCHANGED <<cur, live, retired>>
      BY <2>3, CommitFile DEF CommitRotation, serverVars
    <3>2. HeldCredential' = HeldCredential
      BY <3>1, <2>3, CommitFile, NoneAssumption DEF HeldCredential
    <3> QED BY <3>1, <3>2
  <2>4. ASSUME NEW c \in Clients, RejectGarbled(c) \/ Expire(c) \/ CompleteLogout(c)
        PROVE  Goal
    <3>1. SetFile(None) /\ UNCHANGED <<cur, live>> /\ pc[c] = "await"
      BY <2>4 DEF RejectGarbled, Expire, CompleteLogout, serverVars, Answered
    <3>2. file # None /\ file' = None /\ retired' = retired \cup {file.grant}
      BY <3>1, Holder DEF SetFile
    <3>3. HeldCredential # None /\ HeldCredential.grant = file.grant /\ HeldCredential' = None
      <4>1. file \in Login
        BY <3>2 DEF TypeOK
      <4>2. HeldCredential \in Token
        BY <3>2, <4>1, LoginTypes, NoneAssumption DEF HeldCredential, Token
      <4> QED BY <3>2, <4>2, TokenTypes DEF HeldCredential
    <3> QED BY <3>1, <3>2, <3>3 DEF Abstract!Next, Abstract!SignOut, Abstract!GiveUp
  <2>5. ASSUME NEW c \in Clients, NEW g \in Grants, ExchangeCode(c, g) PROVE Goal
    <3>1. /\ cur[g] = 0 /\ live' = live \cup {g} /\ UNCHANGED <<file, retired>>
          /\ cur' = [cur EXCEPT ![g] = minted + 1] /\ minted \in Nat /\ cur \in [Grants -> Nat]
      BY <2>5 DEF ExchangeCode, TypeOK
    <3>2. cur'[g] \in Nat \ {0} /\ cur' = [cur EXCEPT ![g] = cur'[g]]
      BY <3>1
    <3>3. file # None => cur'[file.grant] = cur[file.grant]
      BY <3>1, LoginTypes DEF FileInv, TypeOK
    <3>4. HeldCredential' = HeldCredential
      BY <3>1, <3>3 DEF HeldCredential
    <3> QED BY <3>1, <3>2, <3>4 DEF Abstract!Next, Abstract!Approve
  <2>6. ASSUME NEW c \in Clients, StoreLogin(c) PROVE Goal
    <3> DEFINE g == fresh[c].grant
    <3>1. fresh[c] # None /\ fresh[c] \in Token /\ g \in Grants
      BY <2>6, TokenTypes DEF StoreLogin, FreshInv, TypeOK
    <3>2. /\ file' # None /\ file'.grant = g /\ file'.secret = fresh[c].secret
          /\ file'.pending = None
          /\ retired' = IF file = None THEN retired ELSE retired \cup {file.grant}
      <4> DEFINE new == NewLogin(fresh[c].grant, fresh[c].secret)
      <4>1. new # None /\ new.grant = g /\ new.secret = fresh[c].secret /\ new.pending = None
        BY <3>1, TokenTypes
      <4>2. SetFile(new)
        BY <2>6 DEF StoreLogin
      <4>3. file # None => file.grant # g
        BY <3>1 DEF FreshInv
      <4> HIDE DEF new, g
      <4> QED BY <4>1, <4>2, <4>3 DEF SetFile
    <3>3. cur[g] # 0 /\ g \notin retired /\ cur[g] = fresh[c].secret
          /\ (file # None => file.grant # g)
      BY <3>1 DEF FreshInv
    <3>4. UNCHANGED <<cur, live>>
      BY <2>6 DEF StoreLogin, serverVars
    <3>5. HeldCredential' = [grant |-> g, secret |-> cur[g]]
      BY <3>2, <3>3, <3>4 DEF HeldCredential
    <3>6. /\ file = None => HeldCredential = None
          /\ file # None => HeldCredential # None /\ HeldCredential.grant = file.grant
      <4>1. file # None => HeldCredential \in Token
        BY LoginTypes, NoneAssumption DEF HeldCredential, Token, TypeOK
      <4> QED BY <4>1, TokenTypes DEF HeldCredential
    <3> QED BY <3>1, <3>2, <3>3, <3>4, <3>5, <3>6
            DEF Abstract!Next, Abstract!SignIn, Abstract!GiveUp
  <2>7. CASE Tick
    <3>1. UNCHANGED <<cur, live, retired>>
      BY <2>7 DEF Tick, serverVars
    <3> QED BY <2>7, <3>1, TickFile, NoneAssumption DEF HeldCredential
  <2>8. ASSUME NEW m \in sent, ServeRotation(m) PROVE Goal
    <3>1. UNCHANGED <<file, live, retired>>
      BY <2>8 DEF ServeRotation, Serving
    <3>2. CASE UNCHANGED cur
      BY <3>1, <3>2, HeldStutters
    <3>3. CASE Knows(m) /\ cur' = [cur EXCEPT ![m.grant] = m.next]
      <4>1. /\ m.grant \in Grants /\ m.grant \in live /\ m.secret = cur[m.grant]
            /\ m.secret \in Nat /\ m.next \in Nat /\ m.secret < m.next
            /\ cur'[m.grant] = m.next
        BY <2>8, <3>3, RequestTypes DEF Knows, ServeRotation, SentInv, TypeOK
      <4>2. CASE file # None /\ m.grant = file.grant
        <5>1. /\ m.secret = file.secret /\ m.next = file.pending
              /\ cur[file.grant] = file.secret /\ cur'[file.grant] = file.pending
          BY <2>8, <4>1, <4>2, RotationEffect
        <5>2. /\ HeldCredential = [grant |-> file.grant, secret |-> file.secret]
              /\ HeldCredential' = [grant |-> file.grant, secret |-> file.pending]
          BY <3>1, <4>1, <4>2, <5>1, NoneAssumption DEF HeldCredential
        <5>3. HeldCredential # None
          BY <4>1, <4>2, <5>1, <5>2, NoneAssumption DEF Token
        <5>4. /\ HeldCredential.grant = file.grant /\ HeldCredential.secret = file.secret
              /\ HeldCredential' = [HeldCredential EXCEPT !.secret = cur'[file.grant]]
          BY <5>1, <5>2
        <5>5. cur'[file.grant] \in Nat \ {file.secret}
          BY <4>1, <5>1
        <5>6. cur' = [cur EXCEPT ![file.grant] = cur'[file.grant]]
          BY <3>3, <4>1, <4>2
        <5> QED BY <3>1, <4>1, <4>2, <5>1, <5>3, <5>4, <5>5, <5>6
                DEF Abstract!Next, Abstract!Rotate
      <4>3. CASE ~(file # None /\ m.grant = file.grant)
        <5>1. m.grant \in retired
          BY <4>3 DEF SentInv
        <5>2. HeldCredential' = HeldCredential
          BY <3>1, <3>3, <4>3, LoginTypes DEF HeldCredential, TypeOK
        <5>4. m.next # 0
          BY <4>1
        <5>3. cur'[m.grant] \in Nat \ {0} /\ cur' = [cur EXCEPT ![m.grant] = cur'[m.grant]]
          BY <3>3, <4>1, <5>4
        <5> QED BY <3>1, <4>1, <5>1, <5>2, <5>3 DEF Abstract!Next, Abstract!RotateGiven
      <4> QED BY <4>2, <4>3
    <3> QED BY <2>8, <3>2, <3>3 DEF ServeRotation
  <2>9. ASSUME NEW g \in Grants, g \in live, live' = live \ {g}, UNCHANGED <<file, cur,
     retired>>
        PROVE  Goal
    BY <2>9, HeldStutters DEF Abstract!Next, Abstract!End
  <2>10. ASSUME NEW m \in sent, ServeLogout(m) PROVE Goal
    BY <2>1, <2>9, <2>10, RequestTypes DEF ServeLogout, Serving, Knows, TypeOK
  <2>11. ASSUME NEW c \in Clients, ClientStep(c) PROVE Goal
    <3>1. CASE UNCHANGED <<file, retired, serverVars>>
      BY <2>1, <3>1 DEF serverVars
    <3> QED
      BY <2>2, <2>3, <2>4, <2>5, <2>6, <2>11, <3>1 DEF ClientStep, Begin, ReturnCached, Refuse,
         CheckSession, PostRotation, PassCheck, Reauthorize, Fail, Timeout, Recover,
         AbandonLogin, RevokeOld, Logout, Crash, CheckAges
  <2>12. CASE ServerStep
    BY <2>1, <2>8, <2>9, <2>10, <2>12 DEF ServerStep, RefuseRotation, ServeSession, ServeError,
       EndGrant, Serving, serverVars
  <2>13. CASE UNCHANGED vars
    BY <2>1, <2>13 DEF vars, serverVars
  <2> QED
    BY <2>7, <2>11, <2>12, <2>13 DEF Next
<1> QED
  BY <1>1, <1>2, Inductive, PTL DEF Spec, Abstract!Spec, ImplementsRotatingLogin

=============================================================================
