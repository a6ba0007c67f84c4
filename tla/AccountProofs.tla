------------------------------ MODULE AccountProofs ------------------------------
(***************************************************************************)
(* The account: the tokens of the profiles, and the drafts of strategies,  *)
(* for any number of processes, profiles, sign-ins, rotations, keys,       *)
(* settings, failing requests and other commands.                          *)
(*                                                                         *)
(* That a token is rotated once rests on who may hold it: the lock names   *)
(* the one process past the wait for it (LockInv), which presents what the *)
(* server accepts and saves what the server sent (RefreshInv), while a     *)
(* person saves a login nobody else has (FreshInv, from IssuedInv).        *)
(*                                                                         *)
(* That a save brings the server every edit rests on what a draft knows of *)
(* it: each key and setting is there as the draft found it until its       *)
(* request and as the user wants it afterwards, and either while a failed  *)
(* save waits to be rebased (KeysInv, SettingsInv, WantedInv).             *)
(***************************************************************************)
EXTENDS TokenRefresh, ProfileDrafts, TLAPS

\* None is no process, slot or token, and a slot is in one of the two files.
LEMMA NoneFacts == /\ None \notin Procs /\ None \notin Slots /\ None \notin Tokens
                   /\ Profiles \subseteq Slots /\ Defaults \subseteq Slots
                   /\ \A s \in Profiles : s \notin Defaults
BY NoneAssumption, SlotAssumption DEF Slots

\* A token is its login and its turn.
LEMMA TokenFacts ==
  /\ Logins \subseteq Nat /\ 1 \in Logins
  /\ \A t \in Tokens : t.login \in Logins /\ t.turn \in Nat /\ t.turn <= MaxTurns
  /\ \A t, u \in Tokens : t.login = u.login /\ t.turn = u.turn => t = u
BY BoundAssumption, SMT DEF Tokens, Logins

\* What the server sends is a token.
LEMMA TokenMade == ASSUME NEW l \in Logins, NEW n \in 0..MaxTurns
                   PROVE  /\ [login |-> l, turn |-> n] \in Tokens
                          /\ [login |-> l, turn |-> n].login = l
                          /\ [login |-> l, turn |-> n].turn = n
BY SMT DEF Tokens

\* Every slot starts with a login's first token.
LEMMA InitHolds == Init => IInv
<1> SUFFICES ASSUME Init PROVE IInv
  OBVIOUS
<1> USE NoneFacts, TokenFacts DEF Init
<1>1. [login |-> 1, turn |-> 0] \in Tokens
  BY BoundAssumption, SMT DEF Tokens, Logins
<1>2. 0 \in 0..MaxTurns
  BY BoundAssumption, SMT
<1>3. TypeOK
  BY <1>1, <1>2, SMT DEF TypeOK, PCs
<1>4. PlaceInv /\ LockInv /\ FreshInv /\ RefreshInv /\ NeverSignsItselfOut
  <2>1. PlaceInv
    <3>1. \A p \in Procs : /\ pc[p] = "idle" /\ target[p] = None
                          /\ expected[p] = None /\ intended[p] = None
      BY Zenon
    <3>2. QED BY <3>1 DEF PlaceInv
  <2>2. LockInv /\ FreshInv /\ RefreshInv
    BY SMT DEF LockInv, FreshInv, SigningIn, RefreshInv
  <2>3. NeverSignsItselfOut
    BY <1>1, SMT DEF NeverSignsItselfOut
  <2>4. QED BY <2>1, <2>2, <2>3
<1>5. IssuedInv /\ RotationsOnce /\ LatestLoginStands
  BY SMT DEF IssuedInv, RotationsOnce, Rotates, LatestLoginStands
<1>6. QED BY <1>3, <1>4, <1>5 DEF IInv

\* One rotation counts one turn of one login.
LEMMA TurnUp ==
  ASSUME NEW f \in [Slots -> [Logins -> 0..MaxTurns]], NEW s \in Slots, NEW l \in Logins,
         f[s][l] < MaxTurns, NEW g, g = [f EXCEPT ![s][l] = f[s][l] + 1]
  PROVE  /\ g \in [Slots -> [Logins -> 0..MaxTurns]]
         /\ g[s][l] = f[s][l] + 1
         /\ f[s][l] + 1 \in 0..MaxTurns
         /\ \A t \in Slots, m \in Logins : t # s \/ m # l => g[t][m] = f[t][m]
BY BoundAssumption, TokenFacts, SMT

\* The server's counters, when one of them goes up.
LEMMA TurnGoesUp ==
  ASSUME TypeOK, NEW s \in Slots, NEW l \in Logins,
         turn[s][l] < MaxTurns, turn' = [turn EXCEPT ![s][l] = turn[s][l] + 1]
  PROVE  /\ turn' \in [Slots -> [Logins -> 0..MaxTurns]]
         /\ turn'[s][l] = turn[s][l] + 1
         /\ turn[s][l] + 1 \in 0..MaxTurns
         /\ \A t \in Slots, m \in Logins : t # s \/ m # l => turn'[t][m] = turn[t][m]
<1>1. turn \in [Slots -> [Logins -> 0..MaxTurns]]
  BY DEF TypeOK
<1>2. QED BY <1>1, BoundAssumption, TokenFacts, SMTT(40)

\* Logins are numbers.
LEMMA TokenNat == \A t \in Tokens : t.login \in Nat
BY SMT DEF Tokens, Logins

\* Logins are counted.
LEMMA IssuedNat == ASSUME TypeOK PROVE \A t \in Slots : issued[t] \in Nat
BY SMT DEF TypeOK, Logins

\* What a process refreshing a profile's login knows.
LEMMA RefreshFacts ==
  ASSUME IInv, NEW p \in Procs, expected[p] # None, target[p] \in Profiles
  PROVE  LET s == target[p]
             l == expected[p].login
         IN  /\ pc[p] = "posting" => <<s, l>> \in Gone \/ expected[p].turn = turn[s][l]
             /\ pc[p] \in {"updating", "storing"} /\ intended[p] = None => <<s, l>> \in Gone
             /\ pc[p] \in {"updating", "storing"} /\ intended[p] # None =>
                  lock[s] = p /\ intended[p].login = l /\ intended[p].turn = turn[s][l]
BY Zenon DEF IInv, RefreshInv

\* A process takes note of the token it finds.
LEMMA BeginKeeps == ASSUME IInv, NEW p \in Procs, NEW s \in Slots, Begin(p, s) PROVE IInv'
<1> USE NoneFacts, TokenFacts DEF Begin, IInv, Goto, Leave, Note, Refreshing, procVars, serverVars, history
<1>1. TypeOK'
  BY SMT DEF TypeOK, PlaceInv, PCs
<1>2. PlaceInv'
  BY SMT DEF TypeOK, PlaceInv
<1>3. LockInv'
  BY SMT DEF TypeOK, LockInv, PlaceInv
<1>4. IssuedInv'
  BY SMT DEF TypeOK, IssuedInv, PlaceInv, RefreshInv, FreshInv, SigningIn
<1>5. FreshInv'
  BY SMT DEF TypeOK, FreshInv, PlaceInv, IssuedInv, LockInv, RefreshInv, SigningIn
<1>6. RefreshInv'
  BY SMT DEF TypeOK, RefreshInv, PlaceInv, LockInv, FreshInv, RotationsOnce, Gone, SigningIn, Rotates
<1>7. RotationsOnce'
  BY SMT DEF TypeOK, RotationsOnce, PlaceInv, LockInv, FreshInv, RefreshInv, Rotates, Gone, SigningIn
<1>8. LatestLoginStands'
  BY SMT DEF TypeOK, LatestLoginStands, PlaceInv, RefreshInv, SigningIn
<1>9. NeverSignsItselfOut'
  BY SMT DEF TypeOK, NeverSignsItselfOut, PlaceInv, RefreshInv, LatestLoginStands, Gone
<1>10. QED BY <1>1, <1>2, <1>3, <1>4, <1>5, <1>6, <1>7, <1>8, <1>9

\* The lock is free, so the token it finds again is the newest one.
LEMMA EnterKeeps == ASSUME IInv, NEW p \in Procs, Enter(p) PROVE IInv'
<1> USE NoneFacts, TokenFacts DEF Enter, IInv, Goto, Leave, Note, Refreshing, procVars, serverVars, history
<1>1. TypeOK'
  <2> USE DEF TypeOK, PlaceInv
  <2>1. slot' \in [Slots -> Tokens \cup {None}]
    BY SMT DEF PCs
  <2>2. lock' \in [Slots -> Procs \cup {None}]
    BY SMT DEF PCs
  <2>3. issued' \in [Slots -> Logins]
    BY SMT DEF PCs
  <2>4. turn' \in [Slots -> [Logins -> 0..MaxTurns]]
    BY SMT DEF PCs
  <2>5. ended' \subseteq Slots \X Logins
    BY SMT DEF PCs
  <2>6. pc' \in [Procs -> PCs]
    <3>1. pc' = [pc EXCEPT ![p] = "posting"] \/ pc' = [pc EXCEPT ![p] = "idle"]
      BY Zenon
    <3>2. QED BY <3>1, SMT DEF PCs
  <2>7. target' \in [Procs -> Slots \cup {None}]
    BY SMT DEF PCs
  <2>8. expected' \in [Procs -> Tokens \cup {None}]
    BY SMTT(40) DEF PCs
  <2>9. intended' \in [Procs -> Tokens \cup {None}]
    BY SMT DEF PCs
  <2>10. draft' \in [Procs -> [Defaults -> Tokens \cup {None}] \cup {None}]
    BY SMT DEF PCs
  <2>11. latest' \in [Slots -> Logins]
    BY SMT DEF PCs
  <2>12. lost' \subseteq Slots \X Logins
    BY SMT DEF PCs
  <2>13. QED BY <2>1, <2>2, <2>3, <2>4, <2>5, <2>6, <2>7, <2>8, <2>9, <2>10, <2>11, <2>12
<1>2. PlaceInv'
  BY SMT DEF TypeOK, PlaceInv
<1>3. LockInv'
  BY SMT DEF TypeOK, LockInv, PlaceInv
<1>4. IssuedInv'
  BY SMT DEF TypeOK, IssuedInv, PlaceInv, RefreshInv, FreshInv, SigningIn
<1>5. FreshInv'
  BY SMT DEF TypeOK, FreshInv, PlaceInv, IssuedInv, LockInv, RefreshInv, SigningIn
<1>6. RefreshInv'
  BY SMT DEF TypeOK, RefreshInv, PlaceInv, LockInv, FreshInv, RotationsOnce, Gone, SigningIn, Rotates
<1>7. RotationsOnce'
  BY SMT DEF TypeOK, RotationsOnce, PlaceInv, LockInv, FreshInv, RefreshInv, Rotates, Gone, SigningIn
<1>8. LatestLoginStands'
  BY SMT DEF TypeOK, LatestLoginStands, PlaceInv, RefreshInv, SigningIn
<1>9. NeverSignsItselfOut'
  BY SMT DEF TypeOK, NeverSignsItselfOut, PlaceInv, RefreshInv, LatestLoginStands, Gone
<1>10. QED BY <1>1, <1>2, <1>3, <1>4, <1>5, <1>6, <1>7, <1>8, <1>9

\* Whoever rotates a token has it from the disk, and holds the lock.
LEMMA RotateKeeps == ASSUME IInv, NEW p \in Procs, Rotate(p) PROVE IInv'
<1> USE NoneFacts, TokenFacts DEF Rotate, IInv, Goto, Leave, Note, Refreshing, procVars, serverVars, history
<1> DEFINE s == target[p]
           l == expected[p].login
           up == /\ turn[s][l] < MaxTurns
                 /\ turn' = [turn EXCEPT ![s][l] = @ + 1]
                 /\ intended' = [intended EXCEPT ![p] = [login |-> l, turn |-> turn[s][l] + 1]]
                 /\ ended' = ended
           over == ended' = ended \cup {<<s, l>>} /\ turn' = turn /\ intended' = intended
<1>a. s \in Slots /\ l \in Logins /\ expected[p] \in Tokens /\ lock[s] = p
  BY SMT DEF TypeOK, PlaceInv
<1>b. up \/ over
  BY SMT
<1>c. up => /\ turn' \in [Slots -> [Logins -> 0..MaxTurns]]
            /\ turn'[s][l] = turn[s][l] + 1 /\ turn[s][l] + 1 \in 0..MaxTurns
            /\ \A t \in Slots, m \in Logins : t # s \/ m # l => turn'[t][m] = turn[t][m]
  <2> HAVE up
  <2>1. turn \in [Slots -> [Logins -> 0..MaxTurns]]
    BY DEF TypeOK
  <2>2. turn[s][l] < MaxTurns /\ turn' = [turn EXCEPT ![s][l] = @ + 1]
    OBVIOUS
  <2>3. turn' = [turn EXCEPT ![s][l] = turn[s][l] + 1]
    BY <2>1, <2>2, SMT
  <2>0. TypeOK
    BY DEF IInv
  <2> HIDE NoneFacts, TokenFacts DEF s, l, up, over, IInv, Rotate, Goto, Leave, Note, Refreshing
  <2>4. QED BY <1>a, <2>0, <2>2, <2>3, TurnGoesUp, ZenonT(40)
<1>d. up => /\ intended'[p] \in Tokens /\ intended'[p].login = l
            /\ intended'[p].turn = turn'[s][l] /\ intended' \in [Procs -> Tokens \cup {None}]
            /\ \A q \in Procs : q # p => intended'[q] = intended[q]
  <2>1. up => /\ [login |-> l, turn |-> turn[s][l] + 1] \in Tokens
               /\ [login |-> l, turn |-> turn[s][l] + 1].login = l
               /\ [login |-> l, turn |-> turn[s][l] + 1].turn = turn[s][l] + 1
    BY <1>a, <1>c, TokenMade
  <2>2. up => intended' = [intended EXCEPT ![p] = [login |-> l, turn |-> turn[s][l] + 1]]
    OBVIOUS
  <2>3. intended \in [Procs -> Tokens \cup {None}]
    BY DEF TypeOK
  <2> HIDE NoneFacts, TokenFacts DEF s, l, up, over, IInv, Rotate, Goto, Leave, Note, Refreshing
  <2>4. QED BY <1>a, <1>c, <2>1, <2>2, <2>3, SMTT(40)
<1>f. up => ended' = ended
  OBVIOUS
<1> HIDE DEF Rotate, up
<1>e. /\ pc[p] = "posting" /\ <<s, l>> \notin ended /\ expected[p].turn = turn[s][l]
      /\ pc' = [pc EXCEPT ![p] = "updating"]
      /\ UNCHANGED <<slot, lock, issued, target, expected, draft, latest, signedOut, lost>>
  BY DEF Rotate
<1>1. TypeOK'
  <2>1. CASE up
    BY <1>a, <1>c, <1>d, <1>e, <1>f, <2>1, SMT DEF TypeOK, PlaceInv, PCs
  <2>2. CASE over
    BY <1>a, <1>e, <2>2, SMT DEF TypeOK, PlaceInv, PCs
  <2>3. QED BY <1>b, <2>1, <2>2
<1>2. PlaceInv'
  <2>1. CASE up
    BY <1>a, <1>c, <1>d, <1>e, <1>f, <2>1, SMT DEF TypeOK, PlaceInv
  <2>2. CASE over
    BY <1>a, <1>e, <2>2, SMT DEF TypeOK, PlaceInv
  <2>3. QED BY <1>b, <2>1, <2>2
<1>3. LockInv'
  <2>1. CASE up
    BY <1>a, <1>c, <1>d, <1>e, <1>f, <2>1, SMT DEF TypeOK, LockInv, PlaceInv
  <2>2. CASE over
    BY <1>a, <1>e, <2>2, SMT DEF TypeOK, LockInv, PlaceInv
  <2>3. QED BY <1>b, <2>1, <2>2
<1>g. \A q \in Procs : q # p /\ lock[target[q]] = q => target[q] # s
  BY <1>a
<1>4. IssuedInv'
  <2>1. CASE up
    <3> SUFFICES ASSUME NEW t \in Profiles
                 PROVE  /\ slot'[t] # None => slot'[t].login <= issued'[t]
                        /\ \A m \in Logins : m > issued'[t] => turn'[t][m] = 0
                        /\ \A q \in Procs : target'[q] = t =>
                             /\ expected'[q] # None => expected'[q].login <= issued'[t]
                             /\ intended'[q] # None => intended'[q].login <= issued'[t]
      BY DEF IssuedInv
    <3>1. t \in Slots /\ issued[t] \in Nat /\ issued[s] \in Nat
      BY <1>a, IssuedNat DEF Slots
    <3>2. target[p] = t => l <= issued[t]
      BY <1>a DEF IssuedInv
    <3>3. ASSUME NEW m \in Logins, m > issued'[t] PROVE turn'[t][m] = 0
      <4>1. SUFFICES ASSUME t = s, m = l PROVE FALSE
        BY <1>c, <1>e, <2>1, <3>1, <3>3 DEF IssuedInv
      <4>2. l \in Nat /\ l <= issued[t] /\ l > issued[t]
        BY <1>a, <1>e, <3>2, <3>3, <4>1, TokenFacts
      <4> HIDE DEF IInv, s, l
      <4>3. QED BY <3>1, <4>2
    <3>4. ASSUME NEW q \in Procs, target'[q] = t
          PROVE  /\ expected'[q] # None => expected'[q].login <= issued'[t]
                 /\ intended'[q] # None => intended'[q].login <= issued'[t]
      <4>1. CASE q = p
        BY <1>d, <1>e, <2>1, <3>2, <3>4, <4>1
      <4>2. CASE q # p
        BY <1>d, <1>e, <2>1, <3>4, <4>2 DEF IssuedInv
      <4>3. QED BY <4>1, <4>2
    <3>5. QED BY <1>e, <3>3, <3>4 DEF IssuedInv
  <2>2. CASE over
    BY <1>a, <1>e, <2>2, SMT DEF TypeOK, IssuedInv, PlaceInv, RefreshInv, FreshInv, SigningIn
  <2>3. QED BY <1>b, <2>1, <2>2
<1>5. FreshInv'
  <2>1. CASE up
    <3> SUFFICES ASSUME NEW q \in Procs, SigningIn(q)', target'[q] \in Profiles
                 PROVE  /\ intended'[q].turn = 0
                        /\ turn'[target'[q]][intended'[q].login] = 0
                        /\ slot'[target'[q]] # None
                             => slot'[target'[q]].login # intended'[q].login
                        /\ \A r \in Procs : r # q /\ target'[r] = target'[q] =>
                             /\ expected'[r] # None => expected'[r].login # intended'[q].login
                             /\ intended'[r] # None => intended'[r].login # intended'[q].login
      BY DEF FreshInv
    <3>1. q # p /\ intended'[q] = intended[q] /\ SigningIn(q)
      BY <1>a, <1>d, <1>e, <2>1, NoneFacts DEF SigningIn
    <3>2. intended[q] \in Tokens /\ intended[q].login \in Logins /\ target[q] \in Slots
      BY <1>e, <3>1, TokenFacts, SMT DEF TypeOK, SigningIn, Slots
    <3>3. target[q] = s => intended[q].login # l
      BY <1>a, <1>e, <3>1, NoneFacts DEF FreshInv
    <3>4. turn'[target[q]][intended[q].login] = turn[target[q]][intended[q].login]
      BY <1>c, <2>1, <3>2, <3>3
    <3>5. ASSUME NEW r \in Procs, r # q, target'[r] = target'[q]
          PROVE  /\ expected'[r] # None => expected'[r].login # intended'[q].login
                 /\ intended'[r] # None => intended'[r].login # intended'[q].login
      <4>1. CASE r = p
        BY <1>d, <1>e, <2>1, <3>1, <3>3, <3>5, <4>1
      <4>2. CASE r # p
        BY <1>d, <1>e, <2>1, <3>1, <3>5, <4>2 DEF FreshInv
      <4>3. QED BY <4>1, <4>2
    <3>6. QED BY <1>e, <3>1, <3>4, <3>5 DEF FreshInv
  <2>2. CASE over
    BY <1>a, <1>e, <2>2, SMT DEF TypeOK, FreshInv, PlaceInv, IssuedInv, LockInv, RefreshInv, SigningIn
  <2>3. QED BY <1>b, <2>1, <2>2
<1>6. RefreshInv'
  <2>1. CASE up
    <3> SUFFICES ASSUME NEW q \in Procs, expected'[q] # None, target'[q] \in Profiles
                 PROVE  LET t == target'[q]
                            m == expected'[q].login
                        IN  /\ pc'[q] = "posting"
                                  => <<t, m>> \in Gone' \/ expected'[q].turn = turn'[t][m]
                            /\ pc'[q] \in {"updating", "storing"} =>
                                 IF intended'[q] = None THEN <<t, m>> \in Gone'
                                 ELSE /\ lock'[t] = q
                                      /\ intended'[q].login = m
                                      /\ intended'[q].turn = turn'[t][m]
      BY DEF RefreshInv
    <3>1. Gone' = Gone
      BY <1>e, <1>f, <2>1 DEF Gone
    <3>2. CASE q = p
      <4>1. pc'[p] = "updating" /\ intended'[p] # None
        BY <1>d, <1>e, <2>1, NoneFacts DEF TypeOK
      <4>2. QED BY <1>a, <1>d, <1>e, <2>1, <3>2, <4>1
    <3>3. CASE q # p
      <4>1. pc'[q] = pc[q] /\ intended'[q] = intended[q]
        BY <1>d, <1>e, <2>1, <3>3 DEF TypeOK
      <4>2. expected[q] \in Tokens /\ expected[q].login \in Logins /\ target[q] \in Slots
        BY <1>e, TokenFacts, SMT DEF TypeOK, Slots
      <4>3. CASE lock[target[q]] = q
        <5>1. turn'[target[q]][expected[q].login] = turn[target[q]][expected[q].login]
          BY <1>c, <1>g, <2>1, <3>3, <4>2, <4>3
        <5>2. QED BY <1>e, <3>1, <4>1, <5>1 DEF RefreshInv
      <4>4. CASE lock[target[q]] # q
        <5>1. pc[q] # "posting"
          BY <4>4 DEF PlaceInv
        <5>2. QED BY <1>e, <3>1, <4>1, <4>4, <5>1 DEF RefreshInv
      <4>5. QED BY <4>3, <4>4
    <3>4. QED BY <3>2, <3>3
  <2>2. CASE over
    BY <1>a, <1>e, <2>2, SMT DEF TypeOK, RefreshInv, PlaceInv, LockInv, FreshInv, RotationsOnce, Gone, SigningIn, Rotates
  <2>3. QED BY <1>b, <2>1, <2>2
<1>7. RotationsOnce'
  <2> SUFFICES ASSUME NEW t \in Profiles, slot'[t] # None PROVE Rotates(t)'
    BY DEF RotationsOnce, Rotates
  <2>1. slot[t] \in Tokens /\ slot' = slot /\ Rotates(t)
    BY <1>e, SMT DEF TypeOK, RotationsOnce
  <2>2. CASE over
    BY <1>a, <1>e, <2>1, <2>2, SMT DEF TypeOK, Rotates
  <2>3. CASE up /\ t = s /\ slot[t].login = l
    <3>1. <<s, l>> \notin ended /\ turn'[s][l] = turn[s][l] + 1
      BY <1>c, <1>e, <2>3
    <3>2. CASE <<s, l>> \in lost
      BY <1>e, <2>1, <2>3, <3>2, SMT DEF Rotates
    <3>3. CASE slot[t].turn = turn[s][l] /\ <<s, l>> \notin lost
      <4>1. slot[t] = expected[p]
        BY <1>a, <1>e, <2>1, <2>3, <3>3, TokenFacts
      <4>2. QED BY <1>a, <1>e, <2>1, <2>3, <4>1, SMT DEF Rotates
    <3>4. CASE lock[t] # None /\ expected[lock[t]] = slot[t]
      BY <1>e, <2>1, <2>3, <3>4, SMT DEF Rotates
    <3>5. QED BY <2>1, <2>3, <3>1, <3>2, <3>3, <3>4, SMT DEF Rotates
  <2>4. CASE up /\ (t # s \/ slot[t].login # l)
    <3>1. turn'[t][slot[t].login] = turn[t][slot[t].login]
      BY <1>c, <2>1, <2>4
    <3>2. QED BY <1>e, <1>f, <2>1, <2>4, <3>1 DEF Rotates
  <2>5. QED BY <1>b, <2>2, <2>3, <2>4
<1>8. LatestLoginStands'
  <2>1. CASE up
    BY <1>a, <1>c, <1>d, <1>e, <1>f, <2>1, SMT DEF TypeOK, LatestLoginStands, PlaceInv, RefreshInv, SigningIn
  <2>2. CASE over
    BY <1>a, <1>e, <2>2, SMT DEF TypeOK, LatestLoginStands, PlaceInv, RefreshInv, SigningIn
  <2>3. QED BY <1>b, <2>1, <2>2
<1>9. NeverSignsItselfOut'
  <2>1. CASE up
    BY <1>a, <1>c, <1>d, <1>e, <1>f, <2>1, SMT DEF TypeOK, NeverSignsItselfOut, PlaceInv, RefreshInv, LatestLoginStands, Gone
  <2>2. CASE over
    BY <1>a, <1>e, <2>2, SMT DEF TypeOK, NeverSignsItselfOut, PlaceInv, RefreshInv, LatestLoginStands, Gone
  <2>3. QED BY <1>b, <2>1, <2>2
<1>10. QED BY <1>1, <1>2, <1>3, <1>4, <1>5, <1>6, <1>7, <1>8, <1>9

\* What is refused is gone.
LEMMA RefuseKeeps == ASSUME IInv, NEW p \in Procs, Refuse(p) PROVE IInv'
<1> USE NoneFacts, TokenFacts DEF Refuse, IInv, Goto, Leave, Note, Refreshing, procVars, serverVars, history
<1>1. TypeOK'
  BY SMT DEF TypeOK, PlaceInv, PCs
<1>2. PlaceInv'
  BY SMT DEF TypeOK, PlaceInv
<1>3. LockInv'
  BY SMT DEF TypeOK, LockInv, PlaceInv
<1>4. IssuedInv'
  BY SMT DEF TypeOK, IssuedInv, PlaceInv, RefreshInv, FreshInv, SigningIn
<1>5. FreshInv'
  BY SMT DEF TypeOK, FreshInv, PlaceInv, IssuedInv, LockInv, RefreshInv, SigningIn
<1>6. RefreshInv'
  <2> SUFFICES ASSUME NEW q \in Procs, (expected[q] # None /\ target[q] \in Profiles)'
               PROVE  LET s == target[q]
                          l == expected[q].login
                      IN  (/\ pc[q] = "posting" => <<s, l>> \in Gone \/ expected[q].turn = turn[s][l]
                           /\ pc[q] \in {"updating", "storing"} =>
                                IF intended[q] = None THEN <<s, l>> \in Gone
                                ELSE /\ lock[s] = q
                                     /\ intended[q].login = l /\ intended[q].turn = turn[s][l])'
    BY DEF RefreshInv
  <2>1. CASE q = p
    BY <2>1, RefreshFacts, SMT DEF TypeOK, PlaceInv, Gone
  <2>2. CASE q # p
    <3>1. lock[target[q]] = q => lock'[target[q]] = q
      BY <2>2, SMT DEF TypeOK, PlaceInv
    <3>2. QED BY <2>2, <3>1, RefreshFacts, SMT DEF TypeOK, Gone
  <2>3. QED BY <2>1, <2>2
<1>7. RotationsOnce'
  BY SMT DEF TypeOK, RotationsOnce, PlaceInv, LockInv, FreshInv, RefreshInv, Rotates, Gone, SigningIn
<1>8. LatestLoginStands'
  BY SMT DEF TypeOK, LatestLoginStands, PlaceInv, RefreshInv, SigningIn
<1>9. NeverSignsItselfOut'
  BY SMT DEF TypeOK, NeverSignsItselfOut, PlaceInv, RefreshInv, LatestLoginStands, Gone
<1>10. QED BY <1>1, <1>2, <1>3, <1>4, <1>5, <1>6, <1>7, <1>8, <1>9

\* The token on disk is still the newest one.
LEMMA FailKeeps == ASSUME IInv, NEW p \in Procs, Fail(p) PROVE IInv'
<1> USE NoneFacts, TokenFacts DEF Fail, IInv, Goto, Leave, Note, Refreshing, procVars, serverVars, history
<1>1. TypeOK'
  BY SMT DEF TypeOK, PlaceInv, PCs
<1>2. PlaceInv'
  BY SMT DEF TypeOK, PlaceInv
<1>3. LockInv'
  BY SMT DEF TypeOK, LockInv, PlaceInv
<1>4. IssuedInv'
  BY SMT DEF TypeOK, IssuedInv, PlaceInv, RefreshInv, FreshInv, SigningIn
<1>5. FreshInv'
  BY SMT DEF TypeOK, FreshInv, PlaceInv, IssuedInv, LockInv, RefreshInv, SigningIn
<1>6. RefreshInv'
  BY SMT DEF TypeOK, RefreshInv, PlaceInv, LockInv, FreshInv, RotationsOnce, Gone, SigningIn, Rotates
<1>7. RotationsOnce'
  BY SMTT(40) DEF TypeOK, RotationsOnce, PlaceInv, LockInv, FreshInv, RefreshInv, Rotates, Gone, SigningIn
<1>8. LatestLoginStands'
  BY SMT DEF TypeOK, LatestLoginStands, PlaceInv, RefreshInv, SigningIn
<1>9. NeverSignsItselfOut'
  BY SMT DEF TypeOK, NeverSignsItselfOut, PlaceInv, RefreshInv, LatestLoginStands, Gone
<1>10. QED BY <1>1, <1>2, <1>3, <1>4, <1>5, <1>6, <1>7, <1>8, <1>9

\* A refresh replaces the token it is based on, a person any.
LEMMA UpdateKeeps == ASSUME IInv, NEW p \in Procs, Update(p) PROVE IInv'
<1>r. ASSUME expected[p] # None, target[p] \in Profiles, pc[p] = "updating"
      PROVE  LET s == target[p]
                 l == expected[p].login
             IN  /\ intended[p] = None => <<s, l>> \in Gone
                 /\ intended[p] # None =>
                      lock[s] = p /\ intended[p].login = l /\ intended[p].turn = turn[s][l]
  BY <1>r, RefreshFacts, Zenon
<1> USE NoneFacts, TokenFacts DEF Update, IInv, Goto, Leave, Note, Refreshing, procVars, serverVars, history
<1>1. TypeOK'
  BY SMT DEF TypeOK, PlaceInv, PCs
<1>2. PlaceInv'
  BY SMT DEF TypeOK, PlaceInv
<1>3. LockInv'
  BY SMT DEF TypeOK, LockInv, PlaceInv
<1>4. IssuedInv'
  BY SMT DEF TypeOK, IssuedInv, PlaceInv, RefreshInv, FreshInv, SigningIn
<1>5. FreshInv'
  BY SMT DEF TypeOK, FreshInv, PlaceInv, IssuedInv, LockInv, RefreshInv, SigningIn
<1>6. RefreshInv'
  BY SMT DEF TypeOK, RefreshInv, PlaceInv, LockInv, FreshInv, RotationsOnce, Gone, SigningIn, Rotates
<1>7. RotationsOnce'
  <2> SUFFICES ASSUME NEW t \in Profiles, slot'[t] # None PROVE Rotates(t)'
    BY DEF RotationsOnce, Rotates
  <2>1. CASE lock[t] = p
    <3>1. target[p] = t /\ expected[p] # None /\ turn[t] = turn'[t]
      BY <2>1, SMT DEF LockInv
    <3>2. CASE slot[t] = expected[p]
      <4>1. slot'[t] = intended[p] /\ intended[p] # None
        BY <3>1, <3>2, SMT DEF TypeOK
      <4>2. intended[p].turn = turn[t][intended[p].login]
        BY <3>1, <4>1, <1>r, SMT
      <4>3. QED BY <3>1, <4>1, <4>2 DEF Rotates
    <3>3. CASE slot[t] # expected[p]
      BY <2>1, <3>1, <3>3, SMT DEF TypeOK, RotationsOnce, Rotates
    <3>4. QED BY <3>2, <3>3
  <2>2. CASE lock[t] # p /\ slot'[t] = slot[t]
    BY <2>2, SMT DEF TypeOK, RotationsOnce, Rotates
  <2>3. CASE lock[t] # p /\ slot'[t] # slot[t]
    <3>1. target[p] = t /\ slot'[t] = intended[p] /\ turn[t] = turn'[t]
      BY <2>3, SMT DEF TypeOK, PlaceInv
    <3>2. intended[p].turn = turn[t][intended[p].login] /\ intended[p] # None
      <4>1. CASE expected[p] # None
        BY <2>3, <3>1, <4>1, <1>r, SMT
      <4>2. CASE expected[p] = None
        BY <2>3, <3>1, <4>2, SMT DEF FreshInv, SigningIn
      <4>3. QED BY <4>1, <4>2
    <3>3. QED BY <3>1, <3>2 DEF Rotates
  <2>4. QED BY <2>1, <2>2, <2>3
<1>8. LatestLoginStands'
  <2>1. target[p] \in Slots
    BY SMT DEF TypeOK
  <2>2. CASE expected[p] # None
    BY <2>1, <2>2, <1>r, SMT DEF TypeOK, LatestLoginStands
  <2>3. CASE expected[p] = None
    BY <2>1, <2>3, SMT DEF TypeOK, LatestLoginStands
  <2>4. QED BY <2>2, <2>3
<1>9. NeverSignsItselfOut'
  BY SMT DEF TypeOK, NeverSignsItselfOut, PlaceInv, RefreshInv, LatestLoginStands, Gone
<1>10. QED BY <1>1, <1>2, <1>3, <1>4, <1>5, <1>6, <1>7, <1>8, <1>9

\* Loading changes no token.
LEMMA LoadKeeps == ASSUME IInv, NEW p \in Procs, Load(p) PROVE IInv'
<1> USE NoneFacts, TokenFacts DEF Load, IInv, Goto, Leave, Note, Refreshing, procVars, serverVars, history
<1>1. TypeOK'
  BY SMT DEF TypeOK, PlaceInv, PCs
<1>2. PlaceInv'
  BY SMT DEF TypeOK, PlaceInv
<1>3. LockInv'
  BY SMT DEF TypeOK, LockInv, PlaceInv
<1>4. IssuedInv'
  BY SMT DEF TypeOK, IssuedInv, PlaceInv, RefreshInv, FreshInv, SigningIn
<1>5. FreshInv'
  BY SMT DEF TypeOK, FreshInv, PlaceInv, IssuedInv, LockInv, RefreshInv, SigningIn
<1>6. RefreshInv'
  BY SMT DEF TypeOK, RefreshInv, PlaceInv, LockInv, FreshInv, RotationsOnce, Gone, SigningIn, Rotates
<1>7. RotationsOnce'
  BY Zenon DEF RotationsOnce, Rotates
<1>8. LatestLoginStands'
  BY SMT DEF TypeOK, LatestLoginStands, PlaceInv, RefreshInv, SigningIn
<1>9. NeverSignsItselfOut'
  BY SMT DEF TypeOK, NeverSignsItselfOut, PlaceInv, RefreshInv, LatestLoginStands, Gone
<1>10. QED BY <1>1, <1>2, <1>3, <1>4, <1>5, <1>6, <1>7, <1>8, <1>9

\* Loading changes no token.
LEMMA KeepKeeps == ASSUME IInv, NEW p \in Procs, Keep(p) PROVE IInv'
<1> USE NoneFacts, TokenFacts DEF Keep, IInv, Goto, Leave, Note, Refreshing, procVars, serverVars, history
<1>1. TypeOK'
  BY SMT DEF TypeOK, PlaceInv, PCs
<1>2. PlaceInv'
  <2>1. draft'[p] \in [Defaults -> Tokens \cup {None}]
    BY SMT DEF TypeOK
  <2>2. target[p] = None /\ pc'[p] = "storing"
    BY SMT DEF TypeOK, PlaceInv
  <2>3. QED BY <2>1, <2>2, SMT DEF TypeOK, PlaceInv
<1>3. LockInv'
  BY SMT DEF TypeOK, LockInv, PlaceInv
<1>4. IssuedInv'
  BY SMT DEF TypeOK, IssuedInv, PlaceInv, RefreshInv, FreshInv, SigningIn
<1>5. FreshInv'
  BY SMT DEF TypeOK, FreshInv, PlaceInv, IssuedInv, LockInv, RefreshInv, SigningIn
<1>6. RefreshInv'
  BY SMT DEF TypeOK, RefreshInv, PlaceInv, LockInv, FreshInv, RotationsOnce, Gone, SigningIn, Rotates
<1>7. RotationsOnce'
  BY SMT DEF TypeOK, RotationsOnce, PlaceInv, LockInv, FreshInv, RefreshInv, Rotates, Gone, SigningIn
<1>8. LatestLoginStands'
  BY SMT DEF TypeOK, LatestLoginStands, PlaceInv, RefreshInv, SigningIn
<1>9. NeverSignsItselfOut'
  BY SMT DEF TypeOK, NeverSignsItselfOut, PlaceInv, RefreshInv, LatestLoginStands, Gone
<1>10. QED BY <1>1, <1>2, <1>3, <1>4, <1>5, <1>6, <1>7, <1>8, <1>9

\* config.toml holds no profile's token.
LEMMA StoreKeeps == ASSUME IInv, NEW p \in Procs, Store(p) PROVE IInv'
<1> USE NoneFacts, TokenFacts DEF Store, IInv, Goto, Leave, Note, Refreshing, procVars, serverVars, history
<1>1. TypeOK'
  <2> USE DEF TypeOK, PlaceInv
  <2>1. slot' \in [Slots -> Tokens \cup {None}]
    BY SMT DEF PCs
  <2>2. lock' \in [Slots -> Procs \cup {None}]
    BY SMT DEF PCs
  <2>3. issued' \in [Slots -> Logins]
    BY SMT DEF PCs
  <2>4. turn' \in [Slots -> [Logins -> 0..MaxTurns]]
    BY SMT DEF PCs
  <2>5. ended' \subseteq Slots \X Logins
    BY SMT DEF PCs
  <2>6. pc' \in [Procs -> PCs]
    BY SMT DEF PCs
  <2>7. target' \in [Procs -> Slots \cup {None}]
    BY SMT DEF PCs
  <2>8. expected' \in [Procs -> Tokens \cup {None}]
    BY SMT DEF PCs
  <2>9. intended' \in [Procs -> Tokens \cup {None}]
    BY SMT DEF PCs
  <2>10. draft' \in [Procs -> [Defaults -> Tokens \cup {None}] \cup {None}]
    BY SMT DEF PCs
  <2>11. latest' \in [Slots -> Logins]
    BY SMT DEF PCs
  <2>12. lost' \subseteq Slots \X Logins
    BY SMT DEF PCs
  <2>13. QED BY <2>1, <2>2, <2>3, <2>4, <2>5, <2>6, <2>7, <2>8, <2>9, <2>10, <2>11, <2>12
<1>2. PlaceInv'
  BY SMT DEF TypeOK, PlaceInv
<1>3. LockInv'
  BY SMT DEF TypeOK, LockInv, PlaceInv
<1>4. IssuedInv'
  BY SMT DEF TypeOK, IssuedInv, PlaceInv, RefreshInv, FreshInv, SigningIn
<1>5. FreshInv'
  BY SMT DEF TypeOK, FreshInv, PlaceInv, IssuedInv, LockInv, RefreshInv, SigningIn
<1>6. RefreshInv'
  BY SMT DEF TypeOK, RefreshInv, PlaceInv, LockInv, FreshInv, RotationsOnce, Gone, SigningIn, Rotates
<1>7. RotationsOnce'
  <2> SUFFICES ASSUME NEW t \in Profiles, slot'[t] # None PROVE Rotates(t)'
    BY DEF RotationsOnce, Rotates
  <2>1. CASE lock[t] = p
    <3>1. target[p] = t /\ expected[p] # None /\ turn[t] = turn'[t]
      BY <2>1, SMT DEF LockInv
    <3>2. QED BY <2>1, <3>1, SMT DEF TypeOK, RotationsOnce, Rotates, RefreshInv, PlaceInv
  <2>2. CASE lock[t] # p /\ slot'[t] = slot[t]
    BY <2>2, SMTT(40) DEF TypeOK, RotationsOnce, Rotates
  <2>3. CASE lock[t] # p /\ slot'[t] # slot[t]
    <3>1. target[p] = t /\ slot'[t] = intended[p] /\ turn[t] = turn'[t]
      BY <2>3, SMT DEF TypeOK, PlaceInv
    <3>2. QED BY <2>3, <3>1, SMT DEF TypeOK, RefreshInv, FreshInv, SigningIn, PlaceInv, Rotates, Gone
  <2>4. QED BY <2>1, <2>2, <2>3
<1>8. LatestLoginStands'
  BY SMT DEF TypeOK, LatestLoginStands, PlaceInv, RefreshInv, SigningIn
<1>9. NeverSignsItselfOut'
  BY SMT DEF TypeOK, NeverSignsItselfOut, PlaceInv, RefreshInv, LatestLoginStands, Gone
<1>10. QED BY <1>1, <1>2, <1>3, <1>4, <1>5, <1>6, <1>7, <1>8, <1>9

\* The server's new login is known to nobody else.
LEMMA SignInKeeps == ASSUME IInv, NEW p \in Procs, NEW s \in Slots, SignIn(p, s) PROVE IInv'
<1> USE NoneFacts, TokenFacts DEF SignIn, IInv, Goto, Leave, Note, Refreshing, procVars, serverVars, history
<1>a. issued[s] + 1 \in Logins /\ issued'[s] = issued[s] + 1
      /\ \A t \in Slots : t # s => issued'[t] = issued[t]
  BY BoundAssumption, SMT DEF TypeOK, Logins
<1>b. /\ intended'[p] \in Tokens /\ intended'[p].login = issued[s] + 1 /\ intended'[p].turn = 0
      /\ \A q \in Procs : q # p => intended'[q] = intended[q]
  <2>1. 0 \in 0..MaxTurns
    BY BoundAssumption, SMT
  <2>2. [login |-> issued[s] + 1, turn |-> 0] \in Tokens
    BY <1>a, <2>1, TokenMade, Zenon
  <2>3. QED BY <2>2, SMT DEF TypeOK
<1>1. TypeOK'
  <2> USE DEF TypeOK, PlaceInv
  <2>1. slot' \in [Slots -> Tokens \cup {None}]
    BY SMT DEF PCs
  <2>2. lock' \in [Slots -> Procs \cup {None}]
    BY SMT DEF PCs
  <2>3. issued' \in [Slots -> Logins]
    BY <1>a, SMT
  <2>4. turn' \in [Slots -> [Logins -> 0..MaxTurns]]
    BY SMT DEF PCs
  <2>5. ended' \subseteq Slots \X Logins
    BY SMT DEF PCs
  <2>6. pc' \in [Procs -> PCs]
    BY SMT DEF PCs
  <2>7. target' \in [Procs -> Slots \cup {None}]
    BY SMT DEF PCs
  <2>8. expected' \in [Procs -> Tokens \cup {None}]
    BY SMT DEF PCs
  <2>9. intended' \in [Procs -> Tokens \cup {None}]
    BY <1>b, SMT
  <2>10. draft' \in [Procs -> [Defaults -> Tokens \cup {None}] \cup {None}]
    BY SMT DEF PCs
  <2>11. latest' \in [Slots -> Logins]
    BY SMT DEF PCs
  <2>12. lost' \subseteq Slots \X Logins
    BY SMT DEF PCs
  <2>13. QED BY <2>1, <2>2, <2>3, <2>4, <2>5, <2>6, <2>7, <2>8, <2>9, <2>10, <2>11, <2>12
<1>2. PlaceInv'
  BY SMT DEF TypeOK, PlaceInv
<1>3. LockInv'
  BY SMT DEF TypeOK, LockInv, PlaceInv
<1>c. UNCHANGED <<slot, turn, expected>> /\ target' = [target EXCEPT ![p] = s]
      /\ expected[p] = None /\ intended[p] = None
  BY SMT DEF PlaceInv
<1>4. IssuedInv'
  <2> HIDE DEF SignIn
  <2>1. \A t \in Slots : issued[t] \in Nat /\ issued[t] <= issued'[t] /\ issued'[t] \in Nat
    <3>1. \A t \in Slots : issued[t] \in Nat
      BY IssuedNat
    <3>2. QED BY <3>1, <1>a, SMT
  <2>2. ASSUME NEW t \in Profiles PROVE (slot[t] # None => slot[t].login <= issued[t])'
    <3>1. slot' = slot /\ (slot[t] # None => slot[t].login <= issued[t] /\ slot[t] \in Tokens)
      BY <1>c, SMT DEF TypeOK, IssuedInv
    <3>2. slot[t] # None => slot[t].login \in Nat
      BY <3>1
    <3>3. QED BY <2>1, <3>1, <3>2, SMT
  <2>3. ASSUME NEW t \in Profiles, NEW l \in Logins PROVE (l > issued[t] => turn[t][l] = 0)'
    BY <1>c, <2>1, SMT DEF TypeOK, IssuedInv
  <2>4. ASSUME NEW t \in Profiles, NEW q \in Procs, target'[q] = t
        PROVE  (/\ expected[q] # None => expected[q].login <= issued[t]
                /\ intended[q] # None => intended[q].login <= issued[t])'
    <3>1. CASE q = p
      BY <1>a, <1>b, <1>c, <2>1, <2>4, <3>1, SMT DEF TypeOK
    <3>2. CASE q # p
      <4>1. target[q] = t /\ expected'[q] = expected[q] /\ intended'[q] = intended[q]
        BY <1>b, <1>c, <2>4, <3>2, SMT DEF TypeOK
      <4>2. /\ expected[q] # None => expected[q].login <= issued[t]
            /\ intended[q] # None => intended[q].login <= issued[t]
        BY <4>1, SMT DEF IssuedInv
      <4>3. /\ expected[q] # None => expected[q].login \in Nat
            /\ intended[q] # None => intended[q].login \in Nat
        <5>1. expected[q] \in Tokens \cup {None} /\ intended[q] \in Tokens \cup {None}
          BY SMT DEF TypeOK
        <5>2. QED BY <5>1, TokenNat, Zenon
      <4>4. QED BY <2>1, <4>1, <4>2, <4>3, SMT
    <3>3. QED BY <3>1, <3>2
  <2>5. QED BY <2>2, <2>3, <2>4 DEF IssuedInv
<1>5. FreshInv'
  <2> HIDE DEF SignIn
  <2>0. /\ target' \in [Procs -> Slots \cup {None}] /\ target'[p] = s
        /\ \A q \in Procs : q # p => target'[q] = target[q]
    BY <1>c, SMT DEF TypeOK
  <2> SUFFICES ASSUME NEW q \in Procs, (SigningIn(q) /\ target[q] \in Profiles)'
      PROVE  LET t == target'[q]
                 l == intended'[q].login
             IN  /\ intended'[q].turn = 0 /\ turn'[t][l] = 0
                 /\ slot'[t] # None => slot'[t].login # l
                 /\ \A r \in Procs : r # q /\ target'[r] = t =>
                      /\ expected'[r] # None => expected'[r].login # l
                      /\ intended'[r] # None => intended'[r].login # l
    BY DEF FreshInv
  <2>1. CASE q = p
    <3>1. /\ issued[s] \in Nat /\ slot[s] \in Tokens \cup {None}
          /\ expected \in [Procs -> Tokens \cup {None}]
          /\ intended \in [Procs -> Tokens \cup {None}]
      BY IssuedNat DEF TypeOK
    <3>2. slot[s] # None => slot[s].login <= issued[s]
      BY <2>0, <2>1, SMT DEF IssuedInv
    <3>3. turn[s][issued[s] + 1] = 0
      BY <1>a, <2>0, <2>1, <3>1, SMT DEF IssuedInv
    <3>4. \A r \in Procs : target[r] = s =>
            /\ expected[r] # None => expected[r].login <= issued[s]
            /\ intended[r] # None => intended[r].login <= issued[s]
      BY <2>0, <2>1, SMT DEF IssuedInv
    <3>5. QED BY <1>a, <1>b, <1>c, <2>0, <2>1, <3>1, <3>2, <3>3, <3>4, SMT
  <2>2. CASE q # p
    <3>1. SigningIn(q) /\ target'[q] = target[q] /\ intended'[q] = intended[q]
      BY <1>b, <1>c, <2>0, <2>2, SMT DEF SigningIn
    <3>2. target[q] = s => intended[q].login <= issued[s] /\ intended[q].login \in Nat
      <4>1. intended[q] \in Tokens /\ target[q] \in Profiles
        BY <2>0, <3>1, SMT DEF SigningIn, TypeOK
      <4>2. intended[q] # None /\ (target[q] = s => intended[q].login <= issued[s])
        BY <3>1, <4>1, SMT DEF SigningIn, IssuedInv
      <4>3. QED BY <4>1, <4>2
    <3>3. issued[s] \in Nat
      BY IssuedNat
    <3>4. QED BY <1>b, <1>c, <2>0, <2>2, <3>1, <3>2, <3>3, SMT DEF FreshInv
  <2>3. QED BY <2>1, <2>2
<1>6. RefreshInv'
  BY SMT DEF TypeOK, RefreshInv, PlaceInv, LockInv, FreshInv, RotationsOnce, Gone, SigningIn, Rotates
<1>7. RotationsOnce'
  BY SMT DEF TypeOK, RotationsOnce, PlaceInv, LockInv, FreshInv, RefreshInv, Rotates, Gone, SigningIn
<1>8. LatestLoginStands'
  BY SMT DEF TypeOK, LatestLoginStands, PlaceInv, RefreshInv, SigningIn
<1>9. NeverSignsItselfOut'
  BY SMT DEF TypeOK, NeverSignsItselfOut, PlaceInv, RefreshInv, LatestLoginStands, Gone
<1>10. QED BY <1>1, <1>2, <1>3, <1>4, <1>5, <1>6, <1>7, <1>8, <1>9

\* A sign-out has no token to save.
LEMMA SignOutKeeps == ASSUME IInv, NEW p \in Procs, NEW s \in Slots, SignOut(p, s) PROVE IInv'
<1> USE NoneFacts, TokenFacts DEF SignOut, IInv, Goto, Leave, Note, Refreshing, procVars, serverVars, history
<1>1. TypeOK'
  BY SMT DEF TypeOK, PlaceInv, PCs
<1>2. PlaceInv'
  BY SMT DEF TypeOK, PlaceInv
<1>3. LockInv'
  BY SMT DEF TypeOK, LockInv, PlaceInv
<1>4. IssuedInv'
  BY SMT DEF TypeOK, IssuedInv, PlaceInv, RefreshInv, FreshInv, SigningIn
<1>5. FreshInv'
  BY SMT DEF TypeOK, FreshInv, PlaceInv, IssuedInv, LockInv, RefreshInv, SigningIn
<1>6. RefreshInv'
  BY SMT DEF TypeOK, RefreshInv, PlaceInv, LockInv, FreshInv, RotationsOnce, Gone, SigningIn, Rotates
<1>7. RotationsOnce'
  BY SMT DEF TypeOK, RotationsOnce, PlaceInv, LockInv, FreshInv, RefreshInv, Rotates, Gone, SigningIn
<1>8. LatestLoginStands'
  BY SMT DEF TypeOK, LatestLoginStands, PlaceInv, RefreshInv, SigningIn
<1>9. NeverSignsItselfOut'
  BY SMT DEF TypeOK, NeverSignsItselfOut, PlaceInv, RefreshInv, LatestLoginStands, Gone
<1>10. QED BY <1>1, <1>2, <1>3, <1>4, <1>5, <1>6, <1>7, <1>8, <1>9

\* The newest token is lost.
LEMMA LoseAnswerKeeps == ASSUME IInv, NEW p \in Procs, LoseAnswer(p) PROVE IInv'
<1> USE NoneFacts, TokenFacts DEF LoseAnswer, IInv, Goto, Leave, Note, Refreshing, procVars, serverVars, history
<1>a. target[p] \in Slots /\ expected[p] \in Tokens /\ expected[p].login \in Logins
  BY SMT DEF TypeOK, PlaceInv
<1>b. /\ turn' \in [Slots -> [Logins -> 0..MaxTurns]]
      /\ \A t \in Slots, m \in Logins : t # target[p] \/ m # expected[p].login
                                       => turn'[t][m] = turn[t][m]
  <2>1. turn \in [Slots -> [Logins -> 0..MaxTurns]]
    BY DEF TypeOK
  <2> DEFINE s == target[p]
             l == expected[p].login
  <2>2. /\ turn[s][l] < MaxTurns
        /\ turn' = [turn EXCEPT ![s][l] = turn[s][l] + 1]
    BY <1>a, <2>1, SMT
  <2>3. s \in Slots /\ l \in Logins
    BY <1>a
  <2>0. TypeOK
    BY DEF IInv
  <2> HIDE NoneFacts, TokenFacts DEF s, l, IInv, LoseAnswer, Goto, Leave, Note, Refreshing
  <2>4. /\ turn' \in [Slots -> [Logins -> 0..MaxTurns]]
        /\ \A t \in Slots, m \in Logins : t # s \/ m # l => turn'[t][m] = turn[t][m]
    BY <2>0, <2>2, <2>3, TurnGoesUp, ZenonT(40)
  <2>5. QED BY <2>4 DEF s, l
<1>1. TypeOK'
  <2> USE DEF TypeOK, PlaceInv
  <2>1. slot' \in [Slots -> Tokens \cup {None}]
    BY SMT DEF PCs
  <2>2. lock' \in [Slots -> Procs \cup {None}]
    BY SMT DEF PCs
  <2>3. issued' \in [Slots -> Logins]
    BY SMT DEF PCs
  <2>4. turn' \in [Slots -> [Logins -> 0..MaxTurns]]
    BY <1>b
  <2>5. ended' \subseteq Slots \X Logins
    BY SMT DEF PCs
  <2>6. pc' \in [Procs -> PCs]
    BY SMT DEF PCs
  <2>7. target' \in [Procs -> Slots \cup {None}]
    BY SMT DEF PCs
  <2>8. expected' \in [Procs -> Tokens \cup {None}]
    BY SMT DEF PCs
  <2>9. intended' \in [Procs -> Tokens \cup {None}]
    BY SMT DEF PCs
  <2>10. draft' \in [Procs -> [Defaults -> Tokens \cup {None}] \cup {None}]
    BY SMT DEF PCs
  <2>11. latest' \in [Slots -> Logins]
    BY SMT DEF PCs
  <2>12. lost' \subseteq Slots \X Logins
    BY SMT DEF PCs
  <2>13. QED BY <2>1, <2>2, <2>3, <2>4, <2>5, <2>6, <2>7, <2>8, <2>9, <2>10, <2>11, <2>12
<1>2. PlaceInv'
  BY SMT DEF TypeOK, PlaceInv
<1>3. LockInv'
  BY SMT DEF TypeOK, LockInv, PlaceInv
<1>4. IssuedInv'
  <2>1. ASSUME NEW t \in Profiles, NEW l \in Logins, l > issued[t] PROVE turn'[t][l] = 0
    <3>1. t = target[p] => expected[p].login <= issued[t]
      BY SMT DEF PlaceInv, IssuedInv
    <3>2. issued[t] \in Nat
      BY IssuedNat
    <3>3. t # target[p] \/ l # expected[p].login
      BY <1>a, <2>1, <3>1, <3>2, SMT
    <3>4. QED BY <1>b, <2>1, <3>3 DEF IssuedInv
  <2>2. QED BY <2>1, SMT DEF TypeOK, IssuedInv, PlaceInv
<1>5. FreshInv'
  BY SMT DEF TypeOK, FreshInv, PlaceInv, IssuedInv, LockInv, RefreshInv, SigningIn
<1>6. RefreshInv'
  <2> SUFFICES ASSUME NEW q \in Procs, expected'[q] # None, target'[q] \in Profiles
               PROVE  LET t == target'[q]
                          m == expected'[q].login
                      IN  /\ pc'[q] = "posting"
                                => <<t, m>> \in Gone' \/ expected'[q].turn = turn'[t][m]
                          /\ pc'[q] \in {"updating", "storing"} =>
                               IF intended'[q] = None THEN <<t, m>> \in Gone'
                               ELSE /\ lock'[t] = q
                                    /\ intended'[q].login = m
                                    /\ intended'[q].turn = turn'[t][m]
    BY DEF RefreshInv
  <2>1. Gone \subseteq Gone'
    BY DEF Gone
  <2>2. q # p
    BY DEF TypeOK
  <2>3. /\ pc'[q] = pc[q] /\ intended'[q] = intended[q]
        /\ expected'[q] = expected[q] /\ target'[q] = target[q]
    BY <2>2 DEF TypeOK
  <2>4. lock[target[p]] = p /\ (lock[target[q]] = q => lock'[target[q]] = q)
    BY <2>2, <2>3 DEF TypeOK, PlaceInv, Slots
  <2>5. expected[q] \in Tokens /\ expected[q].login \in Logins /\ target[q] \in Slots
    BY <2>3, TokenFacts, SMT DEF TypeOK, Slots
  <2>6. CASE lock[target[q]] = q
    <3>1. turn'[target[q]][expected[q].login] = turn[target[q]][expected[q].login]
      BY <1>b, <2>2, <2>4, <2>5, <2>6
    <3>2. RefreshInv
      OBVIOUS
    <3> HIDE NoneFacts, TokenFacts DEF IInv, LoseAnswer, Leave, Goto
    <3>3. QED BY <2>1, <2>3, <2>4, <2>6, <3>1, <3>2 DEF RefreshInv
  <2>7. CASE lock[target[q]] # q
    <3>1. pc[q] # "posting"
      BY <2>7 DEF PlaceInv
    <3>2. QED BY <2>1, <2>3, <2>7, <3>1 DEF RefreshInv
  <2>8. QED BY <2>6, <2>7
<1>7. RotationsOnce'
  <2> SUFFICES ASSUME NEW t \in Profiles, slot'[t] # None PROVE Rotates(t)'
    BY DEF RotationsOnce, Rotates
  <2>1. slot[t] \in Tokens /\ slot' = slot /\ Rotates(t)
    BY SMT DEF TypeOK, RotationsOnce
  <2>2. CASE t = target[p] /\ slot[t].login = expected[p].login
    BY <2>1, <2>2, SMT DEF Rotates
  <2>3. CASE t # target[p] \/ slot[t].login # expected[p].login
    <3>1. turn'[t][slot[t].login] = turn[t][slot[t].login]
      BY <1>b, <2>1, <2>3
    <3>2. lock[t] # p \/ expected[lock[t]] # slot[t]
      BY <2>3, SMT DEF LockInv
    <3>3. QED BY <2>1, <3>1, <3>2, SMT DEF TypeOK, Rotates
  <2>4. QED BY <2>2, <2>3
<1>8. LatestLoginStands'
  BY SMT DEF TypeOK, LatestLoginStands, PlaceInv, RefreshInv, SigningIn
<1>9. NeverSignsItselfOut'
  BY SMT DEF TypeOK, NeverSignsItselfOut, PlaceInv, RefreshInv, LatestLoginStands, Gone
<1>10. QED BY <1>1, <1>2, <1>3, <1>4, <1>5, <1>6, <1>7, <1>8, <1>9

\* What the process had not saved is lost.
LEMMA CrashKeeps == ASSUME IInv, NEW p \in Procs, Crash(p) PROVE IInv'
<1> USE NoneFacts, TokenFacts DEF Crash, IInv, Goto, Leave, Note, Refreshing, procVars, serverVars, history
<1>1. TypeOK'
  BY SMT DEF TypeOK, PlaceInv, PCs
<1>2. PlaceInv'
  BY SMT DEF TypeOK, PlaceInv
<1>3. LockInv'
  BY SMT DEF TypeOK, LockInv, PlaceInv
<1>4. IssuedInv'
  BY SMT DEF TypeOK, IssuedInv, PlaceInv, RefreshInv, FreshInv, SigningIn
<1>5. FreshInv'
  BY SMT DEF TypeOK, FreshInv, PlaceInv, IssuedInv, LockInv, RefreshInv, SigningIn
<1>6. RefreshInv'
  BY SMT DEF TypeOK, RefreshInv, PlaceInv, LockInv, FreshInv, RotationsOnce, Gone, SigningIn, Rotates
<1>7. RotationsOnce'
  <2> SUFFICES ASSUME NEW t \in Profiles, slot'[t] # None PROVE Rotates(t)'
    BY DEF RotationsOnce, Rotates
  <2>1. CASE lock[t] = p
    <3>1. target[p] = t /\ expected[p] # None
      BY <2>1, SMT DEF LockInv
    <3>2. QED BY <2>1, <3>1, SMTT(40) DEF TypeOK, RotationsOnce, Rotates, RefreshInv, PlaceInv, LockInv, Gone, PCs
  <2>2. CASE lock[t] # p
    BY <2>2, SMT DEF TypeOK, RotationsOnce, Rotates
  <2>3. QED BY <2>1, <2>2
<1>8. LatestLoginStands'
  BY SMT DEF TypeOK, LatestLoginStands, PlaceInv, RefreshInv, SigningIn
<1>9. NeverSignsItselfOut'
  BY SMT DEF TypeOK, NeverSignsItselfOut, PlaceInv, RefreshInv, LatestLoginStands, Gone
<1>10. QED BY <1>1, <1>2, <1>3, <1>4, <1>5, <1>6, <1>7, <1>8, <1>9


\* What ends is gone.
LEMMA EndKeeps == ASSUME IInv, NEW s \in Slots, End(s) PROVE IInv'
<1> USE NoneFacts, TokenFacts DEF End, IInv, procVars, history
<1>1. TypeOK'
  <2>1. PICK l \in 1..issued[s] : ended' = ended \cup {<<s, l>>}
    OBVIOUS
  <2>2. l \in Logins
    <3>1. issued[s] \in Logins
      BY Zenon DEF TypeOK
    <3>2. QED BY <2>1, <3>1, BoundAssumption, SMT DEF Logins
  <2>3. QED BY <2>1, <2>2, SMT DEF TypeOK
<1>2. PlaceInv' /\ LockInv'
  BY SMT DEF PlaceInv, LockInv
<1>3. IssuedInv'
  BY SMT DEF IssuedInv
<1>4. FreshInv'
  BY SMT DEF FreshInv, SigningIn
<1>5. RefreshInv'
  BY SMT DEF RefreshInv, Gone
<1>6. RotationsOnce'
  BY SMT DEF RotationsOnce, Rotates
<1>7. LatestLoginStands' /\ NeverSignsItselfOut'
  BY SMT DEF LatestLoginStands, NeverSignsItselfOut
<1>8. QED BY <1>1, <1>2, <1>3, <1>4, <1>5, <1>6, <1>7

\* A stuttering step changes none of the variables.
LEMMA StutterKeeps == ASSUME IInv, UNCHANGED vars PROVE IInv'
<1> USE DEF IInv, vars, procVars, serverVars, history
<1>1. TypeOK' /\ PlaceInv' /\ LockInv' /\ IssuedInv'
  BY DEF TypeOK, PlaceInv, LockInv, IssuedInv
<1>2. FreshInv' /\ RefreshInv'
  BY DEF FreshInv, SigningIn, RefreshInv, Gone
<1>3. RotationsOnce' /\ LatestLoginStands' /\ NeverSignsItselfOut'
  BY DEF RotationsOnce, Rotates, LatestLoginStands, NeverSignsItselfOut
<1>4. QED BY <1>1, <1>2, <1>3

-----------------------------------------------------------------------------

\* The places, locks and tokens of all processes fit together in every state
\* (try_refresh, save_tokens, clear_tokens).
THEOREM Inductive == Spec => []IInv
<1>1. IInv /\ [Next]_vars => IInv'
  <2> SUFFICES ASSUME IInv, [Next]_vars PROVE IInv'
    OBVIOUS
  <2>1. CASE UNCHANGED vars
    BY <2>1, StutterKeeps
  <2>2. CASE Next
    BY <2>2, BeginKeeps, EnterKeeps, RotateKeeps, RefuseKeeps, FailKeeps, UpdateKeeps,
       LoadKeeps, KeepKeeps, StoreKeeps, SignInKeeps, SignOutKeeps, EndKeeps,
       LoseAnswerKeeps, CrashKeeps DEF Next
  <2>3. QED BY <2>1, <2>2
<1>2. QED BY InitHolds, <1>1, PTL DEF Spec

\* A refresh never brings back a profile's login that another sign-in has replaced
\* or a person has signed out of.
THEOREM SignInsStand == Spec => []LatestLoginStands
<1>1. IInv => LatestLoginStands
  BY DEF IInv
<1>2. QED BY Inductive, <1>1, PTL

\* A profile is left without a login only by its person, the server or a fault.
THEOREM SignOutsAreMeant == Spec => []NeverSignsItselfOut
<1>1. IInv => NeverSignsItselfOut
  BY DEF IInv
<1>2. QED BY Inductive, <1>1, PTL

\* Between faults a profile's slot holds the token the server accepts next, or the
\* holder of the refresh lock is replacing it.
THEOREM TokensRotateOnce == Spec => []RotationsOnce
<1>1. IInv => RotationsOnce
  BY DEF IInv
<1>2. QED BY Inductive, <1>1, PTL

\* A process is refused only for a login that is gone: it never presents a token of
\* a profile that another process has used.
THEOREM RefusalsDeserved == Spec => RefusalsAreDeserved
<1> DEFINE Deserved == \A p \in Procs : Refuse(p) /\ target[p] \in Profiles =>
                         <<target[p], expected[p].login>> \in ended \cup lost
<1>1. IInv /\ [Next]_vars => [Deserved]_vars
  <2> SUFFICES ASSUME IInv, NEW p \in Procs, Refuse(p), target[p] \in Profiles
               PROVE  <<target[p], expected[p].login>> \in ended \cup lost
    OBVIOUS
  <2>1. pc[p] = "posting" /\ expected[p] # None
    BY DEF Refuse, IInv, PlaceInv
  <2>2. <<target[p], expected[p].login>> \in Gone
        \/ expected[p].turn = turn[target[p]][expected[p].login]
    BY <2>1, RefreshFacts
  <2>3. QED BY <2>2 DEF Refuse, Gone
<1>2. QED BY Inductive, <1>1, PTL DEF Spec, RefusalsAreDeserved

-----------------------------------------------------------------------------
(* The drafts of strategies. *)

USE ProfileDraftsAssumption

\* The new draft has no keys and no settings.
LEMMA ClosedFacts ==
  /\ Closed \in Drafts
  /\ Closed.at = "closed" /\ Closed.id = NoProfile /\ Closed.keys = {} /\ Closed.base = {}
  /\ Closed.on = {} /\ Closed.baseOn = {} /\ Closed.add = {} /\ Closed.drop = {} /\ Closed.listed = {}
BY DEF Closed, Drafts, Stages, AllProfiles

\* A draft by its fields.
LEMMA DraftFields ==
  ASSUME NEW d \in Drafts
  PROVE  /\ d.at \in Stages /\ d.id \in AllProfiles \cup {NoProfile}
         /\ d.keys \subseteq ApiKeys /\ d.base \subseteq ApiKeys /\ d.listed \subseteq ApiKeys
         /\ d.add \subseteq ApiKeys /\ d.drop \subseteq ApiKeys
         /\ d.on \subseteq Settings /\ d.baseOn \subseteq Settings
BY DEF Drafts

\* A draft made of another one is a draft: with a list of keys,
Listed(d, keys) == [d EXCEPT !.at = "editing", !.listed = keys]

\* The fields of a draft with a list of keys.
LEMMA ListedDraft ==
  ASSUME NEW d \in Drafts, NEW keys \in SUBSET ApiKeys, NEW n, n = Listed(d, keys)
  PROVE  /\ n \in Drafts /\ n.at = "editing" /\ n.id = d.id /\ n.keys = d.keys /\ n.base = d.base
         /\ n.on = d.on /\ n.baseOn = d.baseOn /\ n.listed = keys /\ n.add = d.add /\ n.drop = d.drop
<1>1. n = [at |-> "editing", id |-> d.id, keys |-> d.keys, base |-> d.base, on |-> d.on,
           baseOn |-> d.baseOn, listed |-> keys, add |-> d.add, drop |-> d.drop]
  BY Zenon DEF Drafts, Listed
<1> QED BY <1>1, DraftFields, SMT DEF Drafts, Stages

\* ... with what its save has to do,
Prepared(d, add, drop) == [d EXCEPT !.add = add, !.drop = drop]

\* A draft with what its save has to do is the record with these fields.
LEMMA PreparedRecord ==
  ASSUME NEW d \in Drafts, NEW add, NEW drop
  PROVE  Prepared(d, add, drop) =
           [at |-> d.at, id |-> d.id, keys |-> d.keys, base |-> d.base, on |-> d.on,
            baseOn |-> d.baseOn, listed |-> d.listed, add |-> add, drop |-> drop]
<1>1. ASSUME NEW n, n = Prepared(d, add, drop)
      PROVE  n = [at |-> d.at, id |-> d.id, keys |-> d.keys, base |-> d.base, on |-> d.on,
                  baseOn |-> d.baseOn, listed |-> d.listed, add |-> add, drop |-> drop]
  BY <1>1, Zenon DEF Drafts, Prepared
<1> QED BY <1>1, Zenon

\* The fields of a draft with what its save has to do.
LEMMA PreparedDraft ==
  ASSUME NEW d \in Drafts, NEW add \in SUBSET ApiKeys, NEW drop \in SUBSET ApiKeys,
         NEW n, n = Prepared(d, add, drop)
  PROVE  /\ n \in Drafts /\ n.at = d.at /\ n.id = d.id /\ n.keys = d.keys /\ n.base = d.base
         /\ n.on = d.on /\ n.baseOn = d.baseOn /\ n.listed = d.listed /\ n.add = add /\ n.drop = drop
<1>1. n = [at |-> d.at, id |-> d.id, keys |-> d.keys, base |-> d.base, on |-> d.on,
           baseOn |-> d.baseOn, listed |-> d.listed, add |-> add, drop |-> drop]
  BY Zenon DEF Drafts, Prepared
<1> QED BY <1>1, DraftFields, SMT DEF Drafts

\* ... at another place,
Placed(d, at) == [d EXCEPT !.at = at]

\* The fields of a draft at another place.
LEMMA PlacedDraft ==
  ASSUME NEW d \in Drafts, NEW at \in Stages, NEW n, n = Placed(d, at)
  PROVE  /\ n \in Drafts /\ n.at = at /\ n.id = d.id /\ n.keys = d.keys /\ n.base = d.base
         /\ n.on = d.on /\ n.baseOn = d.baseOn /\ n.listed = d.listed /\ n.add = d.add
         /\ n.drop = d.drop
<1>1. n = [at |-> at, id |-> d.id, keys |-> d.keys, base |-> d.base, on |-> d.on,
           baseOn |-> d.baseOn, listed |-> d.listed, add |-> d.add, drop |-> d.drop]
  BY Zenon DEF Drafts, Placed
<1> QED BY <1>1, DraftFields, SMT DEF Drafts

\* ... and on what the server has.
Based(d, keys, base, on, baseOn) ==
  [d EXCEPT !.keys = keys, !.base = base, !.on = on, !.baseOn = baseOn]

\* The fields of a draft on what the server has.
LEMMA BasedDraft ==
  ASSUME NEW d \in Drafts, NEW keys \in SUBSET ApiKeys, NEW base \in SUBSET ApiKeys,
         NEW on \in SUBSET Settings, NEW baseOn \in SUBSET Settings,
         NEW n, n = Based(d, keys, base, on, baseOn)
  PROVE  /\ n \in Drafts /\ n.at = d.at /\ n.id = d.id /\ n.keys = keys /\ n.base = base
         /\ n.on = on /\ n.baseOn = baseOn /\ n.listed = d.listed /\ n.add = d.add
         /\ n.drop = d.drop
<1>1. n = [at |-> d.at, id |-> d.id, keys |-> keys, base |-> base, on |-> on,
           baseOn |-> baseOn, listed |-> d.listed, add |-> d.add, drop |-> d.drop]
  BY Zenon DEF Drafts, Based
<1> QED BY <1>1, DraftFields, SMT DEF Drafts

\* A draft of a profile is what the server has.
LEMMA OpenedFacts ==
  ASSUME DraftTypeOK, NEW p \in made
  PROVE  /\ FromProfile(p) \in Drafts
         /\ FromProfile(p).at = "opened" /\ FromProfile(p).id = p
         /\ FromProfile(p).keys = Assigned(p) /\ FromProfile(p).base = Assigned(p)
         /\ FromProfile(p).on = switched[p] /\ FromProfile(p).baseOn = switched[p]
         /\ FromProfile(p).add = {} /\ FromProfile(p).drop = {}
<1>1. Assigned(p) \subseteq ApiKeys /\ switched[p] \subseteq Settings /\ p \in AllProfiles
  BY DEF Assigned, DraftTypeOK
<1>2. ASSUME NEW d \in Drafts, NEW keys, NEW on, NEW n,
             n = [d EXCEPT !.at = "opened", !.id = p, !.keys = keys, !.base = keys,
                           !.on = on, !.baseOn = on]
      PROVE  n = [at |-> "opened", id |-> p, keys |-> keys, base |-> keys, on |-> on,
                  baseOn |-> on, listed |-> d.listed, add |-> d.add, drop |-> d.drop]
  BY <1>2, Zenon DEF Drafts
<1>3. FromProfile(p) = [at |-> "opened", id |-> p, keys |-> Assigned(p), base |-> Assigned(p),
                        on |-> switched[p], baseOn |-> switched[p], listed |-> Closed.listed,
                        add |-> Closed.add, drop |-> Closed.drop]
  BY <1>2, ClosedFacts, Zenon DEF FromProfile
<1> QED BY <1>1, <1>3, ClosedFacts DEF Drafts, Stages

\* The draft of a profile that is opened, or of a new one.
LEMMA OpenFacts ==
  ASSUME DraftTypeOK, Open
  PROVE  LET n == profileDraft'
         IN  /\ n \in Drafts /\ n.at = "opened" /\ n.keys = n.base /\ n.on = n.baseOn
             /\ n.add = {} /\ n.drop = {}
             /\ \/ n.id \in made /\ n.base = Assigned(n.id) /\ n.baseOn = switched[n.id]
                \/ n.id = NoProfile /\ n.base = {}
             /\ DOMAIN touched' = {} /\ UNCHANGED << owner, switched, made >>
<1>1. CASE \E p \in made : profileDraft' = FromProfile(p)
  BY <1>1, OpenedFacts DEF Open, server
<1>2. CASE profileDraft' = [Closed EXCEPT !.at = "opened"]
  <2>1. profileDraft' = Placed(Closed, "opened") /\ "opened" \in Stages
    BY <1>2 DEF Placed, Stages
  <2>2. /\ profileDraft' \in Drafts /\ profileDraft'.at = "opened"
        /\ profileDraft'.id = Closed.id /\ profileDraft'.keys = Closed.keys
        /\ profileDraft'.base = Closed.base /\ profileDraft'.on = Closed.on
        /\ profileDraft'.baseOn = Closed.baseOn /\ profileDraft'.add = Closed.add
        /\ profileDraft'.drop = Closed.drop
    BY <2>1, ClosedFacts, PlacedDraft
  <2> QED BY <2>2, ClosedFacts DEF Open, server
<1> QED BY <1>1, <1>2 DEF Open, Become

\* A draft that is opened is what the server has, and nothing is wanted yet.
LEMMA OpenKeeps == ASSUME DraftInv, Open PROVE DraftInv'
<1> USE DEF Open, server, DraftInv
<1>1. /\ profileDraft' \in Drafts /\ profileDraft'.at = "opened"
      /\ profileDraft'.keys = profileDraft'.base /\ profileDraft'.on = profileDraft'.baseOn
      /\ \/ /\ profileDraft'.id \in made
            /\ profileDraft'.base = Assigned(profileDraft'.id)
            /\ profileDraft'.baseOn = switched[profileDraft'.id]
         \/ profileDraft'.id = NoProfile /\ profileDraft'.base = {}
  BY OpenFacts
<1>2. DOMAIN touched' = {}
  OBVIOUS
<1>3. DraftTypeOK'
  BY <1>1, <1>2 DEF DraftTypeOK
<1>4. StageInv'
  BY <1>1 DEF StageInv, Removed, DraftTypeOK, AllProfiles
<1>5. WantedInv'
  BY <1>2 DEF WantedInv
<1>6. KeysInv'
  BY <1>1 DEF KeysInv, KeyFound, KeyWanted, Assigned
<1>7. SettingsInv'
  BY <1>1 DEF SettingsInv, SettingFound, SettingWanted, DraftTypeOK, AllProfiles
<1> QED BY <1>3, <1>4, <1>5, <1>6, <1>7

\* The draft with the keys there are.
LEMMA ListKeysFacts ==
  ASSUME DraftTypeOK, ListKeys
  PROVE  LET d == profileDraft  n == profileDraft'
         IN  /\ n \in Drafts /\ d.at = "opened" /\ n.at = "editing" /\ n.id = d.id
             /\ n.keys = d.keys /\ n.base = d.base /\ n.on = d.on /\ n.baseOn = d.baseOn
             /\ n.add = d.add /\ n.drop = d.drop /\ n.listed = KnownKeys
<1>1. KnownKeys \in SUBSET ApiKeys /\ profileDraft \in Drafts
  BY DEF KnownKeys, DraftTypeOK
<1>2. profileDraft' = Listed(profileDraft, KnownKeys) /\ profileDraft.at = "opened"
  BY DEF ListKeys, At, Become, Listed, KnownKeys
<1> QED BY <1>1, <1>2, ListedDraft

\* A list of keys changes neither the draft's keys nor what is wanted.
LEMMA ListKeysKeeps == ASSUME DraftInv, ListKeys PROVE DraftInv'
<1> DEFINE d == profileDraft
<1> USE DEF ListKeys, server, outside, DraftInv
<1>1. /\ profileDraft' \in Drafts /\ d.at = "opened" /\ profileDraft'.at = "editing"
      /\ profileDraft'.id = d.id /\ profileDraft'.keys = d.keys /\ profileDraft'.base = d.base
      /\ profileDraft'.on = d.on /\ profileDraft'.baseOn = d.baseOn
  BY ListKeysFacts
<1>2. DOMAIN touched' = {}
  BY <1>1 DEF StageInv
<1>3. DraftTypeOK'
  BY <1>1 DEF DraftTypeOK
<1>4. StageInv'
  BY <1>1 DEF StageInv, Removed
<1>5. WantedInv'
  BY <1>2 DEF WantedInv
<1>6. KeysInv'
  BY <1>1 DEF KeysInv, KeyFound, KeyWanted
<1>7. SettingsInv'
  BY <1>1 DEF SettingsInv, SettingFound, SettingWanted
<1> QED BY <1>3, <1>4, <1>5, <1>6, <1>7

\* What is confirmed in the list of keys, with those in flip toggled.
Confirmed(d, flip) ==
  LET chosen == ((d.keys \cap d.listed) \ flip) \cup (flip \ d.keys)
  IN  IF d.id = Default /\ ~ d.base \subseteq chosen THEN chosen \cup d.base ELSE chosen

\* What confirming the list of keys does to the draft and to what is wanted.
LEMMA PickKeysFacts ==
  ASSUME DraftTypeOK, PickKeys
  PROVE  \E flip \in SUBSET (profileDraft.listed \cap ApiKeys) :
           LET d == profileDraft  n == profileDraft'  keys == Confirmed(d, flip)
           IN  /\ d.at = "editing" /\ n \in Drafts /\ n.at = "editing" /\ n.id = d.id
               /\ n.keys = keys /\ n.base = d.base /\ n.on = d.on /\ n.baseOn = d.baseOn
               /\ n.listed = d.listed /\ n.add = d.add /\ n.drop = d.drop
               /\ DOMAIN touched' = DOMAIN touched \cup flip
               /\ \A x \in DOMAIN touched' :
                    touched'[x] = IF x \in flip THEN x \in keys ELSE touched[x]
               /\ UNCHANGED << owner, switched, made, others >>
<1> DEFINE d == profileDraft
<1>1. d.at = "editing" /\ d \in Drafts
  BY DEF PickKeys, At, DraftTypeOK
<1>2. PICK flip \in {{}} \cup {{k} : k \in d.listed} :
        /\ profileDraft' = [d EXCEPT !.keys = Confirmed(d, flip)]
        /\ Touch(flip, {}, [d EXCEPT !.keys = Confirmed(d, flip)])
  BY Zenon DEF PickKeys, Become, Confirmed
<1>3. flip \subseteq d.listed /\ flip \subseteq ApiKeys
  BY <1>1, <1>2 DEF Drafts
<1>4. Confirmed(d, flip) \subseteq ApiKeys
  BY <1>1, <1>3 DEF Drafts, Confirmed
<1>5. /\ profileDraft' \in Drafts /\ profileDraft'.at = "editing"
      /\ profileDraft'.id = d.id /\ profileDraft'.keys = Confirmed(d, flip)
      /\ profileDraft'.base = d.base /\ profileDraft'.on = d.on
      /\ profileDraft'.baseOn = d.baseOn /\ profileDraft'.listed = d.listed
      /\ profileDraft'.add = d.add /\ profileDraft'.drop = d.drop
  BY <1>1, <1>2, <1>4, SMT DEF Drafts
<1>6. /\ DOMAIN touched' = DOMAIN touched \cup flip
      /\ \A x \in DOMAIN touched' :
           touched'[x] = IF x \in flip THEN x \in Confirmed(d, flip) ELSE touched[x]
      /\ UNCHANGED << server, outside, failures >>
  BY <1>1, <1>2, <1>5, SMT DEF Touch
<1> QED BY <1>1, <1>3, <1>5, <1>6 DEF server, outside

\* One key is as toggled, all others as before.
LEMMA PickKeysKeeps == ASSUME DraftInv, PickKeys PROVE DraftInv'
<1> DEFINE d == profileDraft
<1> USE DEF DraftInv
<1>1. PICK flip \in SUBSET (d.listed \cap ApiKeys) :
        /\ d.at = "editing" /\ profileDraft' \in Drafts /\ profileDraft'.at = "editing"
        /\ profileDraft'.id = d.id /\ profileDraft'.keys = Confirmed(d, flip)
        /\ profileDraft'.base = d.base /\ profileDraft'.on = d.on
        /\ profileDraft'.baseOn = d.baseOn /\ profileDraft'.listed = d.listed
        /\ DOMAIN touched' = DOMAIN touched \cup flip
        /\ \A x \in DOMAIN touched' :
             touched'[x] = IF x \in flip THEN x \in Confirmed(d, flip) ELSE touched[x]
        /\ UNCHANGED << owner, switched, made, others >>
  BY PickKeysFacts
<1> DEFINE keys == Confirmed(d, flip)
<1>2. d.id = Default => d.base \subseteq d.keys /\ d.base \subseteq keys
  BY DEF StageInv, Removed, Confirmed
<1>3. \A k \in ApiKeys : k \in d.listed /\ k \notin flip => (k \in keys <=> k \in d.keys)
  BY <1>2 DEF Confirmed
<1> HIDE DEF keys
<1>4. DraftTypeOK'
  BY <1>1 DEF DraftTypeOK
<1>5. StageInv'
  BY <1>1, <1>2 DEF StageInv, Removed, keys
<1>6. WantedInv'
  <2>1. \A k \in ApiKeys \cap DOMAIN touched' :
          k \in d.listed /\ (k \in others \/ (touched'[k] <=> k \in keys))
    BY <1>1, <1>3 DEF WantedInv, keys
  <2>2. \A s \in Settings \cap DOMAIN touched' :
          \/ d.id # NoProfile /\ << d.id, s >> \in others
          \/ touched'[s] <=> s \in d.on
    BY <1>1 DEF WantedInv
  <2> QED BY <1>1, <2>1, <2>2 DEF WantedInv, keys
<1>7. KeysInv'
  BY <1>1 DEF KeysInv, KeyFound
<1>8. SettingsInv'
  BY <1>1 DEF SettingsInv, SettingFound
<1> QED BY <1>4, <1>5, <1>6, <1>7, <1>8

\* A setting that is switched, with those that go off for it.
LEMMA SetSettingFacts ==
  ASSUME DraftTypeOK, SetSetting
  PROVE  \E moved \in SUBSET Settings :
           LET d == profileDraft  n == profileDraft'
           IN  /\ d.at = "editing" /\ n \in Drafts /\ n.at = "editing" /\ n.id = d.id
               /\ n.keys = d.keys /\ n.base = d.base /\ n.baseOn = d.baseOn
               /\ n.listed = d.listed /\ n.add = d.add /\ n.drop = d.drop
               /\ \A x \in Settings \ moved : x \in n.on <=> x \in d.on
               /\ DOMAIN touched' = DOMAIN touched \cup moved
               /\ \A x \in DOMAIN touched' :
                    touched'[x] = IF x \in moved THEN x \in n.on ELSE touched[x]
               /\ UNCHANGED << owner, switched, made, others >>
<1> DEFINE d == profileDraft
           Off(s) == IF s \in d.on THEN {s} ELSE UNION {pair \in Exclusive : s \in pair} \ {s}
<1>1. d.at = "editing" /\ d \in Drafts
  BY DEF SetSetting, At, DraftTypeOK
<1>2. PICK s \in Settings :
        /\ profileDraft' = [d EXCEPT !.on = (d.on \cup {s}) \ Off(s)]
        /\ Touch({}, {s} \cup (Off(s) \cap d.on), profileDraft')
  BY Zenon DEF SetSetting, Become
<1>3. Off(s) \subseteq Settings
  OBVIOUS
<1> DEFINE on == (d.on \cup {s}) \ Off(s)
           moved == {s} \cup (Off(s) \cap d.on)
<1> HIDE DEF Off
<1>4. /\ profileDraft' \in Drafts /\ profileDraft'.at = "editing"
      /\ profileDraft'.id = d.id /\ profileDraft'.keys = d.keys /\ profileDraft'.base = d.base
      /\ profileDraft'.on = on /\ profileDraft'.baseOn = d.baseOn
      /\ profileDraft'.listed = d.listed /\ profileDraft'.add = d.add
      /\ profileDraft'.drop = d.drop
  BY <1>1, <1>2, SMT DEF Drafts
<1>5. moved \subseteq Settings
  BY <1>3
<1>6. /\ DOMAIN touched' = DOMAIN touched \cup moved
      /\ \A x \in DOMAIN touched' : touched'[x] = IF x \in moved THEN x \in on ELSE touched[x]
      /\ UNCHANGED << server, outside, failures >>
  BY <1>2, <1>4, SMT DEF Touch
<1>7. \A x \in Settings \ moved : x \in on <=> x \in d.on
  OBVIOUS
<1> HIDE DEF on, moved
<1> QED BY <1>1, <1>4, <1>5, <1>6, <1>7 DEF server, outside

\* The settings that were switched are as wanted, all others as before.
LEMMA SetSettingKeeps == ASSUME DraftInv, SetSetting PROVE DraftInv'
<1> DEFINE d == profileDraft
<1> USE DEF DraftInv
<1>1. PICK moved \in SUBSET Settings :
        /\ d.at = "editing" /\ profileDraft' \in Drafts /\ profileDraft'.at = "editing"
        /\ profileDraft'.id = d.id /\ profileDraft'.keys = d.keys
        /\ profileDraft'.base = d.base /\ profileDraft'.baseOn = d.baseOn
        /\ profileDraft'.listed = d.listed
        /\ \A x \in Settings \ moved : x \in profileDraft'.on <=> x \in d.on
        /\ DOMAIN touched' = DOMAIN touched \cup moved
        /\ \A x \in DOMAIN touched' :
             touched'[x] = IF x \in moved THEN x \in profileDraft'.on ELSE touched[x]
        /\ UNCHANGED << owner, switched, made, others >>
  BY SetSettingFacts
<1>2. DraftTypeOK'
  BY <1>1 DEF DraftTypeOK
<1>3. StageInv'
  BY <1>1 DEF StageInv, Removed
<1>4. WantedInv'
  <2>1. \A k \in ApiKeys \cap DOMAIN touched' :
          k \in d.listed /\ (k \in others \/ (touched'[k] <=> k \in d.keys))
    BY <1>1 DEF WantedInv
  <2>2. \A x \in Settings \cap DOMAIN touched' :
          \/ d.id # NoProfile /\ << d.id, x >> \in others
          \/ touched'[x] <=> x \in profileDraft'.on
    BY <1>1 DEF WantedInv
  <2> QED BY <1>1, <2>1, <2>2 DEF WantedInv
<1>5. KeysInv'
  BY <1>1 DEF KeysInv, KeyFound
<1>6. SettingsInv'
  BY <1>1 DEF SettingsInv, SettingFound
<1> QED BY <1>2, <1>3, <1>4, <1>5, <1>6

-----------------------------------------------------------------------------
(* A save: its requests, answered or not.                                   *)

Saving == {"writing", "assigning", "returning", "saved"}

\* While a draft is saved, each key and setting is as found or as wanted.
LEMMA EitherWay ==
  ASSUME DraftInv, profileDraft.at \in Saving
  PROVE  /\ profileDraft.id # NoProfile =>
              \A k \in ApiKeys \ others : KeyFound(k) \/ KeyWanted(k)
         /\ profileDraft.id \in made =>
              \A s \in Settings : << profileDraft.id, s >> \notin others =>
                SettingFound(s) \/ SettingWanted(s)
<1>1. profileDraft.id # NoProfile =>
        \A k \in ApiKeys \ others : KeyFound(k) \/ KeyWanted(k)
  BY DEF Saving, DraftInv, StageInv, KeysInv, KeyFound, KeyWanted, Added, Removed
<1>2. profileDraft.id \in made =>
        \A s \in Settings : << profileDraft.id, s >> \notin others =>
          SettingFound(s) \/ SettingWanted(s)
  BY DEF Saving, DraftInv, SettingsInv
<1> QED BY <1>1, <1>2

\* The draft after a request that failed.
LEMMA FailedDraft ==
  ASSUME DraftTypeOK, Failing
  PROVE  LET d == profileDraft  n == profileDraft'
         IN  /\ n \in Drafts /\ n.id = d.id /\ n.keys = d.keys /\ n.base = d.base
             /\ n.on = d.on /\ n.baseOn = d.baseOn /\ n.listed = d.listed /\ n.add = d.add
             /\ n.drop = d.drop /\ touched' = touched
             /\ n.at \in IF d.id = NoProfile THEN {"editing", "closed"} ELSE {"reloading"}
<1>1. PICK at \in IF profileDraft.id = NoProfile THEN {"editing", "closed"} ELSE {"reloading"} :
        profileDraft' = Placed(profileDraft, at)
  BY DEF Failing, Become, Placed
<1>2. profileDraft \in Drafts /\ at \in Stages
  BY DEF DraftTypeOK, Stages
<1> QED BY <1>1, <1>2, PlacedDraft DEF Failing

\* A failed request leaves each key and setting as found or as wanted, and the draft
\* waits to be rebased.
LEMMA FailedKeeps ==
  ASSUME DraftInv, Failing, profileDraft.at \in Saving, others' = others,
         made' \subseteq AllProfiles, Default \in made',
         owner' \in [ApiKeys -> AllProfiles \cup {NoProfile}],
         \A k \in ApiKeys : owner'[k] \in made' \cup {NoProfile},
         switched' \in [AllProfiles -> SUBSET Settings],
         profileDraft.id # NoProfile => \A k \in ApiKeys \ others :
           \/ owner'[k] = profileDraft.id <=> k \in profileDraft.base
           \/ owner'[k] = profileDraft.id <=> k \in profileDraft.keys,
         profileDraft.id \in made' => \A s \in Settings : << profileDraft.id, s >> \notin others =>
           \/ s \in switched'[profileDraft.id] <=> s \in profileDraft.baseOn
           \/ s \in switched'[profileDraft.id] <=> s \in profileDraft.on
  PROVE  DraftInv'
<1> DEFINE d == profileDraft
<1> USE DEF DraftInv
<1>1. /\ profileDraft' \in Drafts /\ profileDraft'.id = d.id /\ profileDraft'.keys = d.keys
      /\ profileDraft'.base = d.base /\ profileDraft'.on = d.on /\ profileDraft'.baseOn = d.baseOn
      /\ profileDraft'.listed = d.listed /\ touched' = touched
      /\ profileDraft'.at \in IF d.id = NoProfile THEN {"editing", "closed"} ELSE {"reloading"}
  BY FailedDraft
<1>2. d.at # "closed"
  BY DEF Saving
<1>3. DraftTypeOK'
  BY <1>1 DEF DraftTypeOK
<1>4. StageInv'
  BY <1>1 DEF StageInv, Removed, DraftTypeOK
<1>5. WantedInv'
  BY <1>1, <1>2 DEF WantedInv
<1>6. KeysInv'
  BY <1>1 DEF KeysInv, KeyFound, KeyWanted
<1>7. SettingsInv'
  <2>1. NoProfile \notin made'
    BY DEF AllProfiles
  <2> QED BY <1>1, <2>1 DEF SettingsInv, SettingFound, SettingWanted
<1> QED BY <1>3, <1>4, <1>5, <1>6, <1>7

\* A request that fails unheard changes nothing on the server.
LEMMA RequestFailsKeeps == ASSUME DraftInv, RequestFails PROVE DraftInv'
<1>1. /\ profileDraft.at \in Saving /\ Failing
      /\ UNCHANGED << owner, switched, made, others >>
  BY DEF RequestFails, Unanswered, Saving, server, outside
<1>2. DraftTypeOK
  BY DEF DraftInv
<1> QED BY <1>1, <1>2, EitherWay, FailedKeeps
        DEF DraftTypeOK, KeyFound, KeyWanted, SettingFound, SettingWanted

\* A request that is refused changes nothing on the server.
LEMMA RefusedKeeps == ASSUME DraftInv, Refused PROVE DraftInv'
<1>1. /\ profileDraft.at \in Saving /\ Failing
      /\ UNCHANGED << owner, switched, made, others >>
  BY DEF Refused, At, Saving, server, outside
<1>2. DraftTypeOK
  BY DEF DraftInv
<1> QED BY <1>1, <1>2, EitherWay, FailedKeeps
        DEF DraftTypeOK, KeyFound, KeyWanted, SettingFound, SettingWanted

\* A save begins with the first request that has something to do.
LEMMA SaveFacts ==
  ASSUME DraftTypeOK, Save
  PROVE  LET d == profileDraft  n == profileDraft'
         IN  /\ d.at = "editing" /\ n \in Drafts /\ n.id = d.id /\ n.keys = d.keys
             /\ n.base = d.base /\ n.on = d.on /\ n.baseOn = d.baseOn /\ n.listed = d.listed
             /\ n.add = Added(d) /\ n.drop = Removed(d)
             /\ n.at = IF d.id = NoProfile \/ EditedSettings(d) # {} THEN "writing"
                       ELSE IF Added(d) # {} THEN "assigning"
                       ELSE IF Removed(d) # {} THEN "returning" ELSE "saved"
             /\ UNCHANGED << owner, switched, made, touched, others >>
<1> DEFINE d == profileDraft
           ready == Prepared(d, Added(d), Removed(d))
           at == IF d.id = NoProfile \/ EditedSettings(d) # {} THEN "writing" ELSE Then(ready)
<1>1. /\ d.at = "editing" /\ profileDraft' = Placed(ready, at)
      /\ UNCHANGED << server, touched, outside, failures >>
  BY Zenon DEF Save, At, Become, Prepared, Placed
<1>2. d \in Drafts /\ Added(d) \in SUBSET ApiKeys /\ Removed(d) \in SUBSET ApiKeys
  BY DraftFields DEF DraftTypeOK, Added, Removed
<1>3. /\ ready \in Drafts /\ ready.id = d.id /\ ready.keys = d.keys /\ ready.base = d.base
      /\ ready.on = d.on /\ ready.baseOn = d.baseOn /\ ready.listed = d.listed
      /\ ready.add = Added(d) /\ ready.drop = Removed(d)
  BY <1>2, PreparedDraft
<1>4. at = IF d.id = NoProfile \/ EditedSettings(d) # {} THEN "writing"
           ELSE IF Added(d) # {} THEN "assigning" ELSE IF Removed(d) # {} THEN "returning" ELSE "saved"
  <2> HIDE DEF ready
  <2> QED BY <1>3 DEF Then
<1>5. at \in Stages
  BY <1>4 DEF Stages
<1> HIDE DEF ready, at
<1>6. /\ profileDraft' \in Drafts /\ profileDraft'.at = at /\ profileDraft'.id = d.id
      /\ profileDraft'.keys = d.keys /\ profileDraft'.base = d.base /\ profileDraft'.on = d.on
      /\ profileDraft'.baseOn = d.baseOn /\ profileDraft'.listed = d.listed
      /\ profileDraft'.add = Added(d) /\ profileDraft'.drop = Removed(d)
  BY <1>1, <1>3, <1>5, PlacedDraft
<1> QED BY <1>1, <1>4, <1>6 DEF server, outside

\* A save that sends no settings has none that differ from the server's.
LEMMA SaveKeeps == ASSUME DraftInv, Save PROVE DraftInv'
<1> DEFINE d == profileDraft
<1> USE DEF DraftInv
<1>1. /\ d.at = "editing" /\ profileDraft' \in Drafts /\ profileDraft'.id = d.id
      /\ profileDraft'.keys = d.keys /\ profileDraft'.base = d.base /\ profileDraft'.on = d.on
      /\ profileDraft'.baseOn = d.baseOn /\ profileDraft'.listed = d.listed
      /\ profileDraft'.add = Added(d) /\ profileDraft'.drop = Removed(d)
      /\ profileDraft'.at = IF d.id = NoProfile \/ EditedSettings(d) # {} THEN "writing"
                            ELSE IF Added(d) # {} THEN "assigning"
                            ELSE IF Removed(d) # {} THEN "returning" ELSE "saved"
      /\ UNCHANGED << owner, switched, made, touched, others >>
  BY SaveFacts
<1>2. DraftTypeOK'
  BY <1>1 DEF DraftTypeOK
<1>3. StageInv'
  BY <1>1 DEF StageInv, Added, Removed
<1>4. WantedInv'
  BY <1>1 DEF WantedInv
<1>5. KeysInv'
  BY <1>1 DEF KeysInv, KeyFound, KeyWanted, Added, Removed
<1>6. SettingsInv'
  <2>1. EditedSettings(d) = {} => \A s \in Settings : s \in d.on <=> s \in d.baseOn
    BY DEF EditedSettings
  <2> QED BY <1>1, <2>1 DEF SettingsInv, SettingFound, SettingWanted
<1> QED BY <1>2, <1>3, <1>4, <1>5, <1>6

\* A key that has been moved is not to be moved again.
LEMMA AddLess ==
  ASSUME NEW d \in Drafts, NEW k
  PROVE  [d EXCEPT !.add = @ \ {k}] = Prepared(d, d.add \ {k}, d.drop)
<1>1. ASSUME NEW n, n = [d EXCEPT !.add = d.add \ {k}]
      PROVE  n = [at |-> d.at, id |-> d.id, keys |-> d.keys, base |-> d.base, on |-> d.on,
                  baseOn |-> d.baseOn, listed |-> d.listed, add |-> d.add \ {k}, drop |-> d.drop]
  BY <1>1, Zenon DEF Drafts
<1> QED BY <1>1, PreparedRecord, ZenonT(40)

\* A draft with a key less to go back.
LEMMA DropLess ==
  ASSUME NEW d \in Drafts, NEW k
  PROVE  [d EXCEPT !.drop = @ \ {k}] = Prepared(d, d.add, d.drop \ {k})
<1>1. ASSUME NEW n, n = [d EXCEPT !.drop = d.drop \ {k}]
      PROVE  n = [at |-> d.at, id |-> d.id, keys |-> d.keys, base |-> d.base, on |-> d.on,
                  baseOn |-> d.baseOn, listed |-> d.listed, add |-> d.add, drop |-> d.drop \ {k}]
  BY <1>1, Zenon DEF Drafts
<1> QED BY <1>1, PreparedRecord, ZenonT(40)

\* A key joins a profile: all others stay.
LEMMA MoveFacts ==
  ASSUME DraftTypeOK, NEW k \in ApiKeys, NEW p \in made, MoveKeys({k}, p)
  PROVE  /\ owner' \in [ApiKeys -> AllProfiles \cup {NoProfile}]
         /\ \A j \in ApiKeys : owner'[j] = IF j = k THEN p ELSE owner[j]
         /\ UNCHANGED << switched, made, gone, others >>
         /\ made \subseteq AllProfiles /\ Default \in made
         /\ \A j \in ApiKeys : owner'[j] \in made \cup {NoProfile}
BY DEF DraftTypeOK, MoveKeys, outside

\* A draft with a key less to move.
LEMMA LessToMove ==
  ASSUME DraftTypeOK, NEW add \in SUBSET ApiKeys, NEW drop \in SUBSET ApiKeys,
         NEW d, d = Prepared(profileDraft, add, drop), Answered(d)
  PROVE  LET n == profileDraft'
         IN  /\ n \in Drafts /\ n.id = profileDraft.id /\ n.keys = profileDraft.keys
             /\ n.base = profileDraft.base /\ n.on = profileDraft.on
             /\ n.baseOn = profileDraft.baseOn /\ n.listed = profileDraft.listed
             /\ n.add = add /\ n.drop = drop /\ touched' = touched
             /\ n.at = IF add # {} THEN "assigning" ELSE IF drop # {} THEN "returning" ELSE "saved"
<1>1. profileDraft \in Drafts
  BY DEF DraftTypeOK
<1>2. /\ d \in Drafts /\ d.id = profileDraft.id /\ d.keys = profileDraft.keys
      /\ d.base = profileDraft.base /\ d.on = profileDraft.on /\ d.baseOn = profileDraft.baseOn
      /\ d.listed = profileDraft.listed /\ d.add = add /\ d.drop = drop
  BY <1>1, PreparedDraft
<1>3. Then(d) = IF add # {} THEN "assigning" ELSE IF drop # {} THEN "returning" ELSE "saved"
  BY <1>2 DEF Then
<1>4. Then(d) \in Stages /\ profileDraft' = Placed(d, Then(d)) /\ touched' = touched
  BY <1>3, Zenon DEF Stages, Answered, Become, Placed
<1> QED BY <1>2, <1>3, <1>4, PlacedDraft

\* A key that joins is as wanted from then on.
LEMMA AssignKeysKeeps == ASSUME DraftInv, AssignKeys PROVE DraftInv'
<1> DEFINE d == profileDraft
<1> USE DEF DraftInv
<1>1. PICK k \in d.add :
        /\ MoveKeys({k}, d.id)
        /\ Answered([d EXCEPT !.add = @ \ {k}]) \/ Unanswered
  BY Zenon DEF AssignKeys
<1>2. d.at = "assigning" /\ d.id \in made /\ d \in Drafts
  BY DEF AssignKeys, At, DraftTypeOK
<1>3. k \in ApiKeys /\ k \in d.keys /\ k \notin d.base /\ d.id # NoProfile
      /\ d.add \subseteq ApiKeys /\ d.drop \subseteq ApiKeys
  BY <1>1, <1>2, DraftFields DEF StageInv, Added, DraftTypeOK, AllProfiles
<1>4. /\ owner' \in [ApiKeys -> AllProfiles \cup {NoProfile}]
      /\ \A j \in ApiKeys : owner'[j] = IF j = k THEN d.id ELSE owner[j]
      /\ UNCHANGED << switched, made, gone, others >>
      /\ made \subseteq AllProfiles /\ Default \in made
      /\ \A j \in ApiKeys : owner'[j] \in made \cup {NoProfile}
  BY <1>1, <1>2, <1>3, MoveFacts
<1>5. CASE Answered([d EXCEPT !.add = @ \ {k}])
  <2> DEFINE add == d.add \ {k}
  <2>1. PICK n : n = Prepared(d, add, d.drop) /\ Answered(n)
    BY <1>2, <1>3, <1>5, AddLess, Zenon
  <2>2. /\ profileDraft' \in Drafts /\ profileDraft'.id = d.id /\ profileDraft'.keys = d.keys
        /\ profileDraft'.base = d.base /\ profileDraft'.on = d.on
        /\ profileDraft'.baseOn = d.baseOn /\ profileDraft'.listed = d.listed
        /\ profileDraft'.add = add /\ profileDraft'.drop = d.drop /\ touched' = touched
        /\ profileDraft'.at = IF add # {} THEN "assigning"
                              ELSE IF d.drop # {} THEN "returning" ELSE "saved"
    BY <1>3, <2>1, LessToMove
  <2>3. DraftTypeOK'
    BY <1>4, <2>2 DEF DraftTypeOK
  <2>4. StageInv'
    BY <1>2, <2>2 DEF StageInv, Added, Removed
  <2>5. WantedInv'
    BY <1>2, <1>4, <2>2 DEF WantedInv
  <2>6. KeysInv'
    BY <1>2, <1>3, <1>4, <2>2 DEF KeysInv, KeyWanted
  <2>7. SettingsInv'
    BY <1>2, <1>4, <2>2 DEF SettingsInv, SettingWanted
  <2> QED BY <2>3, <2>4, <2>5, <2>6, <2>7
<1>6. CASE Unanswered
  <2>1. Failing /\ d.at \in Saving
    BY <1>2, <1>6 DEF Unanswered, Saving
  <2>2. \A j \in ApiKeys \ others :
           \/ owner'[j] = d.id <=> j \in d.base
           \/ owner'[j] = d.id <=> j \in d.keys
    BY <1>3, <1>4, <2>1, EitherWay DEF KeyFound, KeyWanted
  <2>3. \A s \in Settings : << d.id, s >> \notin others =>
           \/ s \in switched'[d.id] <=> s \in d.baseOn
           \/ s \in switched'[d.id] <=> s \in d.on
    BY <1>2, <1>4, <2>1, EitherWay DEF SettingFound, SettingWanted
  <2> QED BY <1>4, <2>1, <2>2, <2>3, FailedKeeps DEF DraftTypeOK
<1> QED BY <1>1, <1>5, <1>6

\* A key that goes back is as wanted from then on: it is not the default profile's draft.
LEMMA ReturnKeysKeeps == ASSUME DraftInv, ReturnKeys PROVE DraftInv'
<1> DEFINE d == profileDraft
<1> USE DEF DraftInv
<1>1. PICK k \in d.drop :
        /\ MoveKeys({k}, Default)
        /\ Answered([d EXCEPT !.drop = @ \ {k}]) \/ Unanswered
  BY Zenon DEF ReturnKeys
<1>2. d.at = "returning" /\ Default \in made /\ d \in Drafts
  BY DEF ReturnKeys, At, DraftTypeOK
<1>3. k \in ApiKeys /\ k \notin d.keys /\ k \in d.base /\ d.id # NoProfile /\ d.id # Default
      /\ d.add = {} /\ d.drop \subseteq ApiKeys
  BY <1>1, <1>2, DraftFields DEF StageInv, Removed
<1>4. /\ owner' \in [ApiKeys -> AllProfiles \cup {NoProfile}]
      /\ \A j \in ApiKeys : owner'[j] = IF j = k THEN Default ELSE owner[j]
      /\ UNCHANGED << switched, made, gone, others >>
      /\ made \subseteq AllProfiles /\ Default \in made
      /\ \A j \in ApiKeys : owner'[j] \in made \cup {NoProfile}
  BY <1>1, <1>2, <1>3, MoveFacts
<1>5. CASE Answered([d EXCEPT !.drop = @ \ {k}])
  <2> DEFINE drop == d.drop \ {k}
  <2>1. PICK n : n = Prepared(d, {}, drop) /\ Answered(n)
    BY <1>2, <1>3, <1>5, DropLess, Zenon
  <2>2. /\ profileDraft' \in Drafts /\ profileDraft'.id = d.id /\ profileDraft'.keys = d.keys
        /\ profileDraft'.base = d.base /\ profileDraft'.on = d.on
        /\ profileDraft'.baseOn = d.baseOn /\ profileDraft'.listed = d.listed
        /\ profileDraft'.add = {} /\ profileDraft'.drop = drop /\ touched' = touched
        /\ profileDraft'.at = IF drop # {} THEN "returning" ELSE "saved"
    BY <1>3, <2>1, LessToMove
  <2>3. DraftTypeOK'
    BY <1>4, <2>2 DEF DraftTypeOK
  <2>4. StageInv'
    BY <1>2, <2>2 DEF StageInv, Added, Removed
  <2>5. WantedInv'
    BY <1>2, <1>4, <2>2 DEF WantedInv
  <2>6. KeysInv'
    BY <1>2, <1>3, <1>4, <2>2 DEF KeysInv, KeyWanted
  <2>7. SettingsInv'
    BY <1>2, <1>4, <2>2 DEF SettingsInv, SettingWanted
  <2> QED BY <2>3, <2>4, <2>5, <2>6, <2>7
<1>6. CASE Unanswered
  <2>1. Failing /\ d.at \in Saving
    BY <1>2, <1>6 DEF Unanswered, Saving
  <2>2. \A j \in ApiKeys \ others :
           \/ owner'[j] = d.id <=> j \in d.base
           \/ owner'[j] = d.id <=> j \in d.keys
    BY <1>3, <1>4, <2>1, EitherWay DEF KeyFound, KeyWanted
  <2>3. d.id \in made => \A s \in Settings : << d.id, s >> \notin others =>
           \/ s \in switched'[d.id] <=> s \in d.baseOn
           \/ s \in switched'[d.id] <=> s \in d.on
    BY <1>4, <2>1, EitherWay DEF SettingFound, SettingWanted
  <2> QED BY <1>4, <2>1, <2>2, <2>3, FailedKeeps DEF DraftTypeOK
<1> QED BY <1>1, <1>5, <1>6

\* The settings of a profile, with those a draft changed, are as wanted.
LEMMA PatchFacts ==
  ASSUME DraftInv, Patch(profileDraft), profileDraft.at = "writing"
  PROVE  LET d == profileDraft
         IN  /\ d.id \in made /\ switched' \in [AllProfiles -> SUBSET Settings]
             /\ \A s \in Settings : << d.id, s >> \notin others =>
                  (s \in switched'[d.id] <=> s \in d.on)
             /\ UNCHANGED << owner, made, gone, others >>
<1> DEFINE d == profileDraft
           on == Patched(d, switched[d.id])
<1>1. /\ d.id \in made /\ switched' = [switched EXCEPT ![d.id] = on]
      /\ UNCHANGED << owner, made, gone, others >>
  BY DEF Patch, outside
<1>2. d \in Drafts /\ d.id \in AllProfiles /\ switched \in [AllProfiles -> SUBSET Settings]
  BY <1>1 DEF DraftInv, DraftTypeOK
<1>3. on \subseteq Settings /\ on = (switched[d.id] \ EditedSettings(d)) \cup (d.on \cap EditedSettings(d))
  BY <1>2, DraftFields DEF Patched
<1>4. \A s \in Settings : << d.id, s >> \notin others => (s \in on <=> s \in d.on)
  <2>1. \A s \in Settings : << d.id, s >> \notin others =>
          (s \in switched[d.id] <=> s \in d.baseOn)
    BY <1>1 DEF DraftInv, SettingsInv, SettingFound
  <2> QED BY <1>3, <2>1 DEF EditedSettings
<1> HIDE DEF on
<1>5. switched' \in [AllProfiles -> SUBSET Settings] /\ switched'[d.id] = on
  BY <1>1, <1>2, <1>3
<1> QED BY <1>1, <1>4, <1>5

\* The answer to the request with the settings brings the draft to its keys.
LEMMA WrittenKeeps ==
  ASSUME DraftInv, profileDraft.at = "writing", NEW n \in Drafts,
         n.keys = profileDraft.keys, n.base = profileDraft.base, n.on = profileDraft.on,
         n.baseOn = profileDraft.baseOn, n.listed = profileDraft.listed,
         n.add = profileDraft.add, n.drop = profileDraft.drop,
         n.id \in made', n.id = profileDraft.id \/ profileDraft.id = NoProfile,
         Answered(n), UNCHANGED << owner, others >>,
         made' \subseteq AllProfiles, Default \in made', made \subseteq made',
         switched' \in [AllProfiles -> SUBSET Settings],
         profileDraft.id = NoProfile => \A k \in ApiKeys : owner[k] # n.id,
         profileDraft.id = NoProfile => n.id # Default,
         \A s \in Settings : << n.id, s >> \notin others =>
           (s \in switched'[n.id] <=> s \in n.on)
  PROVE  DraftInv'
<1> DEFINE d == profileDraft
<1> USE DEF DraftInv
<1>1. Then(n) = IF d.add # {} THEN "assigning" ELSE IF d.drop # {} THEN "returning" ELSE "saved"
  BY DEF Then
<1>2. Then(n) \in Stages /\ profileDraft' = Placed(n, Then(n)) /\ touched' = touched
  BY <1>1 DEF Stages, Answered, Become, Placed
<1>3. /\ profileDraft' \in Drafts /\ profileDraft'.id = n.id /\ profileDraft'.keys = d.keys
      /\ profileDraft'.base = d.base /\ profileDraft'.on = d.on
      /\ profileDraft'.baseOn = d.baseOn /\ profileDraft'.listed = d.listed
      /\ profileDraft'.add = d.add /\ profileDraft'.drop = d.drop
      /\ profileDraft'.at = IF d.add # {} THEN "assigning"
                            ELSE IF d.drop # {} THEN "returning" ELSE "saved"
  <2>1. /\ profileDraft' \in Drafts /\ profileDraft'.at = Then(n) /\ profileDraft'.id = n.id
        /\ profileDraft'.keys = n.keys /\ profileDraft'.base = n.base
        /\ profileDraft'.on = n.on /\ profileDraft'.baseOn = n.baseOn
        /\ profileDraft'.listed = n.listed /\ profileDraft'.add = n.add
        /\ profileDraft'.drop = n.drop
    BY <1>2, PlacedDraft
  <2> QED BY <1>1, <2>1
<1>4. n.id # NoProfile
  BY DEF AllProfiles
<1>5. DraftTypeOK'
  BY <1>2, <1>3 DEF DraftTypeOK
<1>6. StageInv'
  BY <1>2, <1>3, <1>4 DEF StageInv, Added, Removed
<1>7. WantedInv'
  BY <1>2, <1>3, <1>4, ZenonT(40) DEF WantedInv
<1>8. KeysInv'
  <2>1. \A k \in ApiKeys \ others : owner[k] = n.id <=> k \in d.base
    BY <1>4 DEF KeysInv, KeyFound, StageInv
  <2>2. d.add = Added(d) /\ d.drop = Removed(d)
    BY DEF StageInv
  <2> QED BY <1>3, <2>1, <2>2 DEF KeysInv, KeyWanted, Added, Removed
<1>9. SettingsInv'
  BY <1>3 DEF SettingsInv, SettingWanted
<1> QED BY <1>5, <1>6, <1>7, <1>8, <1>9

\* The settings are sent for a profile there is, or with a new one.
LEMMA WriteSettingsKeeps == ASSUME DraftInv, WriteSettings PROVE DraftInv'
<1> DEFINE d == profileDraft
<1>1. d.at = "writing" /\ d \in Drafts /\ d.at \in Saving /\ DraftTypeOK
  BY DEF WriteSettings, At, DraftInv, DraftTypeOK, Saving
<1>2. CASE d.id # NoProfile
  <2>1. Patch(d) /\ (Answered(d) \/ Unanswered)
    BY <1>2, Zenon DEF WriteSettings
  <2>2. /\ d.id \in made /\ switched' \in [AllProfiles -> SUBSET Settings]
        /\ \A s \in Settings : << d.id, s >> \notin others => (s \in switched'[d.id] <=> s \in d.on)
        /\ UNCHANGED << owner, made, gone, others >>
    BY <1>1, <2>1, PatchFacts
  <2>3. CASE Answered(d)
    BY <1>1, <1>2, <2>2, <2>3, WrittenKeeps DEF DraftTypeOK
  <2>4. CASE Unanswered
    <3>1. Failing
      BY <2>4 DEF Unanswered
    <3>2. \A j \in ApiKeys \ others :
             \/ owner[j] = d.id <=> j \in d.base
             \/ owner[j] = d.id <=> j \in d.keys
      BY <1>1, <1>2, EitherWay DEF KeyFound, KeyWanted
    <3> QED BY <1>1, <2>2, <3>1, <3>2, FailedKeeps DEF DraftTypeOK
  <2> QED BY <2>1, <2>3, <2>4
<1>3. CASE d.id = NoProfile
  <2>1. PICK p \in Strategies :
          Create(d, p) /\ (Answered([d EXCEPT !.id = p]) \/ Unanswered)
    BY <1>3, Zenon DEF WriteSettings
  <2>2. /\ p \notin made \cup gone /\ made' = made \cup {p}
        /\ switched' = [switched EXCEPT ![p] = d.on] /\ UNCHANGED << owner, gone, others >>
    BY <2>1 DEF Create, outside
  <2>3. /\ switched' \in [AllProfiles -> SUBSET Settings] /\ switched'[p] = d.on
        /\ made' \subseteq AllProfiles /\ Default \in made'
        /\ p # NoProfile /\ p # Default /\ p \in AllProfiles
        /\ \A k \in ApiKeys : owner[k] # p /\ owner'[k] \in made' \cup {NoProfile}
    BY <1>1, <2>2, DraftFields DEF DraftTypeOK, AllProfiles
  <2>4. CASE Answered([d EXCEPT !.id = p])
    <3>1. PICK n : n = [d EXCEPT !.id = p] /\ Answered(n)
      BY <2>4
    <3>2. n = [at |-> d.at, id |-> p, keys |-> d.keys, base |-> d.base, on |-> d.on,
               baseOn |-> d.baseOn, listed |-> d.listed, add |-> d.add, drop |-> d.drop]
      BY <1>1, <3>1, Zenon DEF Drafts
    <3>3. /\ n \in Drafts /\ n.id = p /\ n.keys = d.keys /\ n.base = d.base /\ n.on = d.on
          /\ n.baseOn = d.baseOn /\ n.listed = d.listed /\ n.add = d.add /\ n.drop = d.drop
      BY <1>1, <2>3, <3>2, DraftFields, SMT DEF Drafts
    <3>4. /\ n.id \in made' /\ made \subseteq made' /\ UNCHANGED << owner, others >>
          /\ \A k \in ApiKeys : owner[k] # n.id
          /\ n.id # Default /\ \A s \in Settings : s \in switched'[n.id] <=> s \in n.on
      BY <2>2, <2>3, <3>3
    <3> QED BY <1>1, <1>3, <2>3, <3>1, <3>3, <3>4, WrittenKeeps DEF DraftInv
  <2>5. CASE Unanswered
    <3>1. Failing
      BY <2>5 DEF Unanswered
    <3>2. d.id \notin made'
      BY <1>3, <2>3 DEF AllProfiles
    <3> QED BY <1>1, <1>3, <2>2, <2>3, <3>1, <3>2, FailedKeeps DEF DraftTypeOK
  <2> QED BY <2>1, <2>4, <2>5
<1> QED BY <1>2, <1>3

\* A closed draft says nothing.
LEMMA ClosedKeeps ==
  ASSUME DraftInv, profileDraft' = Closed, touched' = touched,
         made' \subseteq AllProfiles, Default \in made',
         owner' \in [ApiKeys -> AllProfiles \cup {NoProfile}],
         \A k \in ApiKeys : owner'[k] \in made' \cup {NoProfile},
         switched' \in [AllProfiles -> SUBSET Settings]
  PROVE  DraftInv'
<1>1. DraftTypeOK'
  BY ClosedFacts DEF DraftInv, DraftTypeOK
<1>2. StageInv' /\ WantedInv' /\ KeysInv'
  BY ClosedFacts DEF StageInv, WantedInv, KeysInv, Removed
<1>3. SettingsInv'
  BY ClosedFacts DEF SettingsInv, AllProfiles
<1> QED BY <1>1, <1>2, <1>3 DEF DraftInv

\* A draft rebased on the server.
RebasedKeys(d) == (Assigned(d.id) \cup Added(d)) \ Removed(d)
RebasedOn(d)   == (switched[d.id] \ EditedSettings(d)) \cup (d.on \cap EditedSettings(d))

\* What a rebase does to the draft.
LEMMA ReloadFacts ==
  ASSUME DraftTypeOK, Reload
  PROVE  LET d == profileDraft  n == profileDraft'
         IN  /\ d.at = "reloading" /\ UNCHANGED << owner, switched, made, touched, others >>
             /\ \/ n = Closed
                \/ /\ d.id \in made /\ n \in Drafts /\ n.at = "editing" /\ n.id = d.id
                   /\ n.keys = RebasedKeys(d) /\ n.base = Assigned(d.id)
                   /\ n.on = RebasedOn(d) /\ n.baseOn = switched[d.id]
                   /\ n.listed = d.listed /\ n.add = d.add /\ n.drop = d.drop
<1> DEFINE d == profileDraft
<1>1. /\ d.at = "reloading" /\ d \in Drafts
      /\ UNCHANGED << owner, switched, made, touched, others >>
  BY DEF Reload, At, server, outside, DraftTypeOK
<1>2. ASSUME d.id \in made,
             profileDraft' = [Rebase(d, Assigned(d.id), switched[d.id]) EXCEPT !.at = "editing"]
      PROVE  /\ profileDraft' \in Drafts /\ profileDraft'.at = "editing" /\ profileDraft'.id = d.id
             /\ profileDraft'.keys = RebasedKeys(d) /\ profileDraft'.base = Assigned(d.id)
             /\ profileDraft'.on = RebasedOn(d) /\ profileDraft'.baseOn = switched[d.id]
             /\ profileDraft'.listed = d.listed /\ profileDraft'.add = d.add
             /\ profileDraft'.drop = d.drop
  <2> DEFINE b == Based(d, RebasedKeys(d), Assigned(d.id), RebasedOn(d), switched[d.id])
  <2>1. /\ RebasedKeys(d) \subseteq ApiKeys /\ RebasedOn(d) \subseteq Settings
        /\ Assigned(d.id) \subseteq ApiKeys /\ switched[d.id] \subseteq Settings
    BY <1>1, <1>2, DraftFields DEF Assigned, Added, Removed, DraftTypeOK, RebasedKeys, RebasedOn
  <2>2. profileDraft' = Placed(b, "editing")
    BY <1>2, Zenon DEF Placed, Based, Rebase, RebasedKeys, RebasedOn
  <2>3. /\ b \in Drafts /\ b.id = d.id /\ b.keys = RebasedKeys(d) /\ b.base = Assigned(d.id)
        /\ b.on = RebasedOn(d) /\ b.baseOn = switched[d.id] /\ b.listed = d.listed
        /\ b.add = d.add /\ b.drop = d.drop
    BY <1>1, <2>1, BasedDraft
  <2>4. "editing" \in Stages
    BY DEF Stages
  <2> HIDE DEF b
  <2> QED BY <2>2, <2>3, <2>4, PlacedDraft
<1>3. \/ d.id \in made
         /\ profileDraft' = [Rebase(d, Assigned(d.id), switched[d.id]) EXCEPT !.at = "editing"]
      \/ profileDraft' = Closed
  BY Zenon DEF Reload, Become
<1> QED BY <1>1, <1>2, <1>3

\* It has what it wanted, but where others have interfered.
LEMMA ReloadKeeps == ASSUME DraftInv, Reload PROVE DraftInv'
<1> DEFINE d == profileDraft
           keys == RebasedKeys(d)
           on == RebasedOn(d)
<1>1. /\ d.at = "reloading" /\ d \in Drafts /\ DraftTypeOK
      /\ UNCHANGED << owner, switched, made, touched, others >>
  BY ReloadFacts DEF DraftInv, DraftTypeOK
<1>2. CASE profileDraft' = Closed
  BY <1>1, <1>2, ClosedKeeps DEF DraftTypeOK
<1>3. CASE profileDraft' # Closed
  <2>1. /\ d.id \in made /\ profileDraft' \in Drafts /\ profileDraft'.at = "editing"
        /\ profileDraft'.id = d.id
        /\ profileDraft'.keys = keys /\ profileDraft'.base = Assigned(d.id)
        /\ profileDraft'.on = on /\ profileDraft'.baseOn = switched[d.id]
        /\ profileDraft'.listed = d.listed
    BY <1>1, <1>3, ReloadFacts
  <2> HIDE DEF keys, on
  <2>2. d.id # NoProfile
    BY <1>1, <2>1 DEF DraftTypeOK, AllProfiles
  <2>3. \A k \in ApiKeys \ others : k \in keys <=> k \in d.keys
    <3>1. \A k \in ApiKeys \ others : KeyFound(k) \/ KeyWanted(k)
      BY <1>1, <2>2 DEF DraftInv, KeysInv
    <3>2. \A k \in ApiKeys : k \in Assigned(d.id) <=> owner[k] = d.id
      BY DEF Assigned
    <3> QED BY <3>1, <3>2 DEF KeyFound, KeyWanted, Added, Removed, keys, RebasedKeys
  <2>4. \A s \in Settings : << d.id, s >> \notin others => (s \in on <=> s \in d.on)
    <3>1. \A s \in Settings : << d.id, s >> \notin others => SettingFound(s) \/ SettingWanted(s)
      BY <1>1, <2>1 DEF DraftInv, SettingsInv
    <3> QED BY <3>1 DEF SettingFound, SettingWanted, EditedSettings, on, RebasedOn
  <2>5. DraftTypeOK'
    BY <1>1, <2>1 DEF DraftTypeOK
  <2>6. StageInv'
    <3>1. d.id = Default => Removed(d) = {}
      BY DEF DraftInv, StageInv
    <3>2. d.id = Default => Assigned(d.id) \subseteq keys
      BY <3>1 DEF keys, RebasedKeys
    <3> QED BY <2>1, <2>2, <3>2 DEF StageInv, Removed
  <2>7. WantedInv'
    BY <1>1, <2>1, <2>2, <2>3, <2>4 DEF DraftInv, WantedInv
  <2>8. KeysInv'
    BY <1>1, <2>1 DEF KeysInv, KeyFound, Assigned
  <2>9. SettingsInv'
    BY <1>1, <2>1 DEF SettingsInv, SettingFound
  <2> QED BY <2>5, <2>6, <2>7, <2>8, <2>9 DEF DraftInv
<1> QED BY <1>2, <1>3

\* The end of a save, of a draft, or of its profile.
LEMMA SavedKeeps == ASSUME DraftInv, Saved PROVE DraftInv'
<1>1. /\ profileDraft.at \in Saving /\ UNCHANGED << owner, switched, made, others >>
      /\ (profileDraft' = Closed /\ touched' = touched) \/ Failing
  BY DEF Saved, At, Become, Saving, Unanswered, server, outside
<1>2. DraftTypeOK
  BY DEF DraftInv
<1>3. CASE Failing
  BY <1>1, <1>2, <1>3, EitherWay, FailedKeeps
     DEF DraftTypeOK, KeyFound, KeyWanted, SettingFound, SettingWanted
<1>4. CASE profileDraft' = Closed /\ touched' = touched
  BY <1>1, <1>2, <1>4, ClosedKeeps DEF DraftTypeOK
<1> QED BY <1>1, <1>3, <1>4

\* A draft that is left promises nothing.
LEMMA BackKeeps == ASSUME DraftInv, Back PROVE DraftInv'
BY ClosedKeeps DEF Back, Become, server, DraftInv, DraftTypeOK

\* A profile that is deleted is owner of nothing.
LEMMA DeletedFacts ==
  ASSUME DraftTypeOK, NEW p \in made \ {Default}, Deleted(p), owner' = Returned(p)
  PROVE  /\ made' \subseteq AllProfiles /\ Default \in made' /\ p \notin made' /\ made' \subseteq made
         /\ owner' \in [ApiKeys -> AllProfiles \cup {NoProfile}]
         /\ \A k \in ApiKeys : owner'[k] \in made' \cup {NoProfile}
         /\ \A k \in ApiKeys \ Assigned(p) : owner'[k] = owner[k]
         /\ switched' \in [AllProfiles -> SUBSET Settings]
         /\ \A q \in AllProfiles \ {p} : switched'[q] = switched[q]
BY DEF DraftTypeOK, Deleted, Returned, AllProfiles, Assigned

\* A draft whose profile is deleted promises nothing.
LEMMA DeleteKeeps == ASSUME DraftInv, Delete PROVE DraftInv'
<1>1. /\ profileDraft.id \in made \ {Default} /\ Deleted(profileDraft.id)
      /\ owner' = Returned(profileDraft.id) /\ profileDraft' = Closed /\ touched' = touched
  BY DEF Delete, Become
<1>2. DraftTypeOK
  BY DEF DraftInv
<1> HIDE DEF DraftInv
<1> QED BY <1>1, <1>2, DeletedFacts, ClosedKeeps

-----------------------------------------------------------------------------
(* Other commands.                                                          *)

\* What others change is no longer promised, and what they leave alone is as it was.
LEMMA ElsewhereKeeps ==
  ASSUME DraftInv, UNCHANGED << profileDraft, touched >>, others \subseteq others',
         made' \subseteq made, Default \in made',
         owner' \in [ApiKeys -> AllProfiles \cup {NoProfile}],
         \A k \in ApiKeys : owner'[k] \in made' \cup {NoProfile},
         \A k \in ApiKeys \ others' : owner'[k] = owner[k],
         switched' \in [AllProfiles -> SUBSET Settings],
         \A p \in made', s \in Settings :
           << p, s >> \notin others' => (s \in switched'[p] <=> s \in switched[p])
  PROVE  DraftInv'
<1> USE DEF DraftInv
<1>1. DraftTypeOK'
  BY DEF DraftTypeOK
<1>2. StageInv'
  BY DEF StageInv, Removed, Added
<1>3. WantedInv'
  BY DEF WantedInv
<1>4. KeysInv'
  <2>1. \A k \in ApiKeys \ others' : k \in ApiKeys \ others /\ owner'[k] = owner[k]
    OBVIOUS
  <2> QED BY <2>1 DEF KeysInv, KeyFound, KeyWanted
<1>5. SettingsInv'
  BY DEF SettingsInv, SettingFound, SettingWanted
<1> QED BY <1>1, <1>2, <1>3, <1>4, <1>5

\* A key moved elsewhere is no longer promised.
LEMMA MoveElsewhereKeeps == ASSUME DraftInv, MoveElsewhere PROVE DraftInv'
<1>1. PICK k \in ApiKeys, p \in made :
        /\ others' = others \cup {k} /\ owner' = [owner EXCEPT ![k] = p]
        /\ UNCHANGED << profileDraft, touched, switched, made >>
  BY DEF MoveElsewhere, Elsewhere
<1>2. /\ owner' \in [ApiKeys -> AllProfiles \cup {NoProfile}]
      /\ \A j \in ApiKeys : owner'[j] = IF j = k THEN p ELSE owner[j]
      /\ \A j \in ApiKeys : owner'[j] \in made \cup {NoProfile}
  BY <1>1 DEF DraftInv, DraftTypeOK
<1> QED BY <1>1, <1>2, ElsewhereKeeps DEF DraftInv, DraftTypeOK

\* A key made elsewhere is no longer promised.
LEMMA MakeKeyKeeps == ASSUME DraftInv, MakeKey PROVE DraftInv'
<1>1. PICK k \in ApiKeys, p \in made :
        /\ others' = others \cup {k} /\ owner' = [owner EXCEPT ![k] = p]
        /\ UNCHANGED << profileDraft, touched, switched, made >>
  BY DEF MakeKey, Elsewhere
<1>2. /\ owner' \in [ApiKeys -> AllProfiles \cup {NoProfile}]
      /\ \A j \in ApiKeys : owner'[j] = IF j = k THEN p ELSE owner[j]
      /\ \A j \in ApiKeys : owner'[j] \in made \cup {NoProfile}
  BY <1>1 DEF DraftInv, DraftTypeOK
<1> QED BY <1>1, <1>2, ElsewhereKeeps DEF DraftInv, DraftTypeOK

\* A setting switched elsewhere is no longer promised.
LEMMA SwitchElsewhereKeeps == ASSUME DraftInv, SwitchElsewhere PROVE DraftInv'
<1>1. PICK p \in made, s \in Settings :
        /\ others' = others \cup {<< p, s >>}
        /\ switched' = [switched EXCEPT ![p] =
                          IF s \in switched[p] THEN switched[p] \ {s} ELSE switched[p] \cup {s}]
        /\ UNCHANGED << profileDraft, touched, owner, made >>
  BY Zenon DEF SwitchElsewhere, Elsewhere
<1> DEFINE on == IF s \in switched[p] THEN switched[p] \ {s} ELSE switched[p] \cup {s}
<1>2. p \in AllProfiles /\ switched \in [AllProfiles -> SUBSET Settings] /\ made \subseteq AllProfiles
  BY DEF DraftInv, DraftTypeOK
<1>3. on \subseteq Settings /\ \A x \in Settings \ {s} : x \in on <=> x \in switched[p]
  BY <1>2
<1> HIDE DEF on
<1>4. switched' \in [AllProfiles -> SUBSET Settings]
      /\ \A q \in AllProfiles : switched'[q] = IF q = p THEN on ELSE switched[q]
  BY <1>1, <1>2, <1>3 DEF on
<1>5. \A q \in made, x \in Settings :
        << q, x >> \notin others' => (x \in switched'[q] <=> x \in switched[q])
  BY <1>1, <1>2, <1>3, <1>4
<1> QED BY <1>1, <1>4, <1>5, ElsewhereKeeps DEF DraftInv, DraftTypeOK

\* The keys and settings of a profile deleted elsewhere are no longer promised.
LEMMA DeleteElsewhereKeeps == ASSUME DraftInv, DeleteElsewhere PROVE DraftInv'
<1>1. PICK p \in made \ {Default} :
        /\ others' = others \cup Assigned(p) /\ Deleted(p) /\ owner' = Returned(p)
        /\ UNCHANGED << profileDraft, touched >>
  BY DEF DeleteElsewhere, Elsewhere
<1>2. DraftTypeOK /\ made \subseteq AllProfiles
  BY DEF DraftInv, DraftTypeOK
<1>3. /\ made' \subseteq AllProfiles /\ Default \in made' /\ p \notin made' /\ made' \subseteq made
      /\ owner' \in [ApiKeys -> AllProfiles \cup {NoProfile}]
      /\ \A k \in ApiKeys : owner'[k] \in made' \cup {NoProfile}
      /\ \A k \in ApiKeys \ Assigned(p) : owner'[k] = owner[k]
      /\ switched' \in [AllProfiles -> SUBSET Settings]
      /\ \A q \in AllProfiles \ {p} : switched'[q] = switched[q]
  BY <1>1, <1>2, DeletedFacts
<1>4. \A q \in made', s \in Settings : s \in switched'[q] <=> s \in switched[q]
  BY <1>2, <1>3
<1> QED BY <1>1, <1>3, <1>4, ElsewhereKeeps

-----------------------------------------------------------------------------
(* The theorems.                                                            *)

\* Before the first draft nothing is promised.
LEMMA DraftInitially == ASSUME DraftInit PROVE DraftInv
<1>1. /\ profileDraft = Closed /\ DOMAIN touched = {} /\ made \subseteq AllProfiles
      /\ Default \in made /\ owner \in [ApiKeys -> made \cup {NoProfile}]
      /\ switched = [p \in AllProfiles |-> {}]
  BY DEF DraftInit, AllProfiles
<1>2. DraftTypeOK
  BY <1>1, ClosedFacts DEF DraftTypeOK
<1>3. StageInv /\ WantedInv /\ KeysInv
  BY <1>1, ClosedFacts DEF StageInv, WantedInv, KeysInv, Removed
<1>4. SettingsInv
  BY <1>1, ClosedFacts DEF SettingsInv, AllProfiles
<1> QED BY <1>2, <1>3, <1>4 DEF DraftInv

\* Editing a profile keeps DraftInv: a key or setting is on the server as the draft found
\* it or as it wants it, and the draft wants what its user does.
THEOREM EditorInductive == DraftSpec => []DraftInv
<1>1. DraftInit => DraftInv
  BY DraftInitially
<1>2. DraftInv /\ [DraftNext]_draftVars => DraftInv'
  <2> SUFFICES ASSUME DraftInv, [DraftNext]_draftVars PROVE DraftInv'
    OBVIOUS
  <2>1. CASE UNCHANGED draftVars
    <3>1. UNCHANGED << profileDraft, touched, others, made, owner, switched >>
      BY <2>1 DEF draftVars, server, outside
    <3> QED BY <3>1, ElsewhereKeeps DEF DraftInv, DraftTypeOK
  <2>2. CASE Open \/ ListKeys \/ PickKeys \/ SetSetting \/ Save
    BY <2>2, OpenKeeps, ListKeysKeeps, PickKeysKeeps, SetSettingKeeps, SaveKeeps
  <2>3. CASE WriteSettings \/ AssignKeys \/ ReturnKeys \/ RequestFails \/ Refused
    BY <2>3, WriteSettingsKeeps, AssignKeysKeeps, ReturnKeysKeeps, RequestFailsKeeps, RefusedKeeps
  <2>4. CASE Reload \/ Saved \/ Delete \/ Back
    BY <2>4, ReloadKeeps, SavedKeeps, DeleteKeeps, BackKeeps
  <2>5. CASE MoveElsewhere \/ SwitchElsewhere \/ DeleteElsewhere \/ MakeKey
    BY <2>5, MoveElsewhereKeeps, SwitchElsewhereKeeps, DeleteElsewhereKeeps, MakeKeyKeeps
  <2> QED BY <2>1, <2>2, <2>3, <2>4, <2>5 DEF DraftNext
<1> QED BY <1>1, <1>2, PTL DEF DraftSpec

\* Once a save has gone through, the server has every edit of the user, however many
\* requests failed before or after the server acted (save_draft, ProfileDraft.rebase).
THEOREM SavedEditsLand == DraftSpec => []EditsLand
<1>1. DraftInv => EditsLand
  <2> SUFFICES ASSUME DraftInv, profileDraft.at = "saved", profileDraft.id \in made
               PROVE  /\ \A k \in ApiKeys \cap DOMAIN touched :
                           k \in others \/ (owner[k] = profileDraft.id <=> touched[k])
                      /\ \A s \in Settings \cap DOMAIN touched :
                           \/ << profileDraft.id, s >> \in others
                           \/ s \in switched[profileDraft.id] <=> touched[s]
    BY DEF EditsLand, At
  <2>1. profileDraft.id # NoProfile /\ profileDraft.add = {} /\ profileDraft.drop = {}
    BY DEF DraftInv, StageInv
  <2>2. \A k \in ApiKeys \ others : KeyWanted(k)
    BY <2>1 DEF DraftInv, KeysInv
  <2>3. \A s \in Settings : << profileDraft.id, s >> \notin others => SettingWanted(s)
    BY DEF DraftInv, SettingsInv
  <2> QED BY <2>2, <2>3 DEF DraftInv, WantedInv, KeyWanted, SettingWanted
<1> QED BY <1>1, EditorInductive, PTL

-----------------------------------------------------------------------------
(* Keys the user did not touch, when no key is made after the list of keys.  *)

\* A step on a draft that has been listed, which moves keys there are and leaves no more
\* to be moved than the user has touched.
LEMMA ListedKept ==
  ASSUME ListedInv, profileDraft.at \notin {"closed", "opened"},
         KnownKeys' = KnownKeys, profileDraft'.listed = profileDraft.listed,
         DOMAIN touched \subseteq DOMAIN touched',
         profileDraft'.base \cup profileDraft'.keys \subseteq KnownKeys,
         Added(profileDraft)' \subseteq DOMAIN touched',
         Removed(profileDraft)' \subseteq DOMAIN touched',
         profileDraft'.add \subseteq DOMAIN touched', profileDraft'.drop \subseteq DOMAIN touched'
  PROVE  ListedInv'
BY DEF ListedInv

\* The same draft, at another place.
LEMMA ListedStays ==
  ASSUME ListedInv, profileDraft.at \notin {"closed", "opened"},
         KnownKeys' = KnownKeys, touched' = touched,
         profileDraft'.listed = profileDraft.listed, profileDraft'.keys = profileDraft.keys,
         profileDraft'.base = profileDraft.base, profileDraft'.add \subseteq profileDraft.add,
         profileDraft'.drop \subseteq profileDraft.drop
  PROVE  ListedInv'
BY DEF ListedInv, Added, Removed

\* A closed draft has no keys to move.
LEMMA ListedClosed == ASSUME profileDraft' = Closed PROVE ListedInv'
BY ClosedFacts DEF ListedInv, Added, Removed

\* The keys there are depend on their owners alone.
LEMMA SameKeys == ASSUME owner' = owner PROVE KnownKeys' = KnownKeys
BY DEF KnownKeys

\* A request that failed, whether or not a key has moved.
LEMMA ListedFailed ==
  ASSUME DraftInv, ListedInv, Failing, profileDraft.at \in Saving, KnownKeys' = KnownKeys
  PROVE  ListedInv'
<1>1. /\ profileDraft'.listed = profileDraft.listed /\ profileDraft'.keys = profileDraft.keys
      /\ profileDraft'.base = profileDraft.base /\ profileDraft'.add = profileDraft.add
      /\ profileDraft'.drop = profileDraft.drop /\ touched' = touched
  BY FailedDraft DEF DraftInv
<1> QED BY <1>1, ListedStays DEF Saving

\* A draft that is opened has no edits.
LEMMA OpenLists == ASSUME DraftInv, ListedInv, Open PROVE ListedInv'
<1>1. /\ profileDraft'.at = "opened" /\ profileDraft'.keys = profileDraft'.base
      /\ profileDraft'.add = {} /\ profileDraft'.drop = {} /\ owner' = owner
      /\ \/ profileDraft'.id \in made /\ profileDraft'.base = Assigned(profileDraft'.id)
         \/ profileDraft'.base = {}
  BY OpenFacts DEF DraftInv
<1>2. NoProfile \notin made
  BY DEF DraftInv, DraftTypeOK, AllProfiles
<1>3. profileDraft'.base \subseteq KnownKeys
  BY <1>1, <1>2 DEF Assigned, KnownKeys
<1> QED BY <1>1, <1>3, SameKeys DEF ListedInv, Added, Removed

\* The list of keys is of all keys there are.
LEMMA ListKeysLists == ASSUME DraftInv, ListedInv, ListKeys PROVE ListedInv'
<1>1. /\ profileDraft'.keys = profileDraft.keys /\ profileDraft'.base = profileDraft.base
      /\ profileDraft'.add = profileDraft.add /\ profileDraft'.drop = profileDraft.drop
      /\ profileDraft'.listed = KnownKeys
  BY ListKeysFacts DEF DraftInv
<1>2. touched' = touched /\ owner' = owner
  BY DEF ListKeys, server
<1> QED BY <1>1, <1>2, SameKeys DEF ListedInv, Added, Removed

\* The keys of the draft were listed, so that confirming the list drops only those toggled.
LEMMA PickKeysLists == ASSUME DraftInv, ListedInv, PickKeys PROVE ListedInv'
<1> DEFINE d == profileDraft
<1>1. PICK flip \in SUBSET (d.listed \cap ApiKeys) :
        /\ d.at = "editing" /\ profileDraft'.keys = Confirmed(d, flip)
        /\ profileDraft'.base = d.base /\ profileDraft'.listed = d.listed
        /\ profileDraft'.add = d.add /\ profileDraft'.drop = d.drop
        /\ DOMAIN touched' = DOMAIN touched \cup flip /\ owner' = owner
  BY PickKeysFacts DEF DraftInv
<1>2. d.listed = KnownKeys /\ d.keys \subseteq d.listed /\ d.base \subseteq d.listed
  BY <1>1 DEF ListedInv
<1>3. /\ Confirmed(d, flip) \subseteq KnownKeys
      /\ Confirmed(d, flip) \ d.base \subseteq Added(d) \cup flip
      /\ d.base \ Confirmed(d, flip) \subseteq Removed(d) \cup flip
  BY <1>2 DEF Confirmed, Added, Removed
<1>4. Added(d) \cup Removed(d) \cup d.add \cup d.drop \subseteq DOMAIN touched
  BY DEF ListedInv
<1> QED BY <1>1, <1>2, <1>3, <1>4, SameKeys, ListedKept DEF Added, Removed

\* A setting moves no key.
LEMMA SetSettingLists == ASSUME DraftInv, ListedInv, SetSetting PROVE ListedInv'
<1> DEFINE d == profileDraft
<1>1. PICK moved \in SUBSET Settings :
        /\ d.at = "editing" /\ profileDraft'.keys = d.keys
        /\ profileDraft'.base = d.base /\ profileDraft'.listed = d.listed
        /\ profileDraft'.add = d.add /\ profileDraft'.drop = d.drop
        /\ DOMAIN touched' = DOMAIN touched \cup moved /\ owner' = owner
  BY SetSettingFacts DEF DraftInv
<1> QED BY <1>1, SameKeys, ListedKept DEF ListedInv, Added, Removed

\* A save is to move the keys the draft adds and removes, which were touched.
LEMMA SaveLists == ASSUME DraftInv, ListedInv, Save PROVE ListedInv'
<1> DEFINE d == profileDraft
<1>1. /\ d.at = "editing" /\ profileDraft'.keys = d.keys
      /\ profileDraft'.base = d.base /\ profileDraft'.listed = d.listed
      /\ profileDraft'.add = Added(d) /\ profileDraft'.drop = Removed(d)
      /\ touched' = touched /\ owner' = owner
  BY SaveFacts DEF DraftInv
<1> QED BY <1>1, SameKeys, ListedKept DEF ListedInv, Added, Removed

\* The settings are sent: no key moves.
LEMMA WriteSettingsLists == ASSUME DraftInv, ListedInv, WriteSettings PROVE ListedInv'
<1> DEFINE d == profileDraft
<1>1. d.at = "writing" /\ d.at \in Saving /\ d \in Drafts
  BY DEF WriteSettings, At, Saving, DraftInv, DraftTypeOK
<1>2. owner' = owner
  BY Zenon DEF WriteSettings, Create, Patch
<1>3. ASSUME NEW n \in Drafts, Answered(n), n.keys = d.keys, n.base = d.base, n.listed = d.listed,
             n.add = d.add, n.drop = d.drop
      PROVE  ListedInv'
  <2>1. Then(n) \in Stages /\ profileDraft' = Placed(n, Then(n)) /\ touched' = touched
    BY <1>3 DEF Then, Stages, Answered, Become, Placed
  <2>2. /\ profileDraft'.listed = d.listed /\ profileDraft'.keys = d.keys
        /\ profileDraft'.base = d.base /\ profileDraft'.add = d.add /\ profileDraft'.drop = d.drop
    BY <1>3, <2>1, PlacedDraft
  <2> QED BY <1>1, <1>2, <2>1, <2>2, SameKeys, ListedStays
<1>4. CASE Unanswered
  BY <1>1, <1>2, <1>4, SameKeys, ListedFailed DEF Unanswered
<1>5. CASE Answered(d)
  BY <1>1, <1>3, <1>5
<1>6. ASSUME NEW p \in Strategies, Answered([d EXCEPT !.id = p])
      PROVE  ListedInv'
  <2>1. PICK n : n = [d EXCEPT !.id = p] /\ Answered(n)
    BY <1>6
  <2>2. n = [at |-> d.at, id |-> p, keys |-> d.keys, base |-> d.base, on |-> d.on,
             baseOn |-> d.baseOn, listed |-> d.listed, add |-> d.add, drop |-> d.drop]
    BY <1>1, <2>1, Zenon DEF Drafts
  <2>3. /\ n \in Drafts /\ n.keys = d.keys /\ n.base = d.base
        /\ n.listed = d.listed /\ n.add = d.add /\ n.drop = d.drop
    BY <1>1, <2>2, DraftFields, SMT DEF Drafts, AllProfiles
  <2> QED BY <1>3, <2>1, <2>3
<1> QED BY <1>4, <1>5, <1>6, Zenon DEF WriteSettings

\* A key that is moved was listed, and is in another profile.
LEMMA AssignKeysLists == ASSUME DraftInv, ListedInv, AssignKeys PROVE ListedInv'
<1> DEFINE d == profileDraft
<1>1. PICK k \in d.add :
        MoveKeys({k}, d.id) /\ (Answered([d EXCEPT !.add = @ \ {k}]) \/ Unanswered)
  BY Zenon DEF AssignKeys
<1>2. d.at = "assigning" /\ d.id \in made /\ d \in Drafts /\ d.at \in Saving /\ DraftTypeOK
  BY DEF AssignKeys, At, DraftInv, DraftTypeOK, Saving
<1>3. k \in d.keys /\ k \in ApiKeys /\ d.add \subseteq ApiKeys /\ d.drop \subseteq ApiKeys
      /\ d.id # NoProfile
  BY <1>1, <1>2, DraftFields DEF DraftInv, StageInv, Added, DraftTypeOK, AllProfiles
<1>4. KnownKeys' = KnownKeys
  <2>1. \A j \in ApiKeys : owner'[j] = IF j = k THEN d.id ELSE owner[j]
    BY <1>1, <1>2, <1>3, MoveFacts
  <2>2. k \in KnownKeys
    BY <1>3 DEF ListedInv
  <2> QED BY <1>3, <2>1, <2>2 DEF KnownKeys
<1>5. CASE Answered([d EXCEPT !.add = @ \ {k}])
  <2>1. PICK n : n = Prepared(d, d.add \ {k}, d.drop) /\ Answered(n)
    BY <1>2, <1>5, AddLess, Zenon
  <2>2. /\ profileDraft'.listed = d.listed /\ profileDraft'.keys = d.keys
        /\ profileDraft'.base = d.base /\ profileDraft'.add = d.add \ {k}
        /\ profileDraft'.drop = d.drop /\ touched' = touched
    BY <1>2, <1>3, <2>1, LessToMove
  <2> QED BY <1>2, <1>4, <2>2, ListedStays
<1>6. CASE Unanswered
  BY <1>2, <1>4, <1>6, ListedFailed DEF Unanswered
<1> QED BY <1>1, <1>5, <1>6

\* A key that goes back was listed, and is in the draft's profile or another.
LEMMA ReturnKeysLists == ASSUME DraftInv, ListedInv, ReturnKeys PROVE ListedInv'
<1> DEFINE d == profileDraft
<1>1. PICK k \in d.drop :
        MoveKeys({k}, Default) /\ (Answered([d EXCEPT !.drop = @ \ {k}]) \/ Unanswered)
  BY Zenon DEF ReturnKeys
<1>2. d.at = "returning" /\ Default \in made /\ d \in Drafts /\ d.at \in Saving /\ DraftTypeOK
  BY DEF ReturnKeys, At, DraftInv, DraftTypeOK, Saving
<1>3. k \in d.base /\ k \in ApiKeys /\ d.add \subseteq ApiKeys /\ d.drop \subseteq ApiKeys
  BY <1>1, <1>2, DraftFields DEF DraftInv, StageInv, Removed
<1>4. KnownKeys' = KnownKeys
  <2>1. \A j \in ApiKeys : owner'[j] = IF j = k THEN Default ELSE owner[j]
    BY <1>1, <1>2, <1>3, MoveFacts
  <2>2. k \in KnownKeys
    BY <1>3 DEF ListedInv
  <2> QED BY <1>3, <2>1, <2>2 DEF KnownKeys
<1>5. CASE Answered([d EXCEPT !.drop = @ \ {k}])
  <2>1. PICK n : n = Prepared(d, d.add, d.drop \ {k}) /\ Answered(n)
    BY <1>2, <1>5, DropLess, Zenon
  <2>2. /\ profileDraft'.listed = d.listed /\ profileDraft'.keys = d.keys
        /\ profileDraft'.base = d.base /\ profileDraft'.add = d.add
        /\ profileDraft'.drop = d.drop \ {k} /\ touched' = touched
    BY <1>2, <1>3, <2>1, LessToMove
  <2> QED BY <1>2, <1>4, <2>2, ListedStays
<1>6. CASE Unanswered
  BY <1>2, <1>4, <1>6, ListedFailed DEF Unanswered
<1> QED BY <1>1, <1>5, <1>6

\* A rebase adds no edit.
LEMMA ReloadLists == ASSUME DraftInv, ListedInv, Reload PROVE ListedInv'
<1> DEFINE d == profileDraft
<1>1. CASE profileDraft' = Closed
  BY <1>1, ListedClosed
<1>2. CASE profileDraft' # Closed
  <2>1. /\ d.at = "reloading" /\ UNCHANGED << owner, touched >> /\ d.id \in made
        /\ profileDraft'.keys = RebasedKeys(d) /\ profileDraft'.base = Assigned(d.id)
        /\ profileDraft'.listed = d.listed /\ profileDraft'.add = d.add
        /\ profileDraft'.drop = d.drop
    BY <1>2, ReloadFacts DEF DraftInv
  <2>2. Assigned(d.id) \subseteq KnownKeys
    BY <2>1 DEF Assigned, KnownKeys, DraftInv, DraftTypeOK, AllProfiles
  <2>3. Added(d) \subseteq KnownKeys
    BY DEF ListedInv, Added
  <2>4. /\ RebasedKeys(d) \ Assigned(d.id) \subseteq Added(d)
        /\ Assigned(d.id) \ RebasedKeys(d) \subseteq Removed(d)
        /\ RebasedKeys(d) \subseteq KnownKeys
    BY <2>2, <2>3 DEF RebasedKeys
  <2>5. Added(d) \cup Removed(d) \cup d.add \cup d.drop \subseteq DOMAIN touched
    BY DEF ListedInv
  <2> QED BY <2>1, <2>2, <2>4, <2>5, SameKeys, ListedKept DEF Added, Removed
<1> QED BY <1>1, <1>2

\* Other commands make no key that a list has missed.
LEMMA ElsewhereLists ==
  ASSUME DraftInv, ListedInv, ~Late,
         MoveElsewhere \/ SwitchElsewhere \/ DeleteElsewhere \/ MakeKey
  PROVE  ListedInv'
<1>1. UNCHANGED << profileDraft, touched >>
  BY Zenon DEF MoveElsewhere, SwitchElsewhere, DeleteElsewhere, MakeKey, Elsewhere
<1>2. DraftTypeOK /\ NoProfile \notin made /\ Default # NoProfile
  BY DEF DraftInv, DraftTypeOK, AllProfiles
<1>3. CASE MoveElsewhere
  <2>1. PICK k \in ApiKeys, p \in made :
          owner[k] # NoProfile /\ owner' = [owner EXCEPT ![k] = p]
    BY <1>3 DEF MoveElsewhere
  <2>2. KnownKeys' = KnownKeys
    BY <1>2, <2>1 DEF KnownKeys, DraftTypeOK
  <2> QED BY <1>1, <2>2 DEF ListedInv, Added, Removed
<1>4. CASE SwitchElsewhere
  <2>1. KnownKeys' = KnownKeys
    BY <1>4, SameKeys DEF SwitchElsewhere
  <2> QED BY <1>1, <2>1 DEF ListedInv, Added, Removed
<1>5. CASE DeleteElsewhere
  <2>1. PICK p \in made : owner' = Returned(p)
    BY <1>5 DEF DeleteElsewhere
  <2>2. KnownKeys' = KnownKeys
    BY <1>2, <2>1 DEF KnownKeys, Returned
  <2> QED BY <1>1, <2>2 DEF ListedInv, Added, Removed
<1>6. CASE MakeKey
  <2>1. PICK k \in ApiKeys, p \in made : owner' = [owner EXCEPT ![k] = p]
    BY <1>6 DEF MakeKey
  <2>2. KnownKeys \subseteq KnownKeys'
    BY <1>2, <2>1 DEF KnownKeys, DraftTypeOK
  <2>3. profileDraft.at \in {"closed", "opened"}
    BY <1>6 DEF MakeKey
  <2> QED BY <1>1, <2>2, <2>3 DEF ListedInv, Added, Removed
<1> QED BY <1>3, <1>4, <1>5, <1>6

\* A failed request leaves the edits as they are; all else here closes the draft.
LEMMA UnsentLists ==
  ASSUME DraftInv, ListedInv, RequestFails \/ Refused \/ Saved \/ Delete \/ Back
  PROVE  ListedInv'
<1>1. CASE profileDraft' = Closed
  BY <1>1, ListedClosed
<1>2. CASE profileDraft' # Closed
  <2>1. Failing /\ profileDraft.at \in Saving /\ owner' = owner
    BY <1>2, Zenon DEF RequestFails, Refused, Saved, Delete, Back, Unanswered, Become, At, Saving,
                server
  <2> QED BY <2>1, SameKeys, ListedFailed
<1> QED BY <1>1, <1>2

\* What a save moves is what the user touched, if the list of keys was complete.
THEOREM ListsInductive == ASSUME ~Late PROVE DraftSpec => []ListedInv
<1>1. DraftInit => ListedInv
  BY ClosedFacts DEF DraftInit, ListedInv, Added, Removed
<1>2. DraftInv /\ ListedInv /\ [DraftNext]_draftVars => ListedInv'
  <2> SUFFICES ASSUME DraftInv, ListedInv, [DraftNext]_draftVars PROVE ListedInv'
    OBVIOUS
  <2>1. CASE UNCHANGED draftVars
    BY <2>1, SameKeys DEF draftVars, server, ListedInv, Added, Removed
  <2>2. CASE Open \/ ListKeys \/ PickKeys \/ SetSetting \/ Save
    BY <2>2, OpenLists, ListKeysLists, PickKeysLists, SetSettingLists, SaveLists
  <2>3. CASE WriteSettings \/ AssignKeys \/ ReturnKeys \/ Reload
    BY <2>3, WriteSettingsLists, AssignKeysLists, ReturnKeysLists, ReloadLists
  <2>4. CASE RequestFails \/ Refused \/ Saved \/ Delete \/ Back
    BY <2>4, UnsentLists
  <2>5. CASE MoveElsewhere \/ SwitchElsewhere \/ DeleteElsewhere \/ MakeKey
    BY <2>5, ElsewhereLists
  <2> QED BY <2>1, <2>2, <2>3, <2>4, <2>5 DEF DraftNext
<1> QED BY <1>1, <1>2, EditorInductive, PTL DEF DraftSpec

\* Only other commands count among the changes, each once.
LEMMA ChangesCounted == DraftSpec => [](changes \in Nat)
<1>1. DraftInit => changes \in Nat
  BY DEF DraftInit
<1>2. changes \in Nat /\ [DraftNext]_draftVars => (changes \in Nat)'
  <2> SUFFICES ASSUME changes \in Nat, [DraftNext]_draftVars PROVE changes' \in Nat
    OBVIOUS
  <2>1. CASE changes' = changes
    BY <2>1
  <2>2. CASE changes' # changes
    <3>1. MoveElsewhere \/ SwitchElsewhere \/ DeleteElsewhere \/ MakeKey
      BY <2>2, Zenon DEF DraftNext, Open, ListKeys, PickKeys, SetSetting, Touch, Save, WriteSettings,
              Create, Patch, AssignKeys, ReturnKeys, MoveKeys, RequestFails, Refused, Reload, Saved,
              Delete, Back, draftVars, outside
    <3>2. changes' = changes + 1
      BY <3>1, Zenon DEF MoveElsewhere, SwitchElsewhere, DeleteElsewhere, MakeKey, Elsewhere
    <3> QED BY <3>2
  <2> QED BY <2>1, <2>2
<1> QED BY <1>1, <1>2, PTL DEF DraftSpec

\* A save moves no key its user did not touch, wherever other commands have moved it
\* (ProfileDraft.rebase); only deleting a profile takes its keys along.
THEOREM UntouchedKeysStay == ASSUME ~Late PROVE DraftSpec => UntouchedKeysStand
<1> DEFINE Step == changes' = changes =>
                     \A k \in ApiKeys : owner'[k] # owner[k] =>
                       k \in DOMAIN touched \/ owner[k] \in gone'
<1>1. DraftInv /\ ListedInv /\ changes \in Nat /\ [DraftNext]_draftVars => Step
  <2> SUFFICES ASSUME DraftInv, ListedInv, changes \in Nat, [DraftNext]_draftVars,
                      changes' = changes,
                      NEW k \in ApiKeys, owner'[k] # owner[k]
               PROVE  k \in DOMAIN touched \/ owner[k] \in gone'
    OBVIOUS
  <2>1. profileDraft.add \cup profileDraft.drop \subseteq DOMAIN touched
    BY DEF ListedInv
  <2>2. ~ (MoveElsewhere \/ SwitchElsewhere \/ DeleteElsewhere \/ MakeKey)
    <3>1. changes # changes + 1
      OBVIOUS
    <3> QED BY <3>1, Zenon DEF MoveElsewhere, SwitchElsewhere, DeleteElsewhere, MakeKey, Elsewhere
  <2>3. AssignKeys \/ ReturnKeys \/ Delete
    BY <2>2, Zenon DEF DraftNext, Open, ListKeys, PickKeys, SetSetting, Touch, Save, WriteSettings,
            Create, Patch, RequestFails, Refused, Reload, Saved, Back, draftVars, server
  <2>4. CASE AssignKeys
    <3>1. PICK j \in profileDraft.add : MoveKeys({j}, profileDraft.id)
      BY <2>4, Zenon DEF AssignKeys
    <3>2. k = j
      BY <3>1 DEF MoveKeys
    <3> QED BY <2>1, <3>2
  <2>5. CASE ReturnKeys
    <3>1. PICK j \in profileDraft.drop : MoveKeys({j}, Default)
      BY <2>5, Zenon DEF ReturnKeys
    <3>2. k = j
      BY <3>1 DEF MoveKeys
    <3> QED BY <2>1, <3>2
  <2>6. CASE Delete
    BY <2>6 DEF Delete, Deleted, Returned
  <2> QED BY <2>3, <2>4, <2>5, <2>6
<1> QED BY <1>1, EditorInductive, ListsInductive, ChangesCounted, PTL DEF DraftSpec, UntouchedKeysStand
=============================================================================
