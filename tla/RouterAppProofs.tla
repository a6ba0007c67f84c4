---------------------------- MODULE RouterAppProofs ----------------------------
(***************************************************************************)
(* The Router app, for any number of threads, reads and changes.           *)
(*                                                                         *)
(* The read cache.  ReadsAreFresh speaks of answers; it is inductive only  *)
(* together with what makes an answer fresh: what is kept is newer than    *)
(* the last invalidation (EntriesInv), the requests registered are those   *)
(* that are out (FlightsInv), the answer to one of the present generation  *)
(* is as fresh as any caller is owed (ValuesInv), and what a caller waits  *)
(* for is as fresh as it is owed (WaitersInv).                             *)
(*                                                                         *)
(* The screens over it.  One change runs at a time and no read of the      *)
(* present generation beside it (ChangersInv), so a read that may still be *)
(* shown was asked after the last change returned (LandedInv), and is owed *)
(* rows of the account it was started for or of a later one (AccountsInv). *)
(***************************************************************************)
EXTENDS RouterScreens, FiniteSetTheorems, TLAPS

\* The cache starts empty.
LEMMA InitHolds == CacheInit => CacheInv
BY NothingAssumption, SMT DEF CacheInit, CacheInv, CacheTypeOK, EntriesInv, FlightsInv, ValuesInv,
   WaitersInv, OneRequest, ReadStages

\* A caller is owed what the last invalidation left, and not more.
LEMMA AskKeeps == ASSUME CacheInv, NEW t \in Threads, NEW k \in Keys, Ask(t, k) PROVE CacheInv'
<1> USE DEF Ask, CacheInv, cacheVars, callVars, threadVars
<1>1. CacheTypeOK'
  BY NothingAssumption, WorldAssumption, SMT DEF CacheTypeOK, ReadStages, EntriesInv, FlightsInv, WaitersInv
<1>2. EntriesInv'
  BY NothingAssumption, SMT DEF CacheTypeOK, EntriesInv, ValuesInv, FlightsInv
<1>3. FlightsInv'
  BY NothingAssumption, SMT DEF CacheTypeOK, FlightsInv, WaitersInv
<1>4. ValuesInv'
  BY NothingAssumption, SMT DEF CacheTypeOK, EntriesInv, FlightsInv, ValuesInv, WaitersInv
<1>5. WaitersInv'
  BY NothingAssumption, SMT DEF CacheTypeOK, EntriesInv, FlightsInv, ValuesInv, WaitersInv
<1>6. OneRequest'
  BY SMT DEF CacheTypeOK, FlightsInv, OneRequest
<1>7. QED BY <1>1, <1>2, <1>3, <1>4, <1>5, <1>6

\* An entry is newer than the last invalidation.
LEMMA HitKeeps == ASSUME CacheInv, NEW t \in Threads, Hit(t) PROVE CacheInv'
<1> USE DEF Hit, CacheInv, cacheVars, callVars, threadVars
<1>1. CacheTypeOK'
  BY NothingAssumption, WorldAssumption, SMT DEF CacheTypeOK, ReadStages, EntriesInv, FlightsInv, WaitersInv
<1>2. EntriesInv'
  BY NothingAssumption, SMT DEF CacheTypeOK, EntriesInv, ValuesInv, FlightsInv
<1>3. FlightsInv'
  BY NothingAssumption, SMT DEF CacheTypeOK, FlightsInv, WaitersInv
<1>4. ValuesInv'
  BY NothingAssumption, SMT DEF CacheTypeOK, EntriesInv, FlightsInv, ValuesInv, WaitersInv
<1>5. WaitersInv'
  BY NothingAssumption, SMT DEF CacheTypeOK, EntriesInv, FlightsInv, ValuesInv, WaitersInv
<1>6. OneRequest'
  BY SMT DEF CacheTypeOK, FlightsInv, OneRequest
<1>7. QED BY <1>1, <1>2, <1>3, <1>4, <1>5, <1>6

\* A new request is the only one of its generation for its key.
LEMMA OwnKeeps == ASSUME CacheInv, NEW t \in Threads, Own(t) PROVE CacheInv'
<1> USE DEF Own, Joinable, CacheInv, cacheVars, callVars, threadVars
<1>1. CacheTypeOK'
  BY NothingAssumption, WorldAssumption, SMT DEF CacheTypeOK, ReadStages, EntriesInv, FlightsInv, WaitersInv
<1>2. EntriesInv'
  BY NothingAssumption, SMT DEF CacheTypeOK, EntriesInv, ValuesInv, FlightsInv
<1>3. FlightsInv'
  BY NothingAssumption, SMT DEF CacheTypeOK, FlightsInv, WaitersInv
<1>4. ValuesInv'
  BY NothingAssumption, SMT DEF CacheTypeOK, EntriesInv, FlightsInv, ValuesInv, WaitersInv
<1>5. WaitersInv'
  BY NothingAssumption, SMT DEF CacheTypeOK, EntriesInv, FlightsInv, ValuesInv, WaitersInv
<1>6. OneRequest'
  BY SMT DEF CacheTypeOK, FlightsInv, OneRequest
<1>7. QED BY <1>1, <1>2, <1>3, <1>4, <1>5, <1>6

\* The request joined is of this generation: what it will answer is fresh enough.
LEMMA JoinKeeps == ASSUME CacheInv, NEW t \in Threads, Join(t) PROVE CacheInv'
<1> USE DEF Join, Joinable, CacheInv, cacheVars, callVars, threadVars
<1>1. CacheTypeOK'
  BY NothingAssumption, WorldAssumption, SMT DEF CacheTypeOK, ReadStages, EntriesInv, FlightsInv, WaitersInv
<1>2. EntriesInv'
  BY NothingAssumption, SMT DEF CacheTypeOK, EntriesInv, ValuesInv, FlightsInv
<1>3. FlightsInv'
  BY NothingAssumption, SMT DEF CacheTypeOK, FlightsInv, WaitersInv
<1>4. ValuesInv'
  BY NothingAssumption, SMT DEF CacheTypeOK, EntriesInv, FlightsInv, ValuesInv, WaitersInv
<1>5. WaitersInv'
  BY NothingAssumption, SMT DEF CacheTypeOK, EntriesInv, FlightsInv, ValuesInv, WaitersInv
<1>6. OneRequest'
  BY SMT DEF CacheTypeOK, FlightsInv, OneRequest
<1>7. QED BY <1>1, <1>2, <1>3, <1>4, <1>5, <1>6

\* An answer is what Router holds now, which is all anyone is owed.
LEMMA FetchKeeps == ASSUME CacheInv, NEW t \in Threads, Fetch(t) PROVE CacheInv'
<1> USE DEF Fetch, CacheInv, cacheVars, callVars, threadVars
<1>1. CacheTypeOK'
  BY NothingAssumption, WorldAssumption, SMT DEF CacheTypeOK, ReadStages, EntriesInv, FlightsInv, WaitersInv
<1>2. EntriesInv'
  BY NothingAssumption, SMT DEF CacheTypeOK, EntriesInv, ValuesInv, FlightsInv
<1>3. FlightsInv'
  BY NothingAssumption, SMT DEF CacheTypeOK, FlightsInv, WaitersInv
<1>4. ValuesInv'
  BY NothingAssumption, SMT DEF CacheTypeOK, EntriesInv, FlightsInv, ValuesInv, WaitersInv
<1>5. WaitersInv'
  BY NothingAssumption, SMT DEF CacheTypeOK, EntriesInv, FlightsInv, ValuesInv, WaitersInv
<1>6. OneRequest'
  BY SMT DEF CacheTypeOK, FlightsInv, OneRequest
<1>7. QED BY <1>1, <1>2, <1>3, <1>4, <1>5, <1>6

\* What is kept comes from a request no invalidation overlapped.
LEMMA StoreKeeps == ASSUME CacheInv, NEW t \in Threads, StoreAnswer(t) PROVE CacheInv'
<1> USE DEF StoreAnswer, Pop, CacheInv, cacheVars, callVars, threadVars
<1>0. key[t] \in Keys
  BY SMT DEF CacheTypeOK, FlightsInv
<1>1. CacheTypeOK'
  <2>1. entries' \in [Keys -> Nat \cup {Nothing}]
    BY <1>0, SMT DEF CacheTypeOK
  <2>2. QED BY <2>1, SMT DEF CacheTypeOK, ReadStages
<1>2. EntriesInv'
  BY NothingAssumption, SMT DEF CacheTypeOK, EntriesInv, ValuesInv, FlightsInv
<1>3. FlightsInv'
  BY NothingAssumption, SMT DEF CacheTypeOK, FlightsInv, WaitersInv
<1>4. ValuesInv'
  BY NothingAssumption, SMT DEF CacheTypeOK, EntriesInv, FlightsInv, ValuesInv, WaitersInv
<1>5. WaitersInv'
  BY NothingAssumption, SMT DEF CacheTypeOK, EntriesInv, FlightsInv, ValuesInv, WaitersInv
<1>6. OneRequest'
  BY SMT DEF CacheTypeOK, FlightsInv, OneRequest
<1>7. QED BY <1>1, <1>2, <1>3, <1>4, <1>5, <1>6

\* A failed request leaves nothing behind.
LEMMA DropKeeps == ASSUME CacheInv, NEW t \in Threads, Drop(t) PROVE CacheInv'
<1> USE DEF Drop, Pop, CacheInv, cacheVars, callVars, threadVars
<1>1. CacheTypeOK'
  BY NothingAssumption, WorldAssumption, SMT DEF CacheTypeOK, ReadStages, EntriesInv, FlightsInv, WaitersInv
<1>2. EntriesInv'
  BY NothingAssumption, SMT DEF CacheTypeOK, EntriesInv, ValuesInv, FlightsInv
<1>3. FlightsInv'
  BY NothingAssumption, SMT DEF CacheTypeOK, FlightsInv, WaitersInv
<1>4. ValuesInv'
  BY NothingAssumption, SMT DEF CacheTypeOK, EntriesInv, FlightsInv, ValuesInv, WaitersInv
<1>5. WaitersInv'
  BY NothingAssumption, SMT DEF CacheTypeOK, EntriesInv, FlightsInv, ValuesInv, WaitersInv
<1>6. OneRequest'
  BY SMT DEF CacheTypeOK, FlightsInv, OneRequest
<1>7. QED BY <1>1, <1>2, <1>3, <1>4, <1>5, <1>6

\* Those who joined get an answer as fresh as they are owed.
LEMMA DeliverKeeps == ASSUME CacheInv, NEW t \in Threads, Deliver(t) PROVE CacheInv'
<1> USE DEF Deliver, WaitingFor, CacheInv, cacheVars, callVars, threadVars
<1>1. CacheTypeOK'
  BY NothingAssumption, WorldAssumption, SMT DEF CacheTypeOK, ReadStages, EntriesInv, FlightsInv, WaitersInv
<1>2. EntriesInv'
  BY NothingAssumption, SMT DEF CacheTypeOK, EntriesInv, ValuesInv, FlightsInv
<1>3. FlightsInv'
  BY NothingAssumption, SMT DEF CacheTypeOK, FlightsInv, WaitersInv
<1>4. ValuesInv'
  BY NothingAssumption, SMT DEF CacheTypeOK, EntriesInv, FlightsInv, ValuesInv, WaitersInv
<1>5. WaitersInv'
  BY NothingAssumption, SMT DEF CacheTypeOK, EntriesInv, FlightsInv, ValuesInv, WaitersInv
<1>6. OneRequest'
  BY SMT DEF CacheTypeOK, FlightsInv, OneRequest
<1>7. QED BY <1>1, <1>2, <1>3, <1>4, <1>5, <1>6

\* Those who joined get the failure.
LEMMA RaiseKeeps == ASSUME CacheInv, NEW t \in Threads, Raise(t) PROVE CacheInv'
<1> USE DEF Raise, WaitingFor, CacheInv, cacheVars, callVars, threadVars
<1>1. CacheTypeOK'
  BY NothingAssumption, WorldAssumption, SMT DEF CacheTypeOK, ReadStages, EntriesInv, FlightsInv, WaitersInv
<1>2. EntriesInv'
  BY NothingAssumption, SMT DEF CacheTypeOK, EntriesInv, ValuesInv, FlightsInv
<1>3. FlightsInv'
  BY NothingAssumption, SMT DEF CacheTypeOK, FlightsInv, WaitersInv
<1>4. ValuesInv'
  BY NothingAssumption, SMT DEF CacheTypeOK, EntriesInv, FlightsInv, ValuesInv, WaitersInv
<1>5. WaitersInv'
  BY NothingAssumption, SMT DEF CacheTypeOK, EntriesInv, FlightsInv, ValuesInv, WaitersInv
<1>6. OneRequest'
  BY SMT DEF CacheTypeOK, FlightsInv, OneRequest
<1>7. QED BY <1>1, <1>2, <1>3, <1>4, <1>5, <1>6

\* Nobody waits for a thread that has returned.
LEMMA ReturnKeeps == ASSUME CacheInv, NEW t \in Threads, Return(t) PROVE CacheInv'
<1> USE DEF Return, Forget, CacheInv, cacheVars, callVars, threadVars
<1>1. CacheTypeOK'
  BY NothingAssumption, WorldAssumption, SMT DEF CacheTypeOK, ReadStages, EntriesInv, FlightsInv, WaitersInv
<1>2. EntriesInv'
  BY NothingAssumption, SMT DEF CacheTypeOK, EntriesInv, ValuesInv, FlightsInv
<1>3. FlightsInv'
  BY NothingAssumption, SMT DEF CacheTypeOK, FlightsInv, WaitersInv
<1>4. ValuesInv'
  BY NothingAssumption, SMT DEF CacheTypeOK, EntriesInv, FlightsInv, ValuesInv, WaitersInv
<1>5. WaitersInv'
  BY NothingAssumption, SMT DEF CacheTypeOK, EntriesInv, FlightsInv, ValuesInv, WaitersInv
<1>6. OneRequest'
  BY SMT DEF CacheTypeOK, FlightsInv, OneRequest
<1>7. QED BY <1>1, <1>2, <1>3, <1>4, <1>5, <1>6

\* Expiry only forgets.
LEMMA ExpireKeeps == ASSUME CacheInv, NEW k \in Keys, Expire(k) PROVE CacheInv'
<1> USE DEF Expire, CacheInv, cacheVars, callVars, threadVars
<1>1. CacheTypeOK'
  BY NothingAssumption, WorldAssumption, SMT DEF CacheTypeOK, ReadStages, EntriesInv, FlightsInv, WaitersInv
<1>2. EntriesInv'
  BY NothingAssumption, SMT DEF CacheTypeOK, EntriesInv, ValuesInv, FlightsInv
<1>3. FlightsInv'
  BY NothingAssumption, SMT DEF CacheTypeOK, FlightsInv, WaitersInv
<1>4. ValuesInv'
  BY NothingAssumption, SMT DEF CacheTypeOK, EntriesInv, FlightsInv, ValuesInv, WaitersInv
<1>5. WaitersInv'
  BY NothingAssumption, SMT DEF CacheTypeOK, EntriesInv, FlightsInv, ValuesInv, WaitersInv
<1>6. OneRequest'
  BY SMT DEF CacheTypeOK, FlightsInv, OneRequest
<1>7. QED BY <1>1, <1>2, <1>3, <1>4, <1>5, <1>6

\* An invalidation empties the cache and outdates every request that is out.
LEMMA ReloadKeeps == ASSUME CacheInv, ReloadAll PROVE CacheInv'
<1> USE DEF ReloadAll, Invalidate, CacheInv, cacheVars, callVars, threadVars
<1>1. CacheTypeOK'
  BY NothingAssumption, WorldAssumption, SMT DEF CacheTypeOK, ReadStages, EntriesInv, FlightsInv, WaitersInv
<1>2. EntriesInv'
  BY NothingAssumption, SMT DEF CacheTypeOK, EntriesInv, ValuesInv, FlightsInv
<1>3. FlightsInv'
  BY NothingAssumption, SMT DEF CacheTypeOK, FlightsInv, WaitersInv
<1>4. ValuesInv'
  BY NothingAssumption, SMT DEF CacheTypeOK, EntriesInv, FlightsInv, ValuesInv, WaitersInv
<1>5. WaitersInv'
  BY NothingAssumption, SMT DEF CacheTypeOK, EntriesInv, FlightsInv, ValuesInv, WaitersInv
<1>6. OneRequest'
  BY SMT DEF CacheTypeOK, FlightsInv, OneRequest
<1>7. QED BY <1>1, <1>2, <1>3, <1>4, <1>5, <1>6

\* So does the invalidation that starts a change.
LEMMA BeginChangeKeeps == ASSUME CacheInv, NEW t \in Threads, BeginChange(t) PROVE CacheInv'
<1> USE DEF BeginChange, Invalidate, CacheInv, cacheVars, callVars, threadVars
<1>1. CacheTypeOK'
  BY NothingAssumption, WorldAssumption, SMT DEF CacheTypeOK, ReadStages, EntriesInv, FlightsInv, WaitersInv
<1>2. EntriesInv'
  BY NothingAssumption, SMT DEF CacheTypeOK, EntriesInv, ValuesInv, FlightsInv
<1>3. FlightsInv'
  BY NothingAssumption, SMT DEF CacheTypeOK, FlightsInv, WaitersInv
<1>4. ValuesInv'
  BY NothingAssumption, SMT DEF CacheTypeOK, EntriesInv, FlightsInv, ValuesInv, WaitersInv
<1>5. WaitersInv'
  BY NothingAssumption, SMT DEF CacheTypeOK, EntriesInv, FlightsInv, ValuesInv, WaitersInv
<1>6. OneRequest'
  BY SMT DEF CacheTypeOK, FlightsInv, OneRequest
<1>7. QED BY <1>1, <1>2, <1>3, <1>4, <1>5, <1>6

\* A change reads like any caller.
LEMMA ValidateKeeps == ASSUME CacheInv, NEW t \in Threads, NEW k \in Keys, Validate(t, k) PROVE CacheInv'
<1> USE DEF Validate, CacheInv, cacheVars, callVars, threadVars
<1>1. CacheTypeOK'
  BY NothingAssumption, WorldAssumption, SMT DEF CacheTypeOK, ReadStages, EntriesInv, FlightsInv, WaitersInv
<1>2. EntriesInv'
  BY NothingAssumption, SMT DEF CacheTypeOK, EntriesInv, ValuesInv, FlightsInv
<1>3. FlightsInv'
  BY NothingAssumption, SMT DEF CacheTypeOK, FlightsInv, WaitersInv
<1>4. ValuesInv'
  BY NothingAssumption, SMT DEF CacheTypeOK, EntriesInv, FlightsInv, ValuesInv, WaitersInv
<1>5. WaitersInv'
  BY NothingAssumption, SMT DEF CacheTypeOK, EntriesInv, FlightsInv, ValuesInv, WaitersInv
<1>6. OneRequest'
  BY SMT DEF CacheTypeOK, FlightsInv, OneRequest
<1>7. QED BY <1>1, <1>2, <1>3, <1>4, <1>5, <1>6

\* A change at Router only makes the world newer.
LEMMA WriteKeeps == ASSUME CacheInv, NEW t \in Threads, Write(t) PROVE CacheInv'
<1> USE DEF Write, CacheInv, cacheVars, callVars, threadVars
<1>1. CacheTypeOK'
  BY NothingAssumption, WorldAssumption, SMT DEF CacheTypeOK, ReadStages, EntriesInv, FlightsInv, WaitersInv
<1>2. EntriesInv'
  BY NothingAssumption, SMT DEF CacheTypeOK, EntriesInv, ValuesInv, FlightsInv
<1>3. FlightsInv'
  BY NothingAssumption, SMT DEF CacheTypeOK, FlightsInv, WaitersInv
<1>4. ValuesInv'
  BY NothingAssumption, SMT DEF CacheTypeOK, EntriesInv, FlightsInv, ValuesInv, WaitersInv
<1>5. WaitersInv'
  BY NothingAssumption, SMT DEF CacheTypeOK, EntriesInv, FlightsInv, ValuesInv, WaitersInv
<1>6. OneRequest'
  BY SMT DEF CacheTypeOK, FlightsInv, OneRequest
<1>7. QED BY <1>1, <1>2, <1>3, <1>4, <1>5, <1>6

\* And so does the invalidation that ends it.
LEMMA EndChangeKeeps == ASSUME CacheInv, NEW t \in Threads, EndChange(t) PROVE CacheInv'
<1> USE DEF EndChange, Invalidate, CacheInv, cacheVars, callVars, threadVars
<1>1. CacheTypeOK'
  BY NothingAssumption, WorldAssumption, SMT DEF CacheTypeOK, ReadStages, EntriesInv, FlightsInv, WaitersInv
<1>2. EntriesInv'
  BY NothingAssumption, SMT DEF CacheTypeOK, EntriesInv, ValuesInv, FlightsInv
<1>3. FlightsInv'
  BY NothingAssumption, SMT DEF CacheTypeOK, FlightsInv, WaitersInv
<1>4. ValuesInv'
  BY NothingAssumption, SMT DEF CacheTypeOK, EntriesInv, FlightsInv, ValuesInv, WaitersInv
<1>5. WaitersInv'
  BY NothingAssumption, SMT DEF CacheTypeOK, EntriesInv, FlightsInv, ValuesInv, WaitersInv
<1>6. OneRequest'
  BY SMT DEF CacheTypeOK, FlightsInv, OneRequest
<1>7. QED BY <1>1, <1>2, <1>3, <1>4, <1>5, <1>6

\* Changes from elsewhere make the world newer too.
LEMMA ElsewhereKeeps == ASSUME CacheInv, ChangedElsewhere PROVE CacheInv'
<1> USE DEF ChangedElsewhere, CacheInv, cacheVars, callVars, threadVars
<1>1. CacheTypeOK'
  BY NothingAssumption, WorldAssumption, SMT DEF CacheTypeOK, ReadStages, EntriesInv, FlightsInv, WaitersInv
<1>2. EntriesInv'
  BY NothingAssumption, SMT DEF CacheTypeOK, EntriesInv, ValuesInv, FlightsInv
<1>3. FlightsInv'
  BY NothingAssumption, SMT DEF CacheTypeOK, FlightsInv, WaitersInv
<1>4. ValuesInv'
  BY NothingAssumption, SMT DEF CacheTypeOK, EntriesInv, FlightsInv, ValuesInv, WaitersInv
<1>5. WaitersInv'
  BY NothingAssumption, SMT DEF CacheTypeOK, EntriesInv, FlightsInv, ValuesInv, WaitersInv
<1>6. OneRequest'
  BY SMT DEF CacheTypeOK, FlightsInv, OneRequest
<1>7. QED BY <1>1, <1>2, <1>3, <1>4, <1>5, <1>6

\* The invariant holds in every behaviour of the cache.
THEOREM Inductive == CacheSpec => []CacheInv
<1>1. CacheInv /\ [CacheNext]_readVars => CacheInv'
  <2> SUFFICES ASSUME CacheInv, [CacheNext]_readVars PROVE CacheInv'
    OBVIOUS
  <2>1. CASE CacheNext
    BY <2>1, AskKeeps, HitKeeps, OwnKeeps, JoinKeeps, FetchKeeps, StoreKeeps,
       DropKeeps, DeliverKeeps, RaiseKeeps, ReturnKeeps, ExpireKeeps, ReloadKeeps,
       BeginChangeKeeps, ValidateKeeps, WriteKeeps, EndChangeKeeps, ElsewhereKeeps
       DEF CacheNext, Step
  <2>2. CASE UNCHANGED readVars
    BY <2>2, SMT DEF readVars, cacheVars, callVars, threadVars, CacheInv, CacheTypeOK, EntriesInv,
       FlightsInv, ValuesInv, WaitersInv, OneRequest
  <2>3. QED BY <2>1, <2>2
<1>2. QED BY InitHolds, <1>1, PTL DEF CacheSpec

\* No caller is answered with what an invalidation before its call had already
\* outdated, whatever the threads, the keys and the bounds.
THEOREM AnswersAreFresh == CacheSpec => []ReadsAreFresh
<1>1. CacheInv => ReadsAreFresh
  BY SMT DEF CacheInv, CacheTypeOK, ValuesInv, ReadsAreFresh
<1>2. QED BY Inductive, <1>1, PTL

\* Of one read, at most one request of the present generation is out.
THEOREM RequestsAreShared == CacheSpec => []OneRequest
<1>1. CacheInv => OneRequest
  BY DEF CacheInv
<1>2. QED BY Inductive, <1>1, PTL

-----------------------------------------------------------------------------
(* The screens keep the cache's invariant: what a screen does to the cache  *)
(* is one of the steps above.                                               *)

\* A step that leaves the cache alone keeps its invariant.
LEMMA StutterKeeps == ASSUME CacheInv, UNCHANGED readVars PROVE CacheInv'
BY SMT DEF readVars, cacheVars, callVars, threadVars, CacheInv, CacheTypeOK, EntriesInv,
   FlightsInv, ValuesInv, WaitersInv, OneRequest

\* The cache is cleared, or left alone.
LEMMA ClearKeeps ==
  ASSUME CacheInv, Invalidate \/ UNCHANGED cacheVars, UNCHANGED <<world, threadVars>>
  PROVE  CacheInv'
<1>1. CASE Invalidate
  BY <1>1, ReloadKeeps DEF ReloadAll
<1>2. CASE UNCHANGED cacheVars
  BY <1>2, StutterKeeps, Zenon DEF readVars
<1>3. QED BY <1>1, <1>2

\* An operation that has ended holds nothing of its read; its end may clear the cache.
LEMMA EndKeeps ==
  ASSUME CacheInv, NEW t \in Threads, stage[t] \in {"idle", "answered", "failed"},
         Invalidate \/ UNCHANGED cacheVars,
         stage' = [stage EXCEPT ![t] = "idle"], Forget(t), UNCHANGED <<world, changing>>
  PROVE  CacheInv'
<1> USE DEF Forget, Invalidate, CacheInv, cacheVars, callVars, threadVars
<1>1. CacheTypeOK'
  <2>1. CASE Invalidate
    BY <2>1, NothingAssumption, SMT DEF CacheTypeOK, ReadStages
  <2>2. CASE UNCHANGED cacheVars
    BY <2>2, NothingAssumption, SMT DEF CacheTypeOK, ReadStages
  <2>3. QED BY <2>1, <2>2
<1>2. EntriesInv'
  BY NothingAssumption, SMT DEF CacheTypeOK, EntriesInv, ValuesInv, FlightsInv
<1>3. FlightsInv'
  BY NothingAssumption, SMT DEF CacheTypeOK, FlightsInv, WaitersInv
<1>4. ValuesInv'
  BY NothingAssumption, SMT DEF CacheTypeOK, EntriesInv, FlightsInv, ValuesInv, WaitersInv
<1>5. WaitersInv'
  BY NothingAssumption, SMT DEF CacheTypeOK, EntriesInv, FlightsInv, ValuesInv, WaitersInv
<1>6. OneRequest'
  BY SMT DEF CacheTypeOK, FlightsInv, OneRequest
<1>7. QED BY <1>1, <1>2, <1>3, <1>4, <1>5, <1>6

\* So the end of an operation keeps it.
LEMMA FinishKeepsCache == ASSUME CacheInv, NEW t \in Threads, FinishJob(t) PROVE CacheInv'
<1>1. stage[t] \in {"idle", "answered", "failed"}
  BY DEF FinishJob, Ended
<1>2. Invalidate \/ UNCHANGED cacheVars
  BY DEF FinishJob, AccountChanged
<1>3. QED BY <1>1, <1>2, EndKeeps DEF FinishJob

\* Whatever happens in the app, the cache's invariant holds.
LEMMA ScreensKeepCache ==
  ASSUME CacheInv, ScreensTypeOK, [ScreensNext]_allVars PROVE CacheInv'
<1>1. ASSUME NEW t \in Threads, NEW p \in Keys, LoadPage(t, p), UNCHANGED <<world, threadVars>>
      PROVE  CacheInv'
  BY <1>1, ClearKeeps, Zenon DEF LoadPage, ClearForeign
<1>2. ASSUME NEW t \in Threads, Mounted(t) PROVE CacheInv'
  <2>1. CASE LoadPage(t, inView)
    BY <1>1, <1>2, <2>1 DEF Mounted, ScreensTypeOK
  <2>2. CASE UNCHANGED cacheVars
    BY <1>2, <2>2, ClearKeeps, Zenon DEF Mounted
  <2>3. QED BY <1>2, <2>1, <2>2 DEF Mounted
<1>3. ASSUME NEW t \in Threads, AskAgain(t) PROVE CacheInv'
  BY <1>3, ClearKeeps, Zenon DEF AskAgain
<1>4. ASSUME NEW t \in Threads, NEW kind, StartChange(t, kind) PROVE CacheInv'
  BY <1>4, ClearKeeps, Zenon DEF StartChange, ClearForeign
<1>5. ASSUME NEW t \in Threads, WorkerAsks(t) PROVE CacheInv'
  BY <1>5, AskKeeps, SMT DEF WorkerAsks, Does, ScreensTypeOK, Jobs
<1>6. ASSUME NEW t \in Threads, WorkerBegins(t) \/ WorkerWrites(t) \/ WorkerEnds(t) \/ EndUnseen(t)
      PROVE CacheInv'
  BY <1>6, BeginChangeKeeps, WriteKeeps, EndChangeKeeps, ReturnKeeps
     DEF WorkerBegins, WorkerWrites, WorkerEnds, EndUnseen
<1>7. ASSUME NEW t \in Threads, WorkerReads(t) PROVE CacheInv'
  BY <1>7, HitKeeps, OwnKeeps, JoinKeeps, FetchKeeps, StoreKeeps, DropKeeps, DeliverKeeps,
     RaiseKeeps DEF WorkerReads
<1>8. ASSUME NEW t \in Threads, NEW p \in Keys, OpenTab(t, p) PROVE CacheInv'
  BY <1>1, <1>8 DEF OpenTab
<1>9. ASSUME NEW t \in Threads, NEW p \in Keys, Preload(t, p) PROVE CacheInv'
  BY <1>9, StutterKeeps DEF Preload
<1>10. CASE Outside \/ Timer
  BY <1>10, ElsewhereKeeps, ExpireKeeps DEF Outside, Timer
<1>11. CASE UNCHANGED allVars
  BY <1>11, StutterKeeps DEF allVars
<1>12. QED
  BY <1>2, <1>3, <1>4, <1>5, <1>6, <1>7, <1>8, <1>9, <1>10, <1>11, FinishKeepsCache
     DEF ScreensNext
-----------------------------------------------------------------------------
(* Operations.                                                              *)

\* What an operation is made of.
LEMMA JobFields ==
  ASSUME NEW j \in Jobs
  PROVE  /\ j.kind \in {"load", "reload", "change", "unseen"} /\ j.page \in Keys
         /\ j.account \in Nat /\ j.generation \in Nat
         /\ j.todo \in {"read", "change", "done"} /\ j.here \in BOOLEAN /\ j # Nothing
BY JobsAssumption, Zenon DEF Jobs

\* An operation nobody looks at any more.
LEMMA UnseenFields ==
  ASSUME NEW p \in Keys, NEW todo \in {"read", "change", "done"}, NEW j, j = Unseen(p, todo)
  PROVE  j \in Jobs /\ j # Nothing /\ j.kind = "unseen" /\ j.todo = todo /\ j.generation = 0
<1>1. "unseen" \in {"load", "reload", "change", "unseen"} /\ FALSE \in BOOLEAN
  OBVIOUS
<1>2. 0 \in Nat
  OBVIOUS
<1>3. j \in Jobs
  BY <1>1, <1>2, Zenon DEF Unseen, Jobs
<1>4. j.kind = "unseen" /\ j.todo = todo /\ j.generation = 0
  BY Zenon DEF Unseen
<1>5. QED BY <1>3, <1>4, JobsAssumption

\* A new operation.
LEMMA NewFields ==
  ASSUME NEW kind \in {"load", "reload", "change"}, NEW p \in Keys, NEW acc \in Nat,
         NEW gen \in Nat, NEW todo \in {"read", "change"}, NEW j,
         j = [kind |-> kind, page |-> p, account |-> acc, generation |-> gen,
              todo |-> todo, here |-> TRUE]
  PROVE  /\ j \in Jobs /\ j # Nothing
         /\ j.kind = kind /\ j.account = acc /\ j.generation = gen /\ j.todo = todo
<1>1. kind \in {"load", "reload", "change", "unseen"} /\ todo \in {"read", "change", "done"}
      /\ TRUE \in BOOLEAN
  OBVIOUS
<1>2. j \in Jobs
  BY <1>1, Zenon DEF Jobs
<1>3. j.kind = kind /\ j.account = acc /\ j.generation = gen /\ j.todo = todo
  BY Zenon
<1>4. QED BY <1>2, <1>3, JobsAssumption

\* An operation whose thread has moved on, one whose screen is gone, and one that
\* loads again.
LEMMA MovedFields ==
  ASSUME NEW i \in Jobs, NEW todo \in {"read", "change", "done"}, NEW j,
         j = [i EXCEPT !.todo = todo]
  PROVE  /\ j \in Jobs /\ j # Nothing
         /\ j.kind = i.kind /\ j.account = i.account /\ j.generation = i.generation
         /\ j.todo = todo
<1>1. j \in Jobs
  BY Zenon DEF Jobs
<1>2. /\ j.kind = i.kind /\ j.account = i.account /\ j.generation = i.generation
      /\ j.todo = todo
  BY Zenon DEF Jobs
<1>3. QED BY <1>1, <1>2, JobsAssumption

\* One whose screen is gone.
LEMMA GoneFields ==
  ASSUME NEW i \in Jobs, NEW j, j = [i EXCEPT !.here = FALSE]
  PROVE  /\ j \in Jobs /\ j # Nothing
         /\ j.kind = i.kind /\ j.account = i.account /\ j.generation = i.generation
         /\ j.todo = i.todo
<1>1. j \in Jobs
  BY Zenon DEF Jobs
<1>2. /\ j.kind = i.kind /\ j.account = i.account /\ j.generation = i.generation
      /\ j.todo = i.todo
  BY Zenon DEF Jobs
<1>3. QED BY <1>1, <1>2, JobsAssumption

Again(i, acc, gen) ==
  [i EXCEPT !.kind = "load", !.account = acc, !.generation = gen, !.todo = "read"]

\* It is a load, of the account and generation it is given.
LEMMA AgainFields ==
  ASSUME NEW i \in Jobs, NEW acc \in Nat, NEW gen \in Nat
  PROVE  /\ Again(i, acc, gen) \in Jobs /\ Again(i, acc, gen) # Nothing
         /\ Again(i, acc, gen).kind = "load" /\ Again(i, acc, gen).account = acc
         /\ Again(i, acc, gen).generation = gen /\ Again(i, acc, gen).todo = "read"
<1>1. Again(i, acc, gen) =
        [kind |-> "load", page |-> i.page, account |-> acc, generation |-> gen,
         todo |-> "read", here |-> i.here]
  <2>1. ASSUME NEW n, n = Again(i, acc, gen)
        PROVE  n = [kind |-> "load", page |-> i.page, account |-> acc, generation |-> gen,
                    todo |-> "read", here |-> i.here]
    BY <2>1, Zenon DEF Jobs, Again
  <2>2. QED BY <2>1
<1>2. i.page \in Keys /\ i.here \in BOOLEAN
  BY JobFields
<1>3. "load" \in {"load", "reload", "change", "unseen"} /\ "read" \in {"read", "change", "done"}
  OBVIOUS
<1>4. ASSUME NEW j, j = [kind |-> "load", page |-> i.page, account |-> acc, generation |-> gen,
                         todo |-> "read", here |-> i.here]
      PROVE  /\ j \in Jobs /\ j.kind = "load" /\ j.account = acc
             /\ j.generation = gen /\ j.todo = "read"
  <2>1. j \in Jobs
    BY <1>2, <1>3, <1>4, Zenon DEF Jobs
  <2>2. j.kind = "load" /\ j.account = acc /\ j.generation = gen /\ j.todo = "read"
    BY <1>4, Zenon
  <2>3. QED BY <2>1, <2>2
<1>5. QED BY <1>1, <1>4, JobsAssumption, Zenon

\* An operation that goes on, j of i: unchanged but for its screen, or unseen.
Alike(j, i) ==
  /\ j = Nothing <=> i = Nothing
  /\ i # Nothing =>
       \/ /\ j.kind = i.kind /\ j.account = i.account /\ j.generation = i.generation
          /\ j.todo = i.todo
       \/ /\ i.kind = "load" /\ j.kind = "unseen"
          /\ j.todo = i.todo /\ j.generation = 0

AllJobs == [Threads -> Jobs \cup {Nothing}]

\* A worker takes an operation: the other operations go on.
LEMMA TakeStarts ==
  ASSUME job \in AllJobs, NEW t \in Threads, NEW p \in Keys,
         NEW kind \in {"load", "reload", "change"}, NEW todo \in {"read", "change"},
         NEW gen \in Nat, Now \in Nat, Take(t, p, kind, todo, gen)
  PROVE  /\ job' \in AllJobs /\ job'[t] # Nothing
         /\ job'[t].kind = kind /\ job'[t].account = Now /\ job'[t].generation = gen
         /\ job'[t].todo = todo
         /\ \A u \in Threads \ {t} : Alike(job'[u], job[u])
<1> DEFINE new == [kind |-> kind, page |-> p, account |-> Now, generation |-> gen,
                   todo |-> todo, here |-> TRUE]
           asked(u) == /\ job[u] # Nothing /\ job[u].kind = "load" /\ job[u].page = p
                       /\ job[u].here /\ kind # "change"
<1>1. /\ new \in Jobs /\ new # Nothing
      /\ new.kind = kind /\ new.account = Now /\ new.generation = gen /\ new.todo = todo
  <2> HIDE DEF new
  <2>1. new = [kind |-> kind, page |-> p, account |-> Now, generation |-> gen,
               todo |-> todo, here |-> TRUE]
    BY DEF new
  <2>2. QED BY <2>1, NewFields
<1>2. job' = [u \in Threads |-> IF u = t THEN new
                                ELSE IF asked(u) THEN Unseen(p, job[u].todo) ELSE job[u]]
  BY DEF Take
<1> HIDE DEF new, asked
<1>3. job'[t] = new
  BY <1>2
<1>4. ASSUME NEW u \in Threads \ {t}
      PROVE  job'[u] \in Jobs \cup {Nothing} /\ Alike(job'[u], job[u])
  <2>1. CASE asked(u)
    <3>1. job'[u] = Unseen(p, job[u].todo)
      BY <1>2, <2>1
    <3>2. job[u] \in Jobs /\ job[u].kind = "load"
      BY <2>1, <1>4 DEF AllJobs, asked
    <3>3. job[u].todo \in {"read", "change", "done"} /\ job[u] # Nothing
      BY <3>2, JobFields
    <3>4. /\ job'[u] \in Jobs /\ job'[u] # Nothing /\ job'[u].kind = "unseen"
          /\ job'[u].todo = job[u].todo /\ job'[u].generation = 0
      BY <3>1, <3>3, UnseenFields
    <3>5. QED BY <3>2, <3>3, <3>4 DEF Alike
  <2>2. CASE ~asked(u)
    <3>1. job'[u] = job[u]
      BY <1>2, <1>4, <2>2
    <3>2. QED BY <3>1, <1>4 DEF Alike, AllJobs
  <2>3. QED BY <2>1, <2>2
<1>5. job' \in AllJobs
  <2>1. DOMAIN job' = Threads /\ job' = [u \in Threads |-> job'[u]]
    BY <1>2, Zenon
  <2>2. \A u \in Threads : job'[u] \in Jobs \cup {Nothing}
    BY <1>1, <1>3, <1>4
  <2>3. QED BY <2>1, <2>2, Zenon DEF AllJobs
<1>6. QED BY <1>1, <1>3, <1>4, <1>5
-----------------------------------------------------------------------------
(* One change at a time, and what a read of the present generation is owed. *)

Writing(t) == stage[t] \in {"validated", "written"}

\* What a step of thread t leaves of the other threads.
Carries(t) ==
  \A u \in Threads \ {t} :
    /\ Alike(job'[u], job[u])
    /\ Writing(u)' <=> Writing(u)
    /\ changing'[u] = changing[u] /\ due'[u] = due[u]

\* The others' part of ChangersInv, once the thread that moves keeps its own.
LEMMA ChangersGoOn ==
  ASSUME ScreensInv, NEW t \in Threads, job' \in AllJobs, Carries(t),
         generation' \in Nat, generation <= generation',
         busy' => busy \/ generation < generation',
         \A u \in Threads \ {t} : Changer(u) => busy' /\ ~Changer(t)',
         Writing(t)' => Changer(t)' /\ job'[t].todo = "change",
         changing'[t] => Writing(t)',
         job'[t] # Nothing /\ job'[t].todo = "change" => Changer(t)',
         Changer(t)' => busy',
         job'[t] # Nothing => job'[t].generation <= generation',
         busy' /\ job'[t] # Nothing /\ job'[t].kind = "load" => job'[t].generation # generation'
  PROVE  ChangersInv'
<1>1. ASSUME NEW u \in Threads \ {t}
      PROVE  /\ Changer(u)' => Changer(u)
             /\ job'[u] # Nothing => job[u] \in Jobs /\ job[u] # Nothing
             /\ job'[u] # Nothing /\ job'[u].kind = "load" =>
                  job[u].kind = "load" /\ job'[u].generation = job[u].generation
  BY <1>1 DEF Carries, Alike, Changer, ScreensInv, ScreensTypeOK
<1>2. ASSUME NEW u \in Threads \ {t}
      PROVE  /\ Writing(u)' => Changer(u)' /\ job'[u].todo = "change"
             /\ changing'[u] => Writing(u)'
             /\ job'[u] # Nothing /\ job'[u].todo = "change" => Changer(u)'
  BY <1>2 DEF Carries, Alike, Changer, Writing, ScreensInv, ChangersInv
<1>3. ASSUME NEW u \in Threads \ {t}
      PROVE  /\ Changer(u)' => busy'
             /\ job'[u] # Nothing => job'[u].generation <= generation'
  <2>1. job'[u] # Nothing => job'[u].generation <= generation
    BY <1>1, SMT DEF Carries, Alike, ScreensInv, ScreensTypeOK, ChangersInv
  <2>2. job'[u] # Nothing => job'[u].generation \in Nat
    BY JobFields DEF AllJobs
  <2>3. QED BY <1>1, <2>1, <2>2, SMT DEF ScreensInv, ScreensTypeOK
<1>4. ASSUME NEW u \in Threads \ {t}, busy', job'[u] # Nothing, job'[u].kind = "load"
      PROVE  job'[u].generation # generation'
  <2>1. /\ job[u].kind = "load" /\ job'[u].generation = job[u].generation
        /\ job[u] # Nothing /\ job[u] \in Jobs
    BY <1>1, <1>4
  <2>2. job[u].generation \in Nat /\ generation \in Nat
    BY <2>1, JobFields DEF ScreensInv, ScreensTypeOK
  <2>3. job[u].generation <= generation /\ (busy => job[u].generation # generation)
    BY <2>1 DEF ScreensInv, ChangersInv
  <2>4. QED BY <1>4, <2>1, <2>2, <2>3, SMT
<1>5. ASSUME NEW u \in Threads, NEW v \in Threads, Changer(u)', Changer(v)' PROVE u = v
  BY <1>1, <1>5 DEF ScreensInv, ChangersInv
<1>6. QED BY <1>2, <1>3, <1>4, <1>5 DEF ChangersInv, Writing

\* So for LandedInv: when a change returns, no read of its generation is out.
LEMMA LandedGoesOn ==
  ASSUME ScreensInv, NEW t \in Threads, job' \in AllJobs, Carries(t),
         generation' \in Nat, generation <= generation',
         \/ landed' = landed
         \/ \A u \in Threads \ {t} : Reader(u) => job[u].generation # generation',
         landed' <= floor',
         Reader(t)' /\ job'[t].todo = "done" /\ job'[t].generation = generation'
           => landed' <= due'[t]
  PROVE  LandedInv'
<1>1. ASSUME NEW u \in Threads \ {t}, Reader(u)', job'[u].todo = "done",
             job'[u].generation = generation'
      PROVE  landed' <= due'[u]
  <2>1. /\ Reader(u) /\ job[u].todo = "done" /\ job[u].generation = generation'
        /\ due'[u] = due[u] /\ job[u] # Nothing
    BY <1>1 DEF Carries, Alike, Reader
  <2>2. job[u].generation <= generation /\ generation \in Nat
    BY <2>1 DEF ScreensInv, ChangersInv, ScreensTypeOK
  <2>3. job[u].generation = generation
    BY <2>1, <2>2, SMT
  <2>4. landed' = landed
    BY <2>1
  <2>5. QED BY <2>1, <2>3, <2>4 DEF ScreensInv, LandedInv
<1>2. QED BY <1>1, SMT DEF LandedInv

\* What the whole invariant says of types, for a step that shows no new rows.
LEMMA TypesGoOn ==
  ASSUME ScreensInv, job' \in AllJobs, UNCHANGED <<world, switches, landed, shown>>,
         generation' \in Nat, account' \in Nat, busy' \in BOOLEAN, inView' \in Keys
  PROVE  ScreensTypeOK'
BY Zenon DEF ScreensInv, ScreensTypeOK, AllJobs

\* An account is a number.
LEMMA AccountNat ==
  ASSUME NEW n \in Nat, NEW made \in SUBSET (1..n), NEW w \in Nat
  PROVE  AccountOf(made, w) \in Nat
<1>1. IsFiniteSet(1..n)
  BY FS_Interval
<1>2. {s \in made : s <= w} \in SUBSET (1..n)
  OBVIOUS
<1>3. IsFiniteSet({s \in made : s <= w})
  BY <1>1, <1>2, FS_Subset
<1>4. Cardinality({s \in made : s <= w}) \in Nat
  BY <1>3, FS_CardinalityType
<1>5. QED BY <1>4, HomesAssumption, SMT DEF AccountOf

\* So is the one signed in to now.
LEMMA NowNat == ASSUME ScreensInv PROVE Now \in Nat
<1>1. world \in Nat /\ switches \in SUBSET (1..world)
  BY DEF ScreensInv, ScreensTypeOK, CacheInv, CacheTypeOK
<1>2. QED BY <1>1, AccountNat DEF Now, AccountAt

\* Clearing the cache never lowers what its callers are owed.
LEMMA FloorRises ==
  ASSUME ScreensInv, Invalidate \/ UNCHANGED cacheVars
  PROVE  floor \in Nat /\ floor' \in Nat /\ floor <= floor' /\ landed <= floor' /\ landed \in Nat
BY SMT DEF ScreensInv, CacheInv, CacheTypeOK, EntriesInv, LandedInv, ScreensTypeOK, Invalidate, cacheVars

\* A worker takes a plain read, while no change runs.
LEMMA LoadStarts ==
  ASSUME ScreensInv, NEW t \in Threads, NEW p \in Keys, ~busy, Free(t),
         Take(t, p, "load", "read", generation),
         Invalidate \/ UNCHANGED cacheVars,
         UNCHANGED <<world, threadVars, switches, landed, account, generation, busy, shown>>,
         inView' \in Keys
  PROVE  ScreensTypeOK' /\ ChangersInv' /\ LandedInv' /\ job' \in AllJobs /\ Carries(t)
         /\ job'[t] # Nothing /\ job'[t].todo = "read" /\ job'[t].account = Now
<1>1. job \in AllJobs /\ generation \in Nat
  BY DEF ScreensInv, ScreensTypeOK, AllJobs
<1>2. /\ job' \in AllJobs /\ job'[t] # Nothing
      /\ job'[t].kind = "load" /\ job'[t].account = Now /\ job'[t].generation = generation
      /\ job'[t].todo = "read"
      /\ \A u \in Threads \ {t} : Alike(job'[u], job[u])
  BY <1>1, NowNat, TakeStarts
<1>3. Carries(t)
  BY <1>2 DEF Carries, threadVars, callVars, Writing
<1>4. ~Writing(t)' /\ ~changing'[t]
  BY DEF Free, Writing, threadVars, ScreensInv, ChangersInv
<1>5. \A u \in Threads : ~Changer(u)
  BY DEF ScreensInv, ChangersInv
<1>6. ~Changer(t)'
  BY <1>2 DEF Changer
<1>7. ChangersInv'
  BY <1>1, <1>2, <1>3, <1>4, <1>5, <1>6, ChangersGoOn, SMT
<1>8. LandedInv'
  BY <1>1, <1>2, <1>3, FloorRises, LandedGoesOn, SMT
<1>9. ScreensTypeOK'
  BY <1>1, <1>2, TypesGoOn DEF ScreensInv, ScreensTypeOK
<1>10. QED BY <1>2, <1>3, <1>7, <1>8, <1>9

\* A change starts a generation of its own.
LEMMA ChangeStarts ==
  ASSUME ScreensInv, NEW t \in Threads, NEW kind \in {"reload", "change"}, StartChange(t, kind)
  PROVE  ScreensTypeOK' /\ ChangersInv' /\ LandedInv' /\ job' \in AllJobs /\ Carries(t)
         /\ job'[t] # Nothing /\ job'[t].todo = "change" /\ job'[t].account = Now
         /\ job'[t].kind = kind
<1>1. job \in AllJobs /\ generation \in Nat /\ inView \in Keys
  BY DEF ScreensInv, ScreensTypeOK, AllJobs
<1>0. generation' = generation + 1 /\ generation' \in Nat
  BY <1>1 DEF StartChange
<1>2. /\ job' \in AllJobs /\ job'[t] # Nothing
      /\ job'[t].kind = kind /\ job'[t].account = Now /\ job'[t].generation = generation'
      /\ job'[t].todo = "change"
      /\ \A u \in Threads \ {t} : Alike(job'[u], job[u])
  BY <1>0, <1>1, NowNat, TakeStarts DEF StartChange
<1>3. Carries(t)
  BY <1>2 DEF Carries, threadVars, callVars, Writing, StartChange
<1>4. ~Writing(t)' /\ ~changing'[t]
  BY DEF StartChange, Free, Writing, threadVars, ScreensInv, ChangersInv
<1>5. \A u \in Threads : ~Changer(u)
  BY DEF ScreensInv, ChangersInv, StartChange
<1>6. Changer(t)' /\ busy'
  BY <1>2 DEF Changer, StartChange
<1>7. ChangersInv'
  BY <1>0, <1>1, <1>2, <1>3, <1>4, <1>5, <1>6, ChangersGoOn, SMT
<1>8. landed' = landed /\ (Invalidate \/ UNCHANGED cacheVars)
  BY DEF StartChange, ClearForeign
<1>9. LandedInv'
  BY <1>0, <1>1, <1>2, <1>3, <1>8, FloorRises, LandedGoesOn, SMT
<1>10. ScreensTypeOK'
  BY <1>0, <1>1, <1>2, TypesGoOn DEF ScreensInv, ScreensTypeOK, StartChange
<1>11. QED BY <1>2, <1>3, <1>7, <1>9, <1>10

\* A preload is nobody's read.
LEMMA PreloadStarts ==
  ASSUME ScreensInv, NEW t \in Threads, NEW p \in Keys, Preload(t, p)
  PROVE  ScreensTypeOK' /\ ChangersInv' /\ LandedInv' /\ job' \in AllJobs /\ Carries(t)
         /\ job'[t].kind = "unseen"
<1>1. job \in AllJobs /\ generation \in Nat
  BY DEF ScreensInv, ScreensTypeOK, AllJobs
<1>2. job'[t] = Unseen(p, "read") /\ \A u \in Threads \ {t} : job'[u] = job[u]
  BY <1>1 DEF Preload, AllJobs
<1>3. /\ job'[t] \in Jobs /\ job'[t] # Nothing /\ job'[t].kind = "unseen"
      /\ job'[t].todo = "read" /\ job'[t].generation = 0
  BY <1>2, UnseenFields
<1>4. job' \in AllJobs
  BY <1>1, <1>2, <1>3, Zenon DEF AllJobs, Preload
<1>5. Carries(t)
  BY <1>2 DEF Preload, Carries, Alike, readVars, threadVars, callVars, Writing
<1>6. ~Writing(t)' /\ ~changing'[t] /\ ~Changer(t)' /\ ~Reader(t)'
  BY <1>3 DEF Preload, Free, Writing, readVars, threadVars, ScreensInv, ChangersInv, Changer, Reader
<1>7. UNCHANGED <<generation, busy, landed, floor>>
  BY DEF Preload, readVars, cacheVars, screenVars
<1>8. ChangersInv'
  <2>1. \A u \in Threads \ {t} : Changer(u) => busy'
    BY <1>7 DEF ScreensInv, ChangersInv
  <2>2. QED BY <1>1, <1>3, <1>4, <1>5, <1>6, <1>7, <2>1, ChangersGoOn, SMT
<1>9. landed' <= floor'
  BY <1>7 DEF ScreensInv, LandedInv
<1>10. LandedInv'
  BY <1>1, <1>3, <1>4, <1>5, <1>6, <1>7, <1>9, LandedGoesOn, SMT
<1>11. ScreensTypeOK'
  BY <1>1, <1>4, <1>7, TypesGoOn DEF ScreensInv, ScreensTypeOK, Preload, readVars, screenVars
<1>12. QED BY <1>3, <1>4, <1>5, <1>8, <1>10, <1>11

\* The thread of an operation moves on: what it has left to do changes, at most.
LEMMA WorkerMoves ==
  ASSUME ScreensInv, NEW t \in Threads, job[t] # Nothing,
         NEW todo \in {"read", "change", "done"}, job' = [job EXCEPT ![t].todo = todo]
  PROVE  /\ job' \in AllJobs /\ job[t] \in Jobs /\ job'[t] # Nothing
         /\ job'[t].kind = job[t].kind /\ job'[t].account = job[t].account
         /\ job'[t].generation = job[t].generation /\ job'[t].todo = todo
         /\ \A u \in Threads \ {t} : job'[u] = job[u]
<1>1. job \in AllJobs /\ job[t] \in Jobs
  BY DEF ScreensInv, ScreensTypeOK, AllJobs
<1>2. job'[t] = [job[t] EXCEPT !.todo = todo] /\ \A u \in Threads \ {t} : job'[u] = job[u]
  BY <1>1, Zenon DEF AllJobs
<1>3. /\ job'[t] \in Jobs /\ job'[t] # Nothing
      /\ job'[t].kind = job[t].kind /\ job'[t].account = job[t].account
      /\ job'[t].generation = job[t].generation /\ job'[t].todo = todo
  BY <1>1, <1>2, MovedFields
<1>4. job' \in AllJobs
  <2>1. \A u \in Threads : job'[u] \in Jobs \cup {Nothing}
    BY <1>1, <1>2, <1>3 DEF AllJobs
  <2>2. job' = [u \in Threads |-> job'[u]]
    BY <1>1, Zenon DEF AllJobs
  <2>3. QED BY <2>1, <2>2, Zenon DEF AllJobs
<1>5. QED BY <1>1, <1>2, <1>3, <1>4

\* The read of an operation starts: it is owed what the cache was last cleared at.
LEMMA AskGoesOn ==
  ASSUME ScreensInv, NEW t \in Threads, WorkerAsks(t)
  PROVE  ScreensTypeOK' /\ ChangersInv' /\ LandedInv' /\ job' \in AllJobs /\ Carries(t)
         /\ due'[t] = floor /\ job'[t].account = job[t].account /\ (Reader(t)' => Reader(t))
<1>1. job[t] # Nothing /\ job' = [job EXCEPT ![t].todo = "done"] /\ "done" \in {"read", "change", "done"}
  BY DEF WorkerAsks, Does
<1>2. /\ job' \in AllJobs /\ job[t] \in Jobs /\ job'[t] # Nothing
      /\ job'[t].kind = job[t].kind /\ job'[t].account = job[t].account
      /\ job'[t].generation = job[t].generation /\ job'[t].todo = "done"
      /\ \A u \in Threads \ {t} : job'[u] = job[u]
  BY <1>1, WorkerMoves
<1>3. UNCHANGED <<world, generation, busy, landed, floor, changing, account, inView, switches, shown>>
  BY DEF WorkerAsks, Ask, cacheVars, screenVars
<1>4. due'[t] = floor /\ stage[t] = "idle" /\ stage'[t] = "asked"
      /\ \A u \in Threads \ {t} : due'[u] = due[u] /\ stage'[u] = stage[u]
  BY DEF WorkerAsks, Ask, ScreensInv, CacheInv, CacheTypeOK
<1>5. Carries(t)
  BY <1>2, <1>3, <1>4 DEF Carries, Alike, Writing
<1>6. ~Writing(t)' /\ ~changing'[t]
  BY <1>3, <1>4 DEF Writing, ScreensInv, ChangersInv
<1>7. /\ Changer(t)' <=> Changer(t)
      /\ Reader(t)' <=> Reader(t)
  BY <1>1, <1>2 DEF Changer, Reader
<1>8. job[t].generation \in Nat /\ generation \in Nat
  BY <1>2, JobFields DEF ScreensInv, ScreensTypeOK
<1>9. ChangersInv'
  <2>1. \A u \in Threads \ {t} : Changer(u) => busy' /\ ~Changer(t)'
    BY <1>3, <1>7 DEF ScreensInv, ChangersInv
  <2>2. /\ Changer(t)' => busy'
        /\ job'[t].generation <= generation'
        /\ busy' /\ job'[t].kind = "load" => job'[t].generation # generation'
    BY <1>1, <1>2, <1>3, <1>7 DEF ScreensInv, ChangersInv
  <2>3. QED BY <1>2, <1>3, <1>5, <1>6, <1>8, <2>1, <2>2, ChangersGoOn, SMT
<1>10. landed <= floor /\ landed' <= floor'
  BY <1>3 DEF ScreensInv, LandedInv
<1>11. LandedInv'
  BY <1>2, <1>3, <1>4, <1>5, <1>8, <1>10, LandedGoesOn, SMT
<1>12. ScreensTypeOK'
  BY <1>2, <1>3, TypesGoOn DEF ScreensInv, ScreensTypeOK
<1>13. QED BY <1>2, <1>4, <1>5, <1>7, <1>9, <1>11, <1>12

\* A change begins.
LEMMA BeginGoesOn ==
  ASSUME ScreensInv, NEW t \in Threads, WorkerBegins(t)
  PROVE  ScreensTypeOK' /\ ChangersInv' /\ LandedInv' /\ job' = job /\ Carries(t)
         /\ due' = due
<1>1. job[t] # Nothing /\ job[t].todo = "change" /\ Changer(t) /\ job \in AllJobs
  BY DEF WorkerBegins, Does, ScreensInv, ChangersInv, ScreensTypeOK, AllJobs
<1>2. UNCHANGED <<world, generation, busy, landed, due, account, inView, switches, shown, job>>
      /\ Invalidate
  BY DEF WorkerBegins, BeginChange, appVars, callVars, screenVars
<1>3. /\ stage'[t] = "validated" /\ changing'[t]
      /\ \A u \in Threads \ {t} : changing'[u] = changing[u] /\ stage'[u] = stage[u]
  BY DEF WorkerBegins, BeginChange, ScreensInv, CacheInv, CacheTypeOK
<1>4. Carries(t)
  BY <1>2, <1>3 DEF Carries, Alike, Writing
<1>5. Writing(t)' /\ Changer(t)' /\ job'[t].todo = "change"
  BY <1>1, <1>2, <1>3 DEF Writing, Changer
<1>6. ChangersInv'
  <2>1. \A u \in Threads \ {t} : Changer(u) => busy' /\ ~Changer(t)'
    BY <1>1, <1>2 DEF ScreensInv, ChangersInv
  <2>2. /\ busy'
        /\ job'[t].generation <= generation'
        /\ busy' /\ job'[t].kind = "load" => job'[t].generation # generation'
    BY <1>1, <1>2 DEF ScreensInv, ChangersInv
  <2>3. job' \in AllJobs /\ generation' \in Nat /\ generation <= generation'
    BY <1>1, <1>2, SMT DEF ScreensInv, ScreensTypeOK
  <2>4. QED BY <1>2, <1>4, <1>5, <2>1, <2>2, <2>3, ChangersGoOn
<1>7. LandedInv'
  <2>1. landed <= floor' /\ landed' = landed
    BY <1>2, FloorRises
  <2>2. \A u \in Threads : Reader(u)' /\ job'[u].todo = "done" /\ job'[u].generation = generation'
                             => landed' <= due'[u]
    BY <1>2 DEF ScreensInv, LandedInv, Reader
  <2>3. QED BY <2>1, <2>2 DEF LandedInv
<1>8. ScreensTypeOK'
  BY <1>1, <1>2, TypesGoOn DEF ScreensInv, ScreensTypeOK
<1>9. QED BY <1>2, <1>4, <1>6, <1>7, <1>8

\* Router changes, by a change of the app or from elsewhere; it may be a sign in or out.
LEMMA WorldGoesOn ==
  ASSUME ScreensInv, world' = world \/ (world < MaxWorld /\ world' = world + 1),
         switches' = switches \/ (world' # world /\ switches' = switches \cup {world'}),
         UNCHANGED <<generation, busy, landed, due, floor, account, inView, shown, job, changing>>,
         \A u \in Threads : Writing(u)' <=> Writing(u)
  PROVE  ScreensTypeOK' /\ ChangersInv' /\ LandedInv'
         /\ world \in Nat /\ world' \in Nat /\ world <= world'
<1>1. world \in Nat /\ world' \in Nat /\ world <= world' /\ world' <= MaxWorld
  BY WorldAssumption, SMT DEF ScreensInv, CacheInv, CacheTypeOK, ScreensTypeOK
<1>2. switches' \subseteq 1..world'
  <2>1. switches \subseteq 1..world /\ 1..world \subseteq 1..world'
    BY <1>1, SMT DEF ScreensInv, ScreensTypeOK
  <2>2. world' # world => world' \in 1..world'
    BY <1>1, SMT
  <2>3. CASE switches' = switches
    BY <2>1, <2>3, Zenon
  <2>4. CASE world' # world /\ switches' = switches \cup {world'}
    BY <2>1, <2>2, <2>4, Zenon
  <2>5. QED BY <2>3, <2>4
<1>3. \A p \in Keys : shown'[p] # Nothing => shown'[p] <= world'
  BY <1>1, SMT DEF ScreensInv, ScreensTypeOK
<1>4. ScreensTypeOK'
  BY <1>1, <1>2, <1>3 DEF ScreensInv, ScreensTypeOK
<1>5. ChangersInv'
  BY DEF ScreensInv, ChangersInv, Changer, Writing
<1>6. LandedInv'
  BY DEF ScreensInv, LandedInv, Reader
<1>7. QED BY <1>1, <1>4, <1>5, <1>6

\* A change of the app, as such a step.
LEMMA WriteGoesOn ==
  ASSUME ScreensInv, NEW t \in Threads, WorkerWrites(t)
  PROVE  /\ world' = world \/ (world < MaxWorld /\ world' = world + 1)
         /\ switches' = switches \/ (world' # world /\ switches' = switches \cup {world'})
         /\ UNCHANGED <<generation, busy, landed, due, floor, account, inView, shown, job, changing>>
         /\ \A u \in Threads : Writing(u)' <=> Writing(u)
<1>1. stage[t] = "validated" /\ stage' = [stage EXCEPT ![t] = "written"] /\ stage \in [Threads -> ReadStages]
  BY DEF WorkerWrites, Write, ScreensInv, CacheInv, CacheTypeOK
<1>2. \A u \in Threads : Writing(u)' <=> Writing(u)
  BY <1>1 DEF Writing
<1>3. QED BY <1>2 DEF WorkerWrites, Write, cacheVars, callVars, screenVars

\* A change from elsewhere, as such a step.
LEMMA OutsideGoesOn ==
  ASSUME ScreensInv, Outside
  PROVE  /\ world' = world \/ (world < MaxWorld /\ world' = world + 1)
         /\ switches' = switches \/ (world' # world /\ switches' = switches \cup {world'})
         /\ UNCHANGED <<generation, busy, landed, due, floor, account, inView, shown, job, changing>>
         /\ \A u \in Threads : Writing(u)' <=> Writing(u)
<1>1. world' # world
  BY SMT DEF ScreensInv, CacheInv, CacheTypeOK, Outside, ChangedElsewhere
<1>2. \A u \in Threads : Writing(u)' <=> Writing(u)
  BY DEF Outside, ChangedElsewhere, threadVars, Writing
<1>3. QED BY <1>1, <1>2 DEF Outside, ChangedElsewhere, cacheVars, threadVars, callVars, screenVars

\* A change returns: its own reload is the only read of its generation.
LEMMA EndGoesOn ==
  ASSUME ScreensInv, NEW t \in Threads, WorkerEnds(t)
  PROVE  ScreensTypeOK' /\ ChangersInv' /\ LandedInv' /\ job' \in AllJobs /\ Carries(t)
         /\ due' = due /\ (Reader(t)' => job'[t].todo # "done")
         /\ job'[t].account = job[t].account /\ (Reader(t)' => Reader(t))
<1> DEFINE todo == IF job[t].kind = "reload" THEN "read" ELSE "done"
<1>1. /\ stage[t] = "written" /\ Changer(t) /\ job[t] # Nothing /\ job[t].todo = "change"
      /\ world \in Nat
  BY DEF WorkerEnds, EndChange, ScreensInv, ChangersInv, Changer, CacheInv, CacheTypeOK
<1>2. /\ job' \in AllJobs /\ job[t] \in Jobs /\ job'[t] # Nothing
      /\ job'[t].kind = job[t].kind /\ job'[t].account = job[t].account
      /\ job'[t].generation = job[t].generation /\ job'[t].todo = todo
      /\ \A u \in Threads \ {t} : job'[u] = job[u]
  <2>1. todo \in {"read", "change", "done"} /\ job' = [job EXCEPT ![t].todo = todo]
    BY DEF WorkerEnds
  <2>2. QED BY <1>1, <2>1, WorkerMoves
<1>3. /\ UNCHANGED <<world, generation, busy, due, account, inView, switches, shown>>
      /\ landed' = world /\ floor' = world
  BY DEF WorkerEnds, EndChange, Invalidate, callVars, screenVars
<1>4. /\ stage'[t] = "idle" /\ ~changing'[t]
      /\ \A u \in Threads \ {t} : changing'[u] = changing[u] /\ stage'[u] = stage[u]
  BY DEF WorkerEnds, EndChange, ScreensInv, CacheInv, CacheTypeOK
<1>5. Carries(t)
  BY <1>2, <1>3, <1>4 DEF Carries, Alike, Writing
<1>6. ~Writing(t)' /\ todo # "change" /\ busy /\ generation \in Nat
  BY <1>1, <1>4 DEF Writing, ScreensInv, ChangersInv, ScreensTypeOK
<1>7. job[t].kind \in {"reload", "change"} /\ (Reader(t)' => job[t].kind = "reload")
      /\ (Reader(t)' => Reader(t))
  BY <1>1, <1>2 DEF Changer, Reader
<1>8. ChangersInv'
  <2>1. \A u \in Threads \ {t} : Changer(u) => busy' /\ ~Changer(t)'
    BY <1>1 DEF ScreensInv, ChangersInv
  <2>2. /\ job'[t].generation <= generation' /\ job'[t].kind # "load"
    BY <1>1, <1>2, <1>3, <1>7 DEF ScreensInv, ChangersInv
  <2>3. QED BY <1>2, <1>3, <1>4, <1>5, <1>6, <2>1, <2>2, ChangersGoOn, SMT
<1>9. LandedInv'
  <2>1. \A u \in Threads \ {t} : Reader(u) => job[u].generation # generation'
    BY <1>1, <1>3, <1>6 DEF ScreensInv, ChangersInv, Reader, Changer
  <2>2. Reader(t)' => job'[t].todo # "done"
    BY <1>2, <1>7
  <2>3. landed' <= floor' /\ generation' \in Nat /\ generation <= generation'
    BY <1>1, <1>3, <1>6, SMT
  <2>4. QED BY <1>2, <1>5, <2>1, <2>2, <2>3, LandedGoesOn
<1>10. ScreensTypeOK'
  BY <1>1, <1>2, <1>3, Zenon DEF ScreensInv, ScreensTypeOK, AllJobs
<1>11. Reader(t)' => job'[t].todo # "done"
  BY <1>2, <1>7
<1>12. QED BY <1>2, <1>3, <1>5, <1>7, <1>8, <1>9, <1>10, <1>11

\* Inside a read nothing of this moves.
LEMMA ReadGoesOn ==
  ASSUME ScreensInv, NEW t \in Threads, WorkerReads(t)
  PROVE  ScreensTypeOK' /\ ChangersInv' /\ LandedInv'
         /\ UNCHANGED <<world, switches, floor, due, account, shown, job>>
<1>1. stage \in [Threads -> ReadStages] /\ stage[t] \notin {"validated", "written"}
  BY DEF ScreensInv, CacheInv, CacheTypeOK, WorkerReads, Hit, Own, Join, Fetch, StoreAnswer, Drop, Deliver, Raise
<1>2. \A u \in Threads : Writing(u)' <=> Writing(u)
  BY <1>1 DEF WorkerReads, Hit, Own, Join, Fetch, StoreAnswer, Drop, Deliver, Raise, Writing, WaitingFor
<1>3. UNCHANGED <<world, floor, due, changing>> /\ UNCHANGED appVars
  BY DEF WorkerReads, Hit, Own, Join, Fetch, StoreAnswer, Drop, Deliver, Raise, Pop, cacheVars, callVars
<1>4. UNCHANGED <<switches, landed, account, generation, busy, inView, shown, job>>
  BY <1>3 DEF appVars, screenVars
<1>5. ScreensTypeOK'
  BY <1>3, <1>4, Zenon DEF ScreensInv, ScreensTypeOK
<1>6. ChangersInv'
  BY <1>2, <1>3, <1>4 DEF ScreensInv, ChangersInv, Changer, Writing
<1>7. LandedInv'
  BY <1>3, <1>4 DEF ScreensInv, LandedInv, Reader
<1>8. QED BY <1>3, <1>4, <1>5, <1>6, <1>7

\* Neither does an entry that expires, nor a step of the app that only looks elsewhere.
LEMMA RestGoesOn ==
  ASSUME ScreensInv, UNCHANGED <<world, switches, landed, floor, stage, changing, due, account,
                                 generation, busy, inView, shown, job>>
  PROVE  ScreensTypeOK' /\ ChangersInv' /\ LandedInv'
<1>1. ScreensTypeOK'
  BY Zenon DEF ScreensInv, ScreensTypeOK
<1>2. ChangersInv'
  BY DEF ScreensInv, ChangersInv, Changer
<1>3. LandedInv'
  BY DEF ScreensInv, LandedInv, Reader
<1>4. QED BY <1>1, <1>2, <1>3

\* A thread is done with what nobody looks at.
LEMMA UnseenGoesOn ==
  ASSUME ScreensInv, NEW t \in Threads, EndUnseen(t)
  PROVE  ScreensTypeOK' /\ ChangersInv' /\ LandedInv' /\ job' \in AllJobs /\ Carries(t)
         /\ job'[t] = Nothing
<1>1. job \in AllJobs /\ generation \in Nat /\ job' = [job EXCEPT ![t] = Nothing]
  BY DEF ScreensInv, ScreensTypeOK, AllJobs, EndUnseen
<1>2. job' \in AllJobs /\ job'[t] = Nothing /\ \A u \in Threads \ {t} : job'[u] = job[u]
  BY <1>1, Zenon DEF AllJobs
<1>3. UNCHANGED <<world, generation, busy, landed, floor, changing, account, inView, switches, shown>>
  BY DEF EndUnseen, Return, cacheVars, screenVars
<1>4. /\ stage[t] \in {"answered", "failed"} /\ ~changing[t]
      /\ stage'[t] = "idle"
      /\ \A u \in Threads \ {t} : due'[u] = due[u] /\ stage'[u] = stage[u]
  BY DEF EndUnseen, Return, Forget, ScreensInv, CacheInv, CacheTypeOK, ChangersInv
<1>5. Carries(t)
  BY <1>2, <1>3, <1>4 DEF Carries, Alike, Writing
<1>6. ~Writing(t)' /\ ~changing'[t] /\ ~Changer(t)' /\ ~Reader(t)'
  BY <1>2, <1>3, <1>4 DEF Writing, Changer, Reader
<1>6a. generation' \in Nat /\ generation <= generation'
  BY <1>1, <1>3
<1>7. ChangersInv'
  <2>1. \A u \in Threads \ {t} : Changer(u) => busy' /\ ~Changer(t)'
    BY <1>3, <1>6 DEF ScreensInv, ChangersInv
  <2>2. QED BY <1>2, <1>3, <1>5, <1>6, <1>6a, <2>1, ChangersGoOn
<1>8. landed' <= floor'
  BY <1>3 DEF ScreensInv, LandedInv
<1>9. LandedInv'
  BY <1>2, <1>3, <1>5, <1>6, <1>8, <1>6a, LandedGoesOn
<1>10. ScreensTypeOK'
  BY <1>1, <1>2, <1>3, TypesGoOn DEF ScreensInv, ScreensTypeOK
<1>11. QED BY <1>2, <1>5, <1>7, <1>9, <1>10

\* What the end of an operation shows is what it showed, nothing, or its answer.
LEMMA RowsShown ==
  ASSUME ScreensInv, NEW t \in Threads, FinishJob(t), NEW p \in Keys
  PROVE  \/ shown'[p] = shown[p] \/ shown'[p] = Nothing
         \/ /\ shown'[p] = value[t] /\ stage[t] = "answered"
            /\ ~Stale(t) /\ job[t].kind # "change" /\ (p \notin Homes => p \notin Dropped)
<1> DEFINE applies == Live(t) /\ ~Stale(t)
<1>1. shown'[p] = IF p \in Dropped THEN Nothing
                  ELSE IF p = job[t].page /\ applies THEN Rows(t) ELSE shown[p]
  BY DEF FinishJob
<1>2. CASE p \notin Dropped /\ p = job[t].page /\ applies
  <2>1. shown'[p] = Rows(t)
    BY <1>1, <1>2
  <2>2. Rows(t) = shown[p] \/ Rows(t) = Nothing
        \/ (job[t].kind # "change" /\ stage[t] = "answered" /\ Rows(t) = value[t])
    BY <1>2 DEF Rows
  <2>3. QED BY <1>2, <2>1, <2>2
<1>3. QED BY <1>1, <1>2

\* An operation ends: its screen loads again only with nothing else under way.
LEMMA FinishGoesOn ==
  ASSUME ScreensInv, NEW t \in Threads, FinishJob(t)
  PROVE  ScreensTypeOK' /\ ChangersInv' /\ LandedInv' /\ job' \in AllJobs /\ Carries(t)
         /\ job[t] # Nothing /\ job[t].todo = "done" /\ job[t].kind # "unseen"
         /\ (job'[t] # Nothing => job'[t].todo = "read" /\ job'[t].account = Now)
<1>1. /\ job[t] # Nothing /\ job[t] \in Jobs /\ job \in AllJobs
      /\ job[t].todo = "done" /\ job[t].kind # "unseen"
      /\ stage[t] \notin {"validated", "written"} /\ generation \in Nat
  BY DEF FinishJob, Ended, Does, ScreensInv, ScreensTypeOK, AllJobs
<1> DEFINE next == Again(job[t], Now, generation)
<1>2. /\ next \in Jobs /\ next # Nothing /\ next.kind = "load" /\ next.account = Now
      /\ next.generation = generation /\ next.todo = "read"
  <2>1. job[t] \in Jobs /\ Now \in Nat /\ generation \in Nat
    BY <1>1, NowNat
  <2>2. /\ Again(job[t], Now, generation) \in Jobs
        /\ Again(job[t], Now, generation) # Nothing
    BY <2>1, AgainFields
  <2>3. /\ Again(job[t], Now, generation).kind = "load"
        /\ Again(job[t], Now, generation).account = Now
    BY <2>1, AgainFields
  <2>4. Again(job[t], Now, generation).generation = generation
    BY <2>1, AgainFields
  <2>5. Again(job[t], Now, generation).todo = "read"
    BY <2>1, AgainFields
  <2>6. QED BY <2>2, <2>3, <2>4, <2>5
<1>3. PICK again \in LoadsAgain(t) :
        job' = [u \in Threads |->
             IF u = t THEN IF ~again THEN Nothing ELSE next
             ELSE IF job[u] # Nothing /\ job[u].page \in Dropped
             THEN [job[u] EXCEPT !.here = FALSE]
             ELSE job[u]]
  BY DEF FinishJob, Again
<1> HIDE DEF next
<1>4. ASSUME NEW u \in Threads \ {t} PROVE job'[u] \in Jobs \cup {Nothing} /\ Alike(job'[u], job[u])
  <2>1. CASE job[u] # Nothing /\ job[u].page \in Dropped
    <3>1. job'[u] = [job[u] EXCEPT !.here = FALSE] /\ job[u] \in Jobs
      BY <1>1, <1>3, <2>1 DEF AllJobs
    <3>2. QED BY <2>1, <3>1, GoneFields DEF Alike
  <2>2. CASE ~(job[u] # Nothing /\ job[u].page \in Dropped)
    <3>1. job'[u] = job[u]
      BY <1>3, <1>4, <2>2
    <3>2. QED BY <1>1, <3>1 DEF Alike, AllJobs
  <2>3. QED BY <2>1, <2>2
<1>5. /\ job'[t] = Nothing \/ (again /\ job'[t] = next)
      /\ job' \in AllJobs
  <2>1. job'[t] = IF ~again THEN Nothing ELSE next
    BY <1>3
  <2>2. \A u \in Threads : job'[u] \in Jobs \cup {Nothing}
    BY <1>2, <1>4, <2>1
  <2>3. job' = [u \in Threads |-> job'[u]]
    BY <1>3, Zenon
  <2>4. QED BY <2>1, <2>2, <2>3, Zenon DEF AllJobs
<1>6. /\ UNCHANGED <<world, changing, switches, landed, generation, inView>>
      /\ busy' = StaysBusy(t) /\ account' = Now
      /\ Invalidate \/ UNCHANGED cacheVars
  BY DEF FinishJob, AccountChanged
<1>7. /\ stage'[t] = "idle" /\ ~changing'[t]
      /\ \A u \in Threads \ {t} : due'[u] = due[u] /\ stage'[u] = stage[u]
  BY <1>1, <1>6 DEF FinishJob, Forget, ScreensInv, CacheInv, CacheTypeOK, ChangersInv
<1>8. Carries(t)
  BY <1>4, <1>6, <1>7 DEF Carries, Writing
<1>9. ~Writing(t)' /\ ~Changer(t)' /\ (job'[t] # Nothing => job'[t].todo = "read")
  BY <1>2, <1>5, <1>7 DEF Writing, Changer
<1>10. generation' \in Nat /\ generation <= generation'
  BY <1>1, <1>6
<1>11. ChangersInv'
  <2>1. \A u \in Threads \ {t} : Changer(u) => busy'
    BY <1>1, <1>6 DEF StaysBusy, ScreensInv, ChangersInv, Changer, Jobs
  <2>2. busy' => busy /\ job[t].kind = "load"
    BY <1>6 DEF StaysBusy
  <2>3. busy' => job'[t] = Nothing
    BY <1>5, <2>2 DEF LoadsAgain
  <2>4. job'[t] # Nothing => job'[t].generation <= generation'
    BY <1>2, <1>5, <1>10, <1>6
  <2>5. QED BY <1>5, <1>7, <1>8, <1>9, <1>10, <2>1, <2>2, <2>3, <2>4, ChangersGoOn
<1>12. LandedInv'
  <2>1. landed' <= floor'
    BY <1>6, FloorRises
  <2>2. ~(Reader(t)' /\ job'[t].todo = "done")
    BY <1>9 DEF Reader
  <2>3. QED BY <1>5, <1>6, <1>8, <1>10, <2>1, <2>2, LandedGoesOn
<1>13. ScreensTypeOK'
  <2>1. ASSUME NEW p \in Keys
        PROVE  shown'[p] \in Nat \cup {Nothing} /\ (shown'[p] # Nothing => shown'[p] <= world)
    <3>1. stage[t] = "answered" => value[t] \in Nat /\ value[t] <= world
      BY SMT DEF ScreensInv, CacheInv, CacheTypeOK, ValuesInv
    <3>2. QED BY <2>1, <3>1, RowsShown DEF ScreensInv, ScreensTypeOK
  <2>2. shown' = [p \in Keys |-> shown'[p]]
    BY Zenon DEF FinishJob
  <2>3. shown' \in [Keys -> Nat \cup {Nothing}]
    BY <2>1, <2>2, Zenon
  <2>4. busy' \in BOOLEAN
    BY <1>6 DEF StaysBusy
  <2>5. account' \in Nat
    BY <1>6, NowNat
  <2>6. QED BY <1>5, <1>6, <2>1, <2>3, <2>4, <2>5, Zenon DEF ScreensInv, ScreensTypeOK, AllJobs
<1>14. QED BY <1>1, <1>2, <1>5, <1>8, <1>9, <1>11, <1>12, <1>13

\* Nothing has been asked, changed or shown yet.
LEMMA ScreensStart == ScreensInit => ScreensInv /\ (\A t \in Threads : job[t] = Nothing)
                                     /\ account = 0 /\ (\A p \in Keys : shown[p] = Nothing)
<1> SUFFICES ASSUME ScreensInit
             PROVE  ScreensInv /\ (\A t \in Threads : job[t] = Nothing)
                    /\ account = 0 /\ (\A p \in Keys : shown[p] = Nothing)
  OBVIOUS
<1>1. CacheInv
  BY InitHolds DEF ScreensInit
<1>2. ScreensTypeOK
  <2>1. world = 0 /\ world <= MaxWorld /\ landed \in Nat /\ generation \in Nat /\ account \in Nat
    BY WorldAssumption, SMT DEF ScreensInit, CacheInit
  <2>2. switches \subseteq 1..world
    BY DEF ScreensInit
  <2>3. \A p \in Keys : shown[p] = Nothing
    BY DEF ScreensInit
  <2>4. shown \in [Keys -> Nat \cup {Nothing}] /\ job \in [Threads -> Jobs \cup {Nothing}]
    BY Zenon DEF ScreensInit
  <2>5. busy \in BOOLEAN /\ inView \in Keys
    BY HomesAssumption DEF ScreensInit
  <2>6. QED BY <2>1, <2>2, <2>3, <2>4, <2>5 DEF ScreensTypeOK
<1>3. \A t \in Threads : job[t] = Nothing /\ stage[t] = "idle" /\ ~changing[t]
  BY DEF ScreensInit, CacheInit
<1>4. ChangersInv
  BY <1>3 DEF ChangersInv, Changer
<1>5. LandedInv
  BY <1>3, SMT DEF LandedInv, Reader, ScreensInit, CacheInit
<1>6. QED BY <1>1, <1>2, <1>3, <1>4, <1>5 DEF ScreensInv, ScreensInit

\* Every step keeps the invariant.
LEMMA ScreensStep == ASSUME ScreensInv, [ScreensNext]_allVars PROVE ScreensInv'
<1>1. CacheInv'
  BY ScreensKeepCache DEF ScreensInv
<1>2. inView \in Keys
  BY DEF ScreensInv, ScreensTypeOK
<1> DEFINE Kept == ScreensTypeOK' /\ ChangersInv' /\ LandedInv'
<1>3. ASSUME NEW t \in Threads, NEW p \in Keys, LoadPage(t, p), inView' \in Keys,
             UNCHANGED <<world, threadVars, switches, landed, account, generation, busy, shown>>
      PROVE  Kept
  BY <1>3, LoadStarts DEF LoadPage, ClearForeign
<1>4. ASSUME NEW t \in Threads, Mounted(t) PROVE Kept
  <2>1. CASE LoadPage(t, inView)
    BY <1>2, <1>3, <1>4, <2>1 DEF Mounted
  <2>2. CASE UNCHANGED <<job, cacheVars>>
    BY <1>4, <2>2, RestGoesOn DEF Mounted, cacheVars, threadVars, callVars
  <2>3. QED BY <1>4, <2>1, <2>2 DEF Mounted
<1>5. ASSUME NEW t \in Threads, AskAgain(t) PROVE Kept
  BY <1>2, <1>5, LoadStarts DEF AskAgain, screenVars
<1>6. ASSUME NEW t \in Threads, NEW p \in Keys, OpenTab(t, p) PROVE Kept
  BY <1>3, <1>6 DEF OpenTab
<1>7. ASSUME Timer PROVE Kept
  BY <1>7, RestGoesOn DEF Timer, Expire, threadVars, callVars, appVars, screenVars
<1>8. ASSUME UNCHANGED allVars PROVE Kept
  BY <1>8, RestGoesOn
     DEF allVars, readVars, cacheVars, threadVars, callVars, appVars, screenVars
<1>9. ASSUME NEW t \in Threads, WorkerWrites(t) PROVE Kept
  BY <1>9, WriteGoesOn, WorldGoesOn
<1>10. ASSUME Outside PROVE Kept
  BY <1>10, OutsideGoesOn, WorldGoesOn
<1>11. ASSUME NEW t \in Threads, NEW p \in Keys, Preload(t, p) PROVE Kept
  BY <1>11, PreloadStarts
<1>12. ASSUME NEW t \in Threads,
              \/ WorkerAsks(t) \/ WorkerBegins(t) \/ WorkerEnds(t) \/ WorkerReads(t)
              \/ EndUnseen(t) \/ FinishJob(t)
       PROVE  Kept
  BY <1>12, AskGoesOn, BeginGoesOn, EndGoesOn, ReadGoesOn, UnseenGoesOn, FinishGoesOn
<1>13. ASSUME NEW t \in Threads, StartChange(t, "reload") \/ StartChange(t, "change")
       PROVE  Kept
  BY <1>13, ChangeStarts
<1> HIDE DEF Kept
<1>14. Kept
  BY <1>4, <1>5, <1>6, <1>7, <1>8, <1>9, <1>10, <1>11, <1>12, <1>13 DEF ScreensNext
<1>15. QED BY <1>1, <1>14 DEF Kept, ScreensInv

\* The invariant of the screens, over that of the cache: one change at a time, no
\* read of the present generation beside it, and such a read asked after the
\* last change returned.
THEOREM ScreensInductive == ScreensSpec => []ScreensInv
<1>1. ScreensInit => ScreensInv
  BY ScreensStart
<1>2. ScreensInv /\ [ScreensNext]_allVars => ScreensInv'
  BY ScreensStep
<1>3. QED BY <1>1, <1>2, PTL DEF ScreensSpec

\* No step but the end of an operation shows anything.
LEMMA OnlyFinishShows ==
  ASSUME [ScreensNext]_allVars, shown' # shown
  PROVE  \E t \in Threads : FinishJob(t)
BY DEF ScreensNext, allVars, appVars, screenVars, Mounted, AskAgain, StartChange, WorkerAsks,
   WorkerBegins, WorkerWrites, WorkerEnds, WorkerReads, EndUnseen, OpenTab, Preload, Outside, Timer

\* For any number of screens, threads and changes, rows only replace those on a
\* screen with what Router held when the last change of the app returned, or
\* later, whatever reads were out when the change was made.
THEOREM ChangesStay == ScreensSpec => ChangesStayShown
<1>1. ASSUME ScreensInv, [ScreensNext]_allVars,
             NEW p \in Keys, shown'[p] # shown[p], shown'[p] # Nothing
      PROVE  shown'[p] >= landed
  <2>1. PICK t \in Threads : FinishJob(t)
    BY <1>1, OnlyFinishShows
  <2>2. shown'[p] = value[t] /\ stage[t] = "answered" /\ ~Stale(t) /\ job[t].kind # "change"
    BY <1>1, <2>1, RowsShown
  <2>3. /\ job[t] # Nothing /\ job[t].kind # "unseen" /\ job[t].todo = "done"
        /\ job[t] \in Jobs
    BY <1>1, <2>1 DEF FinishJob, Ended, Does, ScreensInv, ScreensTypeOK
  <2>4. Reader(t) /\ job[t].generation = generation
    BY <2>2, <2>3, JobFields DEF Reader, Stale
  <2>5. landed <= due[t]
    BY <1>1, <2>3, <2>4 DEF ScreensInv, LandedInv
  <2>6. value[t] >= due[t] /\ value[t] \in Nat /\ due[t] \in Nat /\ landed \in Nat
    BY <1>1, <2>2, SMT DEF ScreensInv, ScreensTypeOK, CacheInv, CacheTypeOK, ValuesInv
  <2>7. QED BY <2>2, <2>5, <2>6, SMT
<1>2. ScreensInv /\ [ScreensNext]_allVars
        => [\A p \in Keys :
              shown'[p] # shown[p] /\ shown'[p] # Nothing => shown'[p] >= landed]_allVars
  BY <1>1
<1>3. QED BY ScreensInductive, <1>2, PTL DEF ScreensSpec, ChangesStayShown

-----------------------------------------------------------------------------
(* Whose rows a tab shows.  While no account comes back, the account signed *)
(* in to at a world is the number of sign-ins up to it.                     *)

\* Later worlds are of later accounts.
LEMMA AccountsGrow ==
  ASSUME MaxWorld < Accounts, NEW n \in Nat, n <= MaxWorld, NEW made \in SUBSET (1..n),
         NEW v \in Nat, NEW w \in Nat, v <= w
  PROVE  AccountOf(made, v) <= AccountOf(made, w)
<1> DEFINE upTo(x) == {s \in made : s <= x}
<1>1. IsFiniteSet(1..n) /\ Cardinality(1..n) = n
  BY FS_Interval
<1>2. upTo(w) \in SUBSET (1..n)
  OBVIOUS
<1>3. IsFiniteSet(upTo(w)) /\ Cardinality(upTo(w)) <= n
  BY <1>1, <1>2, FS_Subset
<1>4. upTo(v) \in SUBSET upTo(w)
  <2>1. \A s \in made : s \in 1..n
    OBVIOUS
  <2>2. \A s \in 1..n : s <= v => s <= w
    BY SMT
  <2>3. QED BY <2>1, <2>2, Zenon
<1>5. IsFiniteSet(upTo(v)) /\ Cardinality(upTo(v)) <= Cardinality(upTo(w))
  BY <1>3, <1>4, FS_Subset
<1>6. Cardinality(upTo(v)) \in Nat /\ Cardinality(upTo(w)) \in Nat
  BY <1>3, <1>5, FS_CardinalityType
<1> HIDE DEF upTo
<1>7. \A c \in Nat : c < Accounts => c % Accounts = c
  BY HomesAssumption, SMT
<1>8. Cardinality(upTo(v)) < Accounts /\ Cardinality(upTo(w)) < Accounts
  BY <1>3, <1>5, <1>6, HomesAssumption, WorldAssumption, SMT
<1>9. /\ Cardinality(upTo(v)) % Accounts = Cardinality(upTo(v))
      /\ Cardinality(upTo(w)) % Accounts = Cardinality(upTo(w))
  BY <1>6, <1>7, <1>8
<1>10. /\ AccountOf(made, v) = Cardinality(upTo(v)) % Accounts
       /\ AccountOf(made, w) = Cardinality(upTo(w)) % Accounts
  BY DEF AccountOf, upTo
<1>11. QED BY <1>5, <1>9, <1>10

\* A sign in or out leaves the worlds before it to their accounts.
LEMMA AccountsStay ==
  ASSUME NEW made, NEW m \in Nat, NEW w \in Nat, w < m
  PROVE  AccountOf(made \cup {m}, w) = AccountOf(made, w)
<1>1. {s \in made \cup {m} : s <= w} = {s \in made : s <= w}
  BY SMT
<1>2. QED BY <1>1 DEF AccountOf

\* What the accounts of the worlds compare by.
LEMMA WorldsKnown ==
  ASSUME ScreensInv
  PROVE  /\ world \in Nat /\ world <= MaxWorld /\ switches \in SUBSET (1..world)
         /\ floor \in Nat /\ floor <= world
         /\ \A t \in Threads : due[t] \in Nat /\ due[t] <= floor
         /\ \A p \in Keys : shown[p] # Nothing => shown[p] \in Nat /\ shown[p] <= world
BY SMT DEF ScreensInv, ScreensTypeOK, CacheInv, CacheTypeOK, EntriesInv, ValuesInv

\* A step of thread t that signs nobody in keeps what is known of the others' reads.
LEMMA AccountsGoOn ==
  ASSUME MaxWorld < Accounts, OwnInv, NEW t \in Threads, Carries(t),
         switches' = switches, floor' \in Nat, floor <= floor',
         account' <= AccountOf(switches, floor'),
         Reader(t)' => job'[t].account <= AccountOf(switches, floor'),
         Reader(t)' /\ job'[t].todo = "done" => job'[t].account <= AccountOf(switches, due'[t])
  PROVE  AccountsInv'
<1>1. ASSUME NEW u \in Threads \ {t}, Reader(u)'
      PROVE  /\ job'[u].account <= AccountOf(switches, floor')
             /\ job'[u].todo = "done" => job'[u].account <= AccountOf(switches, due'[u])
  <2>1. /\ Reader(u) /\ job[u].account = job'[u].account /\ job[u].todo = job'[u].todo
        /\ due'[u] = due[u] /\ job[u] \in Jobs
    BY <1>1 DEF Carries, Alike, Reader, OwnInv, ScreensInv, ScreensTypeOK
  <2>2. /\ job[u].account <= AccountOf(switches, floor)
        /\ job[u].todo = "done" => job[u].account <= AccountOf(switches, due[u])
    BY <2>1 DEF OwnInv, AccountsInv, AccountAt
  <2>3. AccountOf(switches, floor) <= AccountOf(switches, floor')
    BY AccountsGrow, WorldsKnown DEF OwnInv
  <2>4. /\ AccountOf(switches, floor) \in Nat /\ AccountOf(switches, floor') \in Nat
        /\ job[u].account \in Nat
    BY <2>1, JobFields, AccountNat, WorldsKnown DEF OwnInv
  <2>5. QED BY <2>1, <2>2, <2>3, <2>4, SMT
<1>2. QED BY <1>1 DEF AccountsInv, AccountAt

\* What the cache is cleared at, it stands for the account signed in to now.
LEMMA ClearedForNow ==
  ASSUME MaxWorld < Accounts, OwnInv, world' = world,
         \/ Invalidate
         \/ UNCHANGED cacheVars
  PROVE  /\ floor \in Nat /\ floor' \in Nat /\ floor <= floor'
         /\ account <= AccountOf(switches, floor')
         /\ Invalidate \/ Now = account => Now <= AccountOf(switches, floor')
<1>1. floor \in Nat /\ floor' \in Nat /\ floor <= floor'
  BY FloorRises DEF OwnInv
<1>2. account <= AccountOf(switches, floor) /\ account \in Nat
  BY DEF OwnInv, AccountsInv, AccountAt, ScreensInv, ScreensTypeOK
<1>3. AccountOf(switches, floor) <= AccountOf(switches, floor')
  BY <1>1, AccountsGrow, WorldsKnown DEF OwnInv
<1>4. AccountOf(switches, floor) \in Nat /\ AccountOf(switches, floor') \in Nat
  BY <1>1, AccountNat, WorldsKnown DEF OwnInv
<1>5. account <= AccountOf(switches, floor')
  BY <1>2, <1>3, <1>4, SMT
<1>6. Invalidate => Now = AccountOf(switches, floor')
  BY DEF Invalidate, Now, AccountAt
<1>7. Invalidate \/ Now = account => Now <= AccountOf(switches, floor')
  BY <1>4, <1>5, <1>6, SMT
<1>8. QED BY <1>1, <1>5, <1>7

\* A step that shows nothing and signs nobody in leaves every tab to its account.
LEMMA TabsStay ==
  ASSUME OwnInv, UNCHANGED <<switches, shown, account>>
  PROVE  TabRowsAreOwn'
BY DEF OwnInv, TabRowsAreOwn, AccountAt

\* A read is started for the account it will be owed rows of.
LEMMA LoadIsOwn ==
  ASSUME MaxWorld < Accounts, OwnInv, NEW t \in Threads, NEW p \in Keys, ~busy, Free(t),
         Take(t, p, "load", "read", generation),
         Invalidate \/ (UNCHANGED cacheVars /\ Now = account),
         UNCHANGED <<world, threadVars, switches, landed, account, generation, busy, shown>>,
         inView' \in Keys
  PROVE  AccountsInv' /\ TabRowsAreOwn'
<1>1. Carries(t) /\ job'[t].todo = "read" /\ job'[t].account = Now
  BY LoadStarts DEF OwnInv
<1>2. /\ floor \in Nat /\ floor' \in Nat /\ floor <= floor'
      /\ account <= AccountOf(switches, floor') /\ Now <= AccountOf(switches, floor')
  BY ClearedForNow
<1>3. AccountsInv'
  BY <1>1, <1>2, AccountsGoOn
<1>4. QED BY <1>3, TabsStay

\* So is the reload behind a change.
LEMMA ChangeIsOwn ==
  ASSUME MaxWorld < Accounts, OwnInv, NEW t \in Threads, NEW kind \in {"reload", "change"},
         StartChange(t, kind)
  PROVE  AccountsInv' /\ TabRowsAreOwn'
<1>1. Carries(t) /\ job'[t].todo = "change" /\ job'[t].account = Now /\ job'[t].kind = kind
  BY ChangeStarts DEF OwnInv
<1>2. UNCHANGED <<world, switches, shown, account>>
  BY DEF StartChange
<1>3. /\ Invalidate \/ UNCHANGED cacheVars
      /\ kind = "reload" => Invalidate \/ Now = account
  BY DEF StartChange, ClearForeign
<1>4. /\ floor \in Nat /\ floor' \in Nat /\ floor <= floor'
      /\ account <= AccountOf(switches, floor')
      /\ kind = "reload" => Now <= AccountOf(switches, floor')
  BY <1>2, <1>3, ClearedForNow
<1>5. Reader(t)' => kind = "reload"
  BY <1>1 DEF Reader
<1>6. AccountsInv'
  BY <1>1, <1>2, <1>4, <1>5, AccountsGoOn
<1>7. QED BY <1>2, <1>6, TabsStay

\* A sign in or out concerns later worlds alone.
LEMMA WorldIsOwn ==
  ASSUME OwnInv, world' = world \/ (world < MaxWorld /\ world' = world + 1),
         switches' = switches \/ (world' # world /\ switches' = switches \cup {world'}),
         UNCHANGED <<generation, busy, landed, due, floor, account, inView, shown, job, changing>>,
         \A u \in Threads : Writing(u)' <=> Writing(u)
  PROVE  AccountsInv' /\ TabRowsAreOwn'
<1>1. /\ world \in Nat /\ floor \in Nat /\ floor <= world
      /\ \A t \in Threads : due[t] \in Nat /\ due[t] <= world
      /\ \A p \in Keys : shown[p] # Nothing => shown[p] \in Nat /\ shown[p] <= world
  BY WorldsKnown, SMT DEF OwnInv
<1>2. ASSUME NEW w \in Nat, w <= world
      PROVE  AccountOf(switches', w) = AccountOf(switches, w)
  <2>1. CASE switches' = switches
    BY <2>1
  <2>2. CASE world' # world /\ switches' = switches \cup {world'}
    <3>1. world' \in Nat /\ w < world'
      BY <1>1, <1>2, <2>2, SMT
    <3>2. QED BY <2>2, <3>1, AccountsStay
  <2>3. QED BY <2>1, <2>2
<1>3. AccountsInv'
  <2>1. AccountOf(switches', floor) = AccountOf(switches, floor)
    BY <1>1, <1>2
  <2>2. \A t \in Threads : AccountOf(switches', due[t]) = AccountOf(switches, due[t])
    BY <1>1, <1>2
  <2>3. QED BY <2>1, <2>2 DEF OwnInv, AccountsInv, AccountAt, Reader
<1>4. TabRowsAreOwn'
  <2>1. \A p \in Keys : shown[p] # Nothing => AccountOf(switches', shown[p]) = AccountOf(switches, shown[p])
    BY <1>1, <1>2
  <2>2. QED BY <2>1 DEF OwnInv, TabRowsAreOwn, AccountAt
<1>5. QED BY <1>3, <1>4

\* A worker's read is owed no less than when it was started.
LEMMA WorkerIsOwn ==
  ASSUME MaxWorld < Accounts, OwnInv, NEW t \in Threads,
         WorkerAsks(t) \/ WorkerBegins(t) \/ WorkerEnds(t) \/ EndUnseen(t)
  PROVE  AccountsInv' /\ TabRowsAreOwn'
<1>1. /\ UNCHANGED <<world, switches, shown, account>>
      /\ Invalidate \/ UNCHANGED cacheVars
  BY DEF WorkerAsks, WorkerBegins, WorkerEnds, EndUnseen, Ask, BeginChange, EndChange, Return,
     appVars, screenVars
<1>2. /\ Carries(t) /\ (Reader(t)' => Reader(t) /\ job'[t].account = job[t].account)
      /\ Reader(t)' /\ job'[t].todo = "done" => due'[t] = floor \/ (due' = due /\ job'[t] = job[t])
  BY AskGoesOn, BeginGoesOn, EndGoesOn, UnseenGoesOn DEF OwnInv, Reader
<1>3. /\ floor \in Nat /\ floor' \in Nat /\ floor <= floor'
      /\ account <= AccountOf(switches, floor')
  BY <1>1, ClearedForNow
<1>4. Reader(t)' => job'[t].account <= AccountOf(switches, floor')
  <2>1. AccountOf(switches, floor) <= AccountOf(switches, floor')
    BY <1>3, AccountsGrow, WorldsKnown DEF OwnInv
  <2>2. AccountOf(switches, floor) \in Nat /\ AccountOf(switches, floor') \in Nat
    BY <1>3, AccountNat, WorldsKnown DEF OwnInv
  <2>3. Reader(t) => job[t].account \in Nat /\ job[t].account <= AccountOf(switches, floor)
    BY JobFields DEF OwnInv, AccountsInv, AccountAt, Reader, ScreensInv, ScreensTypeOK
  <2>4. QED BY <1>2, <2>1, <2>2, <2>3, SMT
<1>5. Reader(t)' /\ job'[t].todo = "done" => job'[t].account <= AccountOf(switches, due'[t])
  BY <1>2 DEF OwnInv, AccountsInv, AccountAt
<1>6. AccountsInv'
  BY <1>1, <1>2, <1>3, <1>4, <1>5, AccountsGoOn
<1>7. QED BY <1>1, <1>6, TabsStay

\* The rows an operation ends with are of the account it was started for: its
\* answer is no older than that sign-in, and no later one has come.
LEMMA FinishIsOwn ==
  ASSUME MaxWorld < Accounts, OwnInv, NEW t \in Threads, FinishJob(t)
  PROVE  AccountsInv' /\ TabRowsAreOwn'
<1>1. /\ Carries(t) /\ job[t] # Nothing /\ job[t].todo = "done" /\ job[t].kind # "unseen"
      /\ job'[t] # Nothing => job'[t].todo = "read" /\ job'[t].account = Now
  BY FinishGoesOn DEF OwnInv
<1>2. /\ world' = world /\ switches' = switches /\ account' = Now
      /\ Invalidate \/ (UNCHANGED cacheVars /\ Now = account)
  BY DEF FinishJob, AccountChanged
<1>3. /\ floor \in Nat /\ floor' \in Nat /\ floor <= floor'
      /\ Now <= AccountOf(switches, floor')
  BY <1>2, ClearedForNow
<1>4. AccountsInv'
  BY <1>1, <1>2, <1>3, AccountsGoOn DEF Reader
<1>5. ASSUME NEW p \in Keys \ Homes, shown'[p] # Nothing
      PROVE  AccountOf(switches, shown'[p]) = Now
  <2>1. CASE shown'[p] = shown[p]
    <3>1. p \notin Dropped
      BY <1>5 DEF FinishJob
    <3>2. Now = account
      BY <1>5, <3>1 DEF Dropped
    <3>3. QED BY <1>5, <2>1, <3>2 DEF OwnInv, TabRowsAreOwn, AccountAt
  <2>2. CASE /\ shown'[p] = value[t] /\ stage[t] = "answered"
             /\ ~Stale(t) /\ job[t].kind # "change"
    <3>1. job[t] \in Jobs /\ job[t].account = Now /\ Reader(t)
      BY <1>1, <2>2, JobFields DEF Stale, Reader, OwnInv, ScreensInv, ScreensTypeOK
    <3>2. Now <= AccountOf(switches, due[t])
      BY <1>1, <3>1 DEF OwnInv, AccountsInv, AccountAt
    <3>3. due[t] \in Nat /\ value[t] \in Nat /\ due[t] <= value[t] /\ value[t] <= world
      BY <2>2, SMT DEF OwnInv, ScreensInv, CacheInv, CacheTypeOK, ValuesInv
    <3>4. /\ AccountOf(switches, due[t]) <= AccountOf(switches, value[t])
          /\ AccountOf(switches, value[t]) <= Now
      BY <3>3, AccountsGrow, WorldsKnown DEF OwnInv, Now, AccountAt
    <3>5. /\ AccountOf(switches, due[t]) \in Nat /\ AccountOf(switches, value[t]) \in Nat
          /\ Now \in Nat
      BY <3>3, AccountNat, WorldsKnown, NowNat DEF OwnInv
    <3>6. AccountOf(switches, value[t]) = Now
      BY <3>2, <3>4, <3>5, SMT
    <3>7. QED BY <2>2, <3>6
  <2>3. QED BY <1>5, <2>1, <2>2, RowsShown DEF OwnInv
<1>6. TabRowsAreOwn'
  BY <1>2, <1>5 DEF TabRowsAreOwn, AccountAt
<1>7. QED BY <1>4, <1>6

\* The rest changes nothing of this.
LEMMA RestIsOwn ==
  ASSUME OwnInv, UNCHANGED <<switches, floor, due, account, shown, job>>
  PROVE  AccountsInv' /\ TabRowsAreOwn'
BY DEF OwnInv, AccountsInv, TabRowsAreOwn, AccountAt, Reader

\* A preload is shown to nobody.
LEMMA PreloadIsOwn ==
  ASSUME MaxWorld < Accounts, OwnInv, NEW t \in Threads, NEW p \in Keys, Preload(t, p)
  PROVE  AccountsInv' /\ TabRowsAreOwn'
<1>1. Carries(t) /\ ~Reader(t)'
  BY PreloadStarts DEF OwnInv, Reader
<1>2. UNCHANGED <<world, switches, shown, account>> /\ UNCHANGED cacheVars
  BY DEF Preload, readVars, screenVars
<1>3. /\ floor \in Nat /\ floor' \in Nat /\ floor <= floor'
      /\ account <= AccountOf(switches, floor')
  BY <1>2, ClearedForNow
<1>4. AccountsInv'
  BY <1>1, <1>2, <1>3, AccountsGoOn
<1>5. QED BY <1>2, <1>4, TabsStay

\* Every step keeps the rows of every tab its own.
LEMMA OwnStep ==
  ASSUME MaxWorld < Accounts, OwnInv, [ScreensNext]_allVars PROVE OwnInv'
<1>1. ScreensInv' /\ inView \in Keys
  BY ScreensStep DEF OwnInv, ScreensInv, ScreensTypeOK
<1> DEFINE Kept == AccountsInv' /\ TabRowsAreOwn'
<1>2. ASSUME NEW t \in Threads, NEW p \in Keys, LoadPage(t, p), inView' \in Keys,
             UNCHANGED <<world, threadVars, switches, landed, account, generation, busy, shown>>
      PROVE  Kept
  BY <1>2, LoadIsOwn DEF LoadPage, ClearForeign
<1>3. ASSUME NEW t \in Threads, Mounted(t) PROVE Kept
  <2>1. CASE LoadPage(t, inView)
    BY <1>1, <1>2, <1>3, <2>1 DEF Mounted
  <2>2. CASE UNCHANGED <<job, cacheVars>>
    BY <1>3, <2>2, RestIsOwn DEF Mounted, cacheVars, threadVars, callVars
  <2>3. QED BY <1>3, <2>1, <2>2 DEF Mounted
<1>4. ASSUME NEW t \in Threads, AskAgain(t) PROVE Kept
  BY <1>1, <1>4, LoadIsOwn DEF AskAgain, screenVars
<1>5. ASSUME NEW t \in Threads, NEW p \in Keys, OpenTab(t, p) PROVE Kept
  BY <1>2, <1>5 DEF OpenTab
<1>6. ASSUME Timer \/ UNCHANGED allVars PROVE Kept
  BY <1>6, RestIsOwn
     DEF Timer, Expire, allVars, readVars, cacheVars, threadVars, callVars, appVars, screenVars
<1>7. ASSUME Outside PROVE Kept
  BY <1>7, OutsideGoesOn, WorldIsOwn DEF OwnInv
<1>8. ASSUME NEW t \in Threads, WorkerWrites(t) PROVE Kept
  BY <1>8, WriteGoesOn, WorldIsOwn DEF OwnInv
<1>9. ASSUME NEW t \in Threads, WorkerReads(t) PROVE Kept
  BY <1>9, ReadGoesOn, RestIsOwn DEF OwnInv
<1>10. ASSUME NEW t \in Threads,
              WorkerAsks(t) \/ WorkerBegins(t) \/ WorkerEnds(t) \/ EndUnseen(t) \/ FinishJob(t)
       PROVE  Kept
  BY <1>10, WorkerIsOwn, FinishIsOwn
<1>11. ASSUME NEW t \in Threads, StartChange(t, "reload") \/ StartChange(t, "change")
       PROVE  Kept
  BY <1>11, ChangeIsOwn
<1>12. ASSUME NEW t \in Threads, NEW p \in Keys, Preload(t, p) PROVE Kept
  BY <1>12, PreloadIsOwn
<1> HIDE DEF Kept
<1>13. Kept
  BY <1>3, <1>4, <1>5, <1>6, <1>7, <1>8, <1>9, <1>10, <1>11, <1>12 DEF ScreensNext
<1>14. QED BY <1>1, <1>13 DEF Kept, OwnInv

\* A tab never shows the rows of another account, for any number of threads,
\* screens, changes and sign-ins, as long as no account comes back: a login that
\* leaves an account and returns to it within one read is told from none by its
\* account alone, which is all the app compares.
THEOREM TabsAreOwn ==
  ASSUME MaxWorld < Accounts
  PROVE  ScreensSpec => []TabRowsAreOwn
<1>1. ScreensInit => OwnInv
  <2> SUFFICES ASSUME ScreensInit PROVE OwnInv
    OBVIOUS
  <2>1. ScreensInv /\ account = 0 /\ \A t \in Threads : job[t] = Nothing
    BY ScreensStart
  <2>2. AccountOf(switches, floor) \in Nat
    BY <2>1, AccountNat, WorldsKnown
  <2>3. AccountsInv
    BY <2>1, <2>2, SMT DEF AccountsInv, AccountAt, Reader
  <2>4. TabRowsAreOwn
    BY ScreensStart DEF TabRowsAreOwn
  <2>5. QED BY <2>1, <2>3, <2>4 DEF OwnInv
<1>2. OwnInv /\ [ScreensNext]_allVars => OwnInv'
  BY OwnStep
<1>3. OwnInv => TabRowsAreOwn
  BY DEF OwnInv
<1>4. QED BY <1>1, <1>2, <1>3, PTL DEF ScreensSpec
=============================================================================
