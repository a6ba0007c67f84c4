-------------------------- MODULE ScheduledTickProofs --------------------------
(***************************************************************************)
(* Proofs about ScheduledTick, for every set of connections, every way     *)
(* setups use them, every length of a day and of the cooldown, and any     *)
(* number of faults.                                                       *)
(*                                                                         *)
(* The judgement of a run (Judged) is first taken apart into named parts,  *)
(* each step into the fields it writes.  Then four invariants, each        *)
(* inductive given those before it:                                        *)
(*   TickTypes     everything has its type;                                *)
(*   KeepInv       what is recorded was told, retries are of connections   *)
(*                 not revoked, a run that has judged leaves nothing due:  *)
(*                 RunsSettle follows;                                     *)
(*   ManifestInv   a manifest written for this state describes it as time  *)
(*                 passes: AgentAgrees follows;                            *)
(*   ReachInv      what is recorded is on its way, in the state and in the *)
(*                 state a refresh is about to save: it implies            *)
(*                 NothingForgotten.                                       *)
(***************************************************************************)
EXTENDS ScheduledTick, FiniteSetTheorems, TLAPS

USE ConnsAssumption, TimesAssumption

-----------------------------------------------------------------------------
(* Times.                                                                   *)

\* A set of naturals has a least member: the numbers up to it are a least one
\* among the finite sets of numbers up to a member.
LEMMA LeastMember ==
  ASSUME NEW S \in SUBSET Nat, S # {}
  PROVE  Least(S) \in S /\ \A y \in S : Least(S) <= y
<1> DEFINE Upto == {0..x : x \in S}
<1>1. Upto \subseteq FiniteSubsetsOf(Nat) /\ Upto # {}
  <2>1. ASSUME NEW x \in S PROVE 0..x \in SUBSET Nat /\ IsFiniteSet(0..x)
    BY FS_Interval
  <2>2. \A x \in S : 0..x \in FiniteSubsetsOf(Nat)
    BY <2>1, Zenon DEF FiniteSubsetsOf
  <2>3. PICK x \in S : TRUE
    OBVIOUS
  <2>4. 0..x \in Upto
    BY Zenon
  <2>5. QED BY <2>2, <2>4, Zenon
<1>2. \E X \in Upto : \A Y \in Upto : ~(<<Y, X>> \in StrictSubsetOrdering(Nat))
  <2> HIDE DEF Upto
  <2> QED BY <1>1, FS_StrictSubsetOrderingWellFounded, WFMin, Zenon
<1>3. PICK x \in S : \A y \in S : ~(<<0..y, 0..x>> \in StrictSubsetOrdering(Nat))
  BY <1>2, Zenon
<1>4. ASSUME NEW y \in S PROVE x <= y
  <2>1. SUFFICES ASSUME y < x PROVE FALSE
    BY <1>3
  <2>2. 0..y \in SUBSET Nat /\ 0..x \in SUBSET Nat /\ 0..y \subseteq 0..x /\ x \in 0..x /\ x \notin 0..y
    BY <2>1
  <2>3. <<0..y, 0..x>> \in StrictSubsetOrdering(Nat)
    BY <2>2 DEF StrictSubsetOrdering
  <2>4. QED BY <1>3, <2>3, Zenon
<1>5. QED BY <1>3, <1>4, Zenon DEF Least

\* The greater of two numbers.
LEMMA Greater ==
  ASSUME NEW a \in Nat, NEW b \in Nat
  PROVE  /\ Most({a, b}) \in {a, b} /\ a <= Most({a, b}) /\ b <= Most({a, b})
<1>1. \E x \in {a, b} : \A y \in {a, b} : x >= y
  OBVIOUS
<1>2. Most({a, b}) \in {a, b} /\ \A y \in {a, b} : Most({a, b}) >= y
  BY <1>1, Zenon DEF Most
<1>3. QED BY <1>2

\* The next delay, which is one.
LEMMA Delays ==
  ASSUME NEW s, s.delay \in Nat
  PROVE  Backoff(s) \in Nat \ {0}
<1>1. CASE s.delay = 0
  BY <1>1 DEF Backoff
<1>2. CASE s.delay # 0
  <2>1. 2 * s.delay \in Nat \ {0} /\ Day \in Nat \ {0}
    BY <1>2
  <2>2. Least({2 * s.delay, Day}) \in {2 * s.delay, Day}
    BY <2>1, LeastMember
  <2>3. QED BY <1>2, <2>1, <2>2 DEF Backoff
<1>3. QED BY <1>1, <1>2

\* An hour less.
LEMMA LessTimes ==
  /\ Less(None) = None
  /\ \A n \in Nat : Less(n) \in Nat /\ (n = 0 => Less(n) = 0) /\ (n # 0 => Less(n) = n - 1)
  /\ \A m, n \in Nat : m <= n => Less(m) <= Less(n)
BY DEF Less

\* An hour passes before the greater of two times as before each.
LEMMA LessGreater ==
  ASSUME NEW a \in Nat, NEW b \in Nat
  PROVE  Less(Most({a, b})) = Most({Less(a), Less(b)})
<1>1. Less(a) \in Nat /\ Less(b) \in Nat
  BY LessTimes
<1>2. /\ Most({a, b}) \in {a, b} /\ a <= Most({a, b}) /\ b <= Most({a, b})
      /\ Most({Less(a), Less(b)}) \in {Less(a), Less(b)}
      /\ Less(a) <= Most({Less(a), Less(b)}) /\ Less(b) <= Most({Less(a), Less(b)})
  BY <1>1, Greater
<1>3. Less(a) <= Less(Most({a, b})) /\ Less(b) <= Less(Most({a, b}))
  BY <1>2, LessTimes
<1>4. Less(Most({a, b})) \in {Less(a), Less(b)}
  BY <1>2
<1>5. QED BY <1>1, <1>2, <1>3, <1>4

\* The least of a set of times, an hour later.
LEMMA LessLeast ==
  ASSUME NEW S \in SUBSET Nat, S # {}
  PROVE  Least({Less(x) : x \in S}) = Less(Least(S))
<1> DEFINE T == {Less(x) : x \in S}
<1>1. T \in SUBSET Nat /\ T # {}
  <2>1. \A x \in S : Less(x) \in Nat
    BY LessTimes
  <2>2. PICK x \in S : TRUE
    OBVIOUS
  <2>3. Less(x) \in T
    BY Zenon
  <2>4. QED BY <2>1, <2>3, Zenon
<1>2. Least(T) \in T /\ \A y \in T : Least(T) <= y
  <2> HIDE DEF T
  <2> QED BY <1>1, LeastMember
<1>3. Least(S) \in S /\ \A y \in S : Least(S) <= y
  BY LeastMember
<1>4. Less(Least(S)) \in T
  BY <1>3
<1>5. PICK x \in S : Least(T) = Less(x)
  BY <1>2
<1>6. Less(Least(S)) <= Less(x)
  BY <1>3, <1>5, LessTimes
<1>7. Least(T) <= Less(Least(S))
  BY <1>2, <1>4
<1>8. Less(x) \in Nat /\ Less(Least(S)) \in Nat
  BY <1>1, <1>3, LessTimes
<1>9. QED BY <1>5, <1>6, <1>7, <1>8

-----------------------------------------------------------------------------
(* What is kept and what runs.                                              *)

Seen == {"now", "old", "?"}
Ages == {None} \cup 0..Day
States == [versions : [Conns -> [Parts -> Seen]], retry : SUBSET Conns, after : Nat \cup {None},
           delay : Nat, last : Ages, revoked : [Conns -> Ages], cowork : BOOLEAN]
Judgements == [at : {"refresh", "done", "failed", "manifest"}, seen : SUBSET (Conns \X Parts),
               older : BOOLEAN, skip : SUBSET Conns, pinned : SUBSET Conns,
               done : States, failed : States]
Runs == [at : {"start"}] \cup Judgements
Manifests == [expected : [Conns -> [Parts -> Seen]], due : Nat, unsupported : Nat,
              skip : [Conns -> Nat], wait : {"open", "none", "closed"}]

TickTypes ==
  /\ state \in States
  /\ cooldown \in Nat
  /\ manifest \in {None} \cup Manifests
  /\ run \in {None} \cup Runs
  /\ agent \in BOOLEAN /\ combined \in BOOLEAN /\ desktop \in BOOLEAN /\ deskFresh \in BOOLEAN
  /\ fresh \in SUBSET (Conns \X Parts) /\ rejected \in SUBSET Conns /\ unread \in SUBSET Conns

\* What a state keeps is of its type.
LEMMA StateFields ==
  ASSUME NEW s \in States
  PROVE  /\ s.versions \in [Conns -> [Parts -> Seen]] /\ s.retry \in SUBSET Conns
         /\ s.after \in Nat \cup {None} /\ s.delay \in Nat /\ s.last \in Ages
         /\ s.revoked \in [Conns -> Ages] /\ s.cowork \in BOOLEAN
BY Zenon DEF States

\* The connections by what Router answers for them.
Recent(s) == {c \in Conns : RecentlyRevoked(s, c)}
Among(s, out, os) == {c \in Conns \ Recent(s) : out[c] \in os}
Revoked(s, out) == Recent(s) \cup Among(s, out, {"revoked"})
Away(s, out) == Among(s, out, {"unavailable"})
OlderOnes(s, out) == Among(s, out, {"unsupported"})
Heard(s, out) == Among(s, out, {"ok", "partial"})
Reached(s, out) == Heard(s, out) \cup OlderOnes(s, out)
Owed(s, out) == s.retry \cap (Reached(s, out) \cup Away(s, out))

\* The state with what is revoked, ...
BaseAfter(s, out) == IF Owed(s, out) = {} THEN None ELSE s.after
BaseDelay(s, out) == IF Owed(s, out) = {} THEN 0 ELSE s.delay
BaseRevoked(s, out) ==
  [c \in Conns |-> IF c \in Recent(s) THEN s.revoked[c]
                   ELSE IF c \in Revoked(s, out) THEN 0 ELSE None]
Base(s, out) ==
  [versions |-> s.versions, retry |-> Owed(s, out), after |-> BaseAfter(s, out),
   delay |-> BaseDelay(s, out), last |-> s.last,
   revoked |-> BaseRevoked(s, out), cowork |-> s.cowork]
Backing(s, out) == BaseAfter(s, out) \notin {None, 0}

\* ... after a refresh, ...
Recorded(s, out) ==
  [c \in Conns |-> IF c \in Heard(s, out) THEN Version(s, c, out[c]) ELSE s.versions[c]]
DoneAfter(s, out) ==
  IF Away(s, out) = {} THEN None
  ELSE IF Backing(s, out) THEN Base(s, out).after ELSE Backoff(Base(s, out))
DoneDelay(s, out) ==
  IF Away(s, out) = {} THEN 0
  ELSE IF Backing(s, out) THEN Base(s, out).delay ELSE Backoff(Base(s, out))
Done(s, out) ==
  [versions |-> Recorded(s, out), retry |-> Away(s, out),
   after |-> DoneAfter(s, out), delay |-> DoneDelay(s, out),
   last |-> 0, revoked |-> BaseRevoked(s, out), cowork |-> FALSE]

\* ... a failed one, and none.
Failed(s, out) ==
  [versions |-> Recorded(s, out), retry |-> Away(s, out) \cup Reached(s, out),
   after |-> Backoff(Base(s, out)), delay |-> Backoff(Base(s, out)),
   last |-> 0, revoked |-> BaseRevoked(s, out), cowork |-> s.cowork]
Missed(s, out) ==
  \/ Base(s, out).after = 0 /\ Owed(s, out) \cap Away(s, out) # {}
  \/ Away(s, out) # {} /\ ~Backing(s, out) /\ FullDue(s)
Postponed(s, out) ==
  [versions |-> s.versions, retry |-> Owed(s, out) \cup Away(s, out),
   after |-> Backoff(Base(s, out)), delay |-> Backoff(Base(s, out)), last |-> s.last,
   revoked |-> BaseRevoked(s, out), cowork |-> s.cowork]
Kept(s, out) == IF Missed(s, out) THEN Postponed(s, out) ELSE Base(s, out)
Due(s, out) ==
  /\ Reached(s, out) # {}
  /\ \/ \E c \in Heard(s, out) : Version(s, c, out[c]) # s.versions[c]
     \/ Base(s, out).after = 0 /\ Owed(s, out) \cap Reached(s, out) # {}
     \/ ~Backing(s, out) /\ (FullDue(s) \/ (OlderOnes(s, out) # {} /\ cooldown = 0))
Read(s, out) ==
  (Heard(s, out) \X {"models"}) \cup ({c \in Heard(s, out) : out[c] = "ok"} \X {"defaults"})

\* A state with other dates.
Redated(s, retry, after, delay, revoked) ==
  [s EXCEPT !.retry = retry, !.after = after, !.delay = delay, !.revoked = revoked]

\* The record that EXCEPT makes of a state, field by field.
LEMMA RedatedAs ==
  ASSUME NEW s \in States, NEW retry, NEW after, NEW delay, NEW revoked
  PROVE  Redated(s, retry, after, delay, revoked)
           = [versions |-> s.versions, retry |-> retry, after |-> after, delay |-> delay,
              last |-> s.last, revoked |-> revoked, cowork |-> s.cowork]
<1>1. ASSUME NEW n, n = [s EXCEPT !.retry = retry, !.after = after, !.delay = delay,
                                  !.revoked = revoked]
      PROVE  n = [versions |-> s.versions, retry |-> retry, after |-> after, delay |-> delay,
                  last |-> s.last, revoked |-> revoked, cowork |-> s.cowork]
  BY <1>1, Zenon DEF States
<1>2. QED BY <1>1, Zenon DEF Redated

\* What a run makes of the answers, part by part.
JudgedBase(s, out) ==
  [s EXCEPT !.retry = Owed(s, out),
            !.after = IF Owed(s, out) = {} THEN None ELSE @,
            !.delay = IF Owed(s, out) = {} THEN 0 ELSE @,
            !.revoked = [c \in Conns |->
              IF c \in Recent(s) THEN @[c] ELSE IF c \in Revoked(s, out) THEN 0 ELSE None]]
JudgedDone(s, out) ==
  [JudgedBase(s, out) EXCEPT
     !.versions = [c \in Conns |->
       IF c \in Heard(s, out) THEN Version(s, c, out[c]) ELSE @[c]],
     !.last = 0,
     !.retry = Away(s, out),
     !.after = IF Away(s, out) = {} THEN None
               ELSE IF JudgedBase(s, out).after \notin {None, 0} THEN @
               ELSE Backoff(JudgedBase(s, out)),
     !.delay = IF Away(s, out) = {} THEN 0
               ELSE IF JudgedBase(s, out).after \notin {None, 0} THEN @
               ELSE Backoff(JudgedBase(s, out)),
     !.cowork = FALSE]

\* What Judged returns, each of its parts under a name of its own.
LEMMA JudgedParts ==
  ASSUME NEW s, NEW out
  PROVE  LET j == Judged(s, out) b == JudgedBase(s, out) IN
         /\ j.due = (/\ Reached(s, out) # {}
                     /\ \/ \E c \in Heard(s, out) : Version(s, c, out[c]) # s.versions[c]
                        \/ b.after = 0 /\ Owed(s, out) \cap Reached(s, out) # {}
                        \/ /\ ~(b.after \notin {None, 0})
                           /\ FullDue(s) \/ (OlderOnes(s, out) # {} /\ cooldown = 0))
         /\ j.skip = Revoked(s, out) \cup Away(s, out)
         /\ j.older = (OlderOnes(s, out) # {})
         /\ j.pinned = Heard(s, out)
         /\ j.seen = Read(s, out)
         /\ j.revoked = Revoked(s, out)
         /\ j.kept = IF \/ b.after = 0 /\ Owed(s, out) \cap Away(s, out) # {}
                        \/ /\ Away(s, out) # {} /\ ~(b.after \notin {None, 0})
                           /\ FullDue(s)
                     THEN PutOff(b, Owed(s, out) \cup Away(s, out)) ELSE b
         /\ j.done = JudgedDone(s, out)
         /\ j.failed = [JudgedDone(s, out) EXCEPT
                          !.retry = Retried(Away(s, out), Reached(s, out)), !.after = Backoff(b),
                          !.delay = Backoff(b), !.cowork = s.cowork]
BY Zenon DEF Judged, JudgedBase, JudgedDone, Recent, Among, Revoked, Away, OlderOnes, Heard,
         Reached, Owed, Read

\* The state a judgement starts from, with revoked connections out of the retry.
LEMMA JudgedBaseAs ==
  ASSUME NEW s \in States, NEW out
  PROVE  JudgedBase(s, out) = Base(s, out)
<1>1. JudgedBase(s, out) = Redated(s, Owed(s, out), BaseAfter(s, out),
                                   BaseDelay(s, out), BaseRevoked(s, out))
  BY Zenon DEF JudgedBase, Redated, BaseAfter, BaseDelay, BaseRevoked
<1>2. QED BY <1>1, RedatedAs DEF Base

\* That state is one, and has these fields.
LEMMA BaseState ==
  ASSUME NEW s \in States, NEW out
  PROVE  /\ Base(s, out) \in States
         /\ Base(s, out).after = BaseAfter(s, out) /\ Base(s, out).delay \in Nat
         /\ Base(s, out).versions = s.versions /\ Base(s, out).retry = Owed(s, out)
         /\ Base(s, out).revoked = BaseRevoked(s, out) /\ Base(s, out).last = s.last
         /\ Base(s, out).cowork = s.cowork
         /\ BaseRevoked(s, out) \in [Conns -> Ages]
         /\ BaseAfter(s, out) \in Nat \cup {None}
<1>1. /\ s.versions \in [Conns -> [Parts -> Seen]] /\ s.retry \in SUBSET Conns
      /\ s.after \in Nat \cup {None} /\ s.delay \in Nat /\ s.last \in Ages
      /\ s.revoked \in [Conns -> Ages] /\ s.cowork \in BOOLEAN
  BY StateFields
<1>2. Owed(s, out) \in SUBSET Conns
  BY <1>1 DEF Owed
<1>3. BaseAfter(s, out) \in Nat \cup {None}
  BY <1>1 DEF BaseAfter
<1>4. BaseRevoked(s, out) \in [Conns -> Ages]
  BY <1>1 DEF BaseRevoked, Ages
<1>5. BaseDelay(s, out) \in Nat
  BY <1>1 DEF BaseDelay
<1>6. QED BY <1>1, <1>2, <1>3, <1>4, <1>5, Zenon DEF Base, States

\* A state after a refresh, and one with other dates.
Renewed(b, versions, last, retry, after, delay, cowork) ==
  [b EXCEPT !.versions = versions, !.last = last, !.retry = retry, !.after = after,
            !.delay = delay, !.cowork = cowork]

\* The state after a refresh, field by field.
LEMMA RenewedAs ==
  ASSUME NEW b \in States, NEW versions, NEW last, NEW retry, NEW after, NEW delay, NEW cowork
  PROVE  Renewed(b, versions, last, retry, after, delay, cowork)
           = [versions |-> versions, retry |-> retry, after |-> after, delay |-> delay,
              last |-> last, revoked |-> b.revoked, cowork |-> cowork]
<1>1. ASSUME NEW n, n = [b EXCEPT !.versions = versions, !.last = last, !.retry = retry,
                                  !.after = after, !.delay = delay, !.cowork = cowork]
      PROVE  n = [versions |-> versions, retry |-> retry, after |-> after, delay |-> delay,
                  last |-> last, revoked |-> b.revoked, cowork |-> cowork]
  BY <1>1, Zenon DEF States
<1>2. QED BY <1>1, Zenon DEF Renewed

Refailed(d, retry, after, delay, cowork) ==
  [d EXCEPT !.retry = retry, !.after = after, !.delay = delay, !.cowork = cowork]

\* The state after a failed refresh, field by field.
LEMMA RefailedAs ==
  ASSUME NEW d \in States, NEW retry, NEW after, NEW delay, NEW cowork
  PROVE  Refailed(d, retry, after, delay, cowork)
           = [versions |-> d.versions, retry |-> retry, after |-> after, delay |-> delay,
              last |-> d.last, revoked |-> d.revoked, cowork |-> cowork]
<1>1. ASSUME NEW n, n = [d EXCEPT !.retry = retry, !.after = after, !.delay = delay,
                                  !.cowork = cowork]
      PROVE  n = [versions |-> d.versions, retry |-> retry, after |-> after, delay |-> delay,
                  last |-> d.last, revoked |-> d.revoked, cowork |-> cowork]
  BY <1>1, Zenon DEF States
<1>2. QED BY <1>1, Zenon DEF Refailed

Putting(s, retry, after, delay) == [s EXCEPT !.retry = retry, !.delay = delay, !.after = after]

\* A postponed state, field by field.
LEMMA PuttingAs ==
  ASSUME NEW s \in States, NEW retry, NEW after, NEW delay
  PROVE  Putting(s, retry, after, delay)
           = [versions |-> s.versions, retry |-> retry, after |-> after, delay |-> delay,
              last |-> s.last, revoked |-> s.revoked, cowork |-> s.cowork]
<1>1. ASSUME NEW n, n = [s EXCEPT !.retry = retry, !.delay = delay, !.after = after]
      PROVE  n = [versions |-> s.versions, retry |-> retry, after |-> after, delay |-> delay,
                  last |-> s.last, revoked |-> s.revoked, cowork |-> s.cowork]
  BY <1>1, Zenon DEF States
<1>2. QED BY <1>1, Zenon DEF Putting

\* The versions recorded.
LEMMA RecordedVersions ==
  ASSUME NEW s \in States, NEW out, combined \in BOOLEAN
  PROVE  /\ Recorded(s, out) \in [Conns -> [Parts -> Seen]]
         /\ \A c \in Conns \ Heard(s, out) : Recorded(s, out)[c] = s.versions[c]
         /\ \A c \in Heard(s, out) :
              /\ Recorded(s, out)[c] = Version(s, c, out[c])
              /\ Recorded(s, out)[c].models = "now"
              /\ out[c] = "ok" => Recorded(s, out)[c].defaults = "now"
              /\ combined => Recorded(s, out)[c].defaults # "old"
<1>1. s.versions \in [Conns -> [Parts -> Seen]]
  BY StateFields
<1>2. ASSUME NEW c \in Conns
      PROVE  /\ Version(s, c, out[c]) \in [Parts -> Seen]
             /\ Version(s, c, out[c]).models = "now"
             /\ out[c] = "ok" => Version(s, c, out[c]).defaults = "now"
             /\ combined => Version(s, c, out[c]).defaults # "old"
  <2> DEFINE d == IF out[c] = "ok" THEN "now"
                  ELSE IF combined THEN "?" ELSE s.versions[c].defaults
  <2>1. s.versions[c].defaults \in Seen
    BY <1>1 DEF Parts
  <2>2. d \in Seen /\ (out[c] = "ok" => d = "now") /\ (combined => d # "old")
    BY <2>1 DEF Seen
  <2>3. Version(s, c, out[c]) = [models |-> "now", defaults |-> d]
    BY Zenon DEF Version
  <2> HIDE DEF d
  <2>4. [models |-> "now", defaults |-> d] \in [Parts -> Seen]
    BY <2>2 DEF Parts, Seen
  <2>5. QED BY <2>2, <2>3, <2>4
<1>3. Heard(s, out) \subseteq Conns
  BY DEF Heard, Among
<1>4. \A c \in Conns : Recorded(s, out)[c]
         = IF c \in Heard(s, out) THEN Version(s, c, out[c]) ELSE s.versions[c]
  BY Zenon DEF Recorded
<1>5. Recorded(s, out) \in [Conns -> [Parts -> Seen]]
  <2>1. \A c \in Conns : (IF c \in Heard(s, out) THEN Version(s, c, out[c]) ELSE s.versions[c])
                           \in [Parts -> Seen]
    BY <1>1, <1>2, Zenon
  <2>2. QED BY <2>1, Zenon DEF Recorded
<1>6. QED BY <1>2, <1>3, <1>4, <1>5, Zenon

\* What Judged keeps after a refresh is Done.
LEMMA JudgedDoneAs ==
  ASSUME NEW s \in States, NEW out
  PROVE  JudgedDone(s, out) = Done(s, out)
<1> DEFINE b == Base(s, out)
           versions == [c \in Conns |-> IF c \in Heard(s, out) THEN Version(s, c, out[c])
                                        ELSE b.versions[c]]
<1>1. JudgedBase(s, out) = b
  BY JudgedBaseAs
<1>2. b.after = BaseAfter(s, out) /\ b.versions = s.versions /\ b \in States
      /\ b.revoked = BaseRevoked(s, out)
  BY BaseState
<1>3. JudgedDone(s, out) =
        Renewed(b, versions, 0, Away(s, out),
                IF Away(s, out) = {} THEN None
                ELSE IF b.after \notin {None, 0} THEN b.after ELSE Backoff(b),
                IF Away(s, out) = {} THEN 0
                ELSE IF b.after \notin {None, 0} THEN b.delay ELSE Backoff(b), FALSE)
  <2>1. ASSUME NEW bb, bb = JudgedBase(s, out)
        PROVE  JudgedDone(s, out) =
                 Renewed(bb, [c \in Conns |-> IF c \in Heard(s, out) THEN Version(s, c, out[c])
                                              ELSE bb.versions[c]], 0, Away(s, out),
                IF Away(s, out) = {} THEN None
                ELSE IF bb.after \notin {None, 0} THEN bb.after ELSE Backoff(bb),
                IF Away(s, out) = {} THEN 0
                ELSE IF bb.after \notin {None, 0} THEN bb.delay ELSE Backoff(bb), FALSE)
    BY <2>1, Zenon DEF JudgedDone, Renewed
  <2>2. QED BY <1>1, <2>1, Zenon
<1>4. versions = Recorded(s, out)
  BY <1>2, Zenon DEF Recorded
<1>5. JudgedDone(s, out) =
        Renewed(b, Recorded(s, out), 0, Away(s, out), DoneAfter(s, out), DoneDelay(s, out), FALSE)
  BY <1>2, <1>3, <1>4, Zenon DEF DoneAfter, DoneDelay, Backing
<1> HIDE DEF b
<1>6. ASSUME NEW last, NEW cowork
      PROVE  Renewed(b, Recorded(s, out), last, Away(s, out), DoneAfter(s, out),
                     DoneDelay(s, out), cowork)
      = [versions |-> Recorded(s, out), retry |-> Away(s, out), after |-> DoneAfter(s, out),
         delay |-> DoneDelay(s, out), last |-> last, revoked |-> b.revoked, cowork |-> cowork]
  BY <1>2, RenewedAs
<1>7. QED BY <1>2, <1>5, <1>6, Zenon DEF Done

\* A retry is always put off by some time.
LEMMA BackoffTime ==
  ASSUME NEW s \in States, NEW out
  PROVE  Backoff(Base(s, out)) \in Nat \ {0}
BY BaseState, Delays

\* After a refresh: whoever was away is retried, and nothing is due at once.
LEMMA DoneState ==
  ASSUME NEW s \in States, NEW out, combined \in BOOLEAN
  PROVE  /\ Done(s, out) \in States
         /\ Done(s, out).versions = Recorded(s, out) /\ Done(s, out).retry = Away(s, out)
         /\ Done(s, out).after = DoneAfter(s, out) /\ Done(s, out).last = 0
         /\ Done(s, out).revoked = BaseRevoked(s, out)
         /\ DoneAfter(s, out) # 0
<1>1. Recorded(s, out) \in [Conns -> [Parts -> Seen]]
  BY RecordedVersions
<1>2. Away(s, out) \in SUBSET Conns
  BY DEF Away, Among
<1>3. /\ Base(s, out).after \in Nat \cup {None} /\ Base(s, out).delay \in Nat
      /\ BaseRevoked(s, out) \in [Conns -> Ages] /\ Backoff(Base(s, out)) \in Nat \ {0}
      /\ Base(s, out).after = BaseAfter(s, out)
  BY BaseState, BackoffTime
<1>4. DoneAfter(s, out) \in Nat \cup {None} /\ DoneDelay(s, out) \in Nat /\ DoneAfter(s, out) # 0
  BY <1>3 DEF DoneAfter, DoneDelay, Backing
<1>5. 0 \in Ages
  BY DEF Ages
<1>6. QED BY <1>1, <1>2, <1>3, <1>4, <1>5, Zenon DEF Done, States

\* After a failed refresh: whoever could be refreshed is retried too.
LEMMA FailedState ==
  ASSUME NEW s \in States, NEW out, combined \in BOOLEAN
  PROVE  /\ Failed(s, out) \in States
         /\ Failed(s, out).versions = Recorded(s, out)
         /\ Failed(s, out).retry = Away(s, out) \cup Reached(s, out)
         /\ Failed(s, out).after = Backoff(Base(s, out)) /\ Failed(s, out).last = 0
         /\ Failed(s, out).revoked = BaseRevoked(s, out) /\ Failed(s, out).cowork = s.cowork
<1>1. Recorded(s, out) \in [Conns -> [Parts -> Seen]]
  BY RecordedVersions
<1>2. Away(s, out) \cup Reached(s, out) \in SUBSET Conns
  BY DEF Away, Reached, Heard, OlderOnes, Among
<1>3. /\ BaseRevoked(s, out) \in [Conns -> Ages] /\ Backoff(Base(s, out)) \in Nat
      /\ s.cowork \in BOOLEAN
  BY BaseState, BackoffTime, StateFields
<1>4. 0 \in Ages
  BY DEF Ages
<1>5. QED BY <1>1, <1>2, <1>3, <1>4, Zenon DEF Failed, States

\* Where there was no refresh: the versions stand, and the retry loses whoever is revoked.
LEMMA KeptState ==
  ASSUME NEW s \in States, NEW out
  PROVE  /\ Kept(s, out) \in States
         /\ Kept(s, out).versions = s.versions
         /\ Kept(s, out).retry
              = IF Missed(s, out) THEN Owed(s, out) \cup Away(s, out) ELSE Owed(s, out)
         /\ Kept(s, out).after
              = IF Missed(s, out) THEN Backoff(Base(s, out)) ELSE BaseAfter(s, out)
         /\ Kept(s, out).last = s.last
         /\ Kept(s, out).revoked = BaseRevoked(s, out) /\ Kept(s, out).cowork = s.cowork
<1>1. /\ Base(s, out) \in States /\ Base(s, out).versions = s.versions
      /\ Base(s, out).retry = Owed(s, out) /\ Base(s, out).after = BaseAfter(s, out)
      /\ Base(s, out).revoked = BaseRevoked(s, out) /\ Base(s, out).last = s.last
      /\ Base(s, out).cowork = s.cowork /\ BaseRevoked(s, out) \in [Conns -> Ages]
  BY BaseState
<1>2. Owed(s, out) \cup Away(s, out) \in SUBSET Conns
  BY DEF Away, Owed, Reached, Heard, OlderOnes, Among
<1>3. /\ Backoff(Base(s, out)) \in Nat /\ s.cowork \in BOOLEAN /\ s.last \in Ages
      /\ s.versions \in [Conns -> [Parts -> Seen]]
  BY BackoffTime, StateFields
<1>4. /\ Postponed(s, out) \in States
      /\ Postponed(s, out).versions = s.versions
      /\ Postponed(s, out).retry = Owed(s, out) \cup Away(s, out)
      /\ Postponed(s, out).after = Backoff(Base(s, out))
      /\ Postponed(s, out).last = s.last
      /\ Postponed(s, out).revoked = BaseRevoked(s, out) /\ Postponed(s, out).cowork = s.cowork
  BY <1>1, <1>2, <1>3, Zenon DEF Postponed, States
<1>5. CASE Missed(s, out)
  BY <1>4, <1>5, Zenon DEF Kept
<1>6. CASE ~Missed(s, out)
  BY <1>1, <1>6, Zenon DEF Kept
<1>7. QED BY <1>5, <1>6

\* What Judged returns, in those names: every later proof reads it here.
LEMMA JudgedAs ==
  ASSUME NEW s \in States, NEW out, combined \in BOOLEAN
  PROVE  /\ Judged(s, out).due = Due(s, out)
         /\ Judged(s, out).skip = Revoked(s, out) \cup Away(s, out)
         /\ Judged(s, out).older = (OlderOnes(s, out) # {})
         /\ Judged(s, out).pinned = Heard(s, out)
         /\ Judged(s, out).seen = Read(s, out)
         /\ Judged(s, out).revoked = Revoked(s, out)
         /\ Judged(s, out).kept = Kept(s, out)
         /\ Judged(s, out).done = Done(s, out)
         /\ Judged(s, out).failed = Failed(s, out)
<1> DEFINE b == Base(s, out)
<1>1. JudgedBase(s, out) = b /\ JudgedDone(s, out) = Done(s, out)
  BY JudgedBaseAs, JudgedDoneAs
<1>2. /\ b.after = BaseAfter(s, out) /\ b \in States /\ b.retry = Owed(s, out)
      /\ b.versions = s.versions /\ b.last = s.last /\ b.revoked = BaseRevoked(s, out)
      /\ b.cowork = s.cowork
  BY BaseState
<1>3. PutOff(b, Owed(s, out) \cup Away(s, out)) = Postponed(s, out)
  <2>1. PutOff(b, Owed(s, out) \cup Away(s, out))
          = Putting(b, Owed(s, out) \cup Away(s, out), Backoff(b), Backoff(b))
    BY Zenon DEF PutOff, Putting
  <2>2. Putting(b, Owed(s, out) \cup Away(s, out), Backoff(b), Backoff(b))
        = [versions |-> b.versions, retry |-> Owed(s, out) \cup Away(s, out),
           after |-> Backoff(b), delay |-> Backoff(b), last |-> b.last,
           revoked |-> b.revoked, cowork |-> b.cowork]
    <3> HIDE DEF b
    <3> QED BY <1>2, PuttingAs, ZenonT(40)
  <2>3. QED BY <1>2, <2>1, <2>2, Zenon DEF Postponed
<1>4. [Done(s, out) EXCEPT !.retry = Retried(Away(s, out), Reached(s, out)),
                           !.after = Backoff(b), !.delay = Backoff(b), !.cowork = s.cowork]
        = Failed(s, out)
  <2>1. [Done(s, out) EXCEPT !.retry = Retried(Away(s, out), Reached(s, out)),
                             !.after = Backoff(b), !.delay = Backoff(b), !.cowork = s.cowork]
        = Refailed(Done(s, out), Away(s, out) \cup Reached(s, out), Backoff(b), Backoff(b), s.cowork)
    BY Zenon DEF Refailed, Retried
  <2>d. Done(s, out) \in States
    BY DoneState
  <2>2. /\ Done(s, out).versions = Recorded(s, out)
        /\ Done(s, out).last = 0
        /\ Done(s, out).revoked = BaseRevoked(s, out)
    BY DoneState
  <2>3. ASSUME NEW d \in States, NEW retry, NEW after, NEW cowork
        PROVE  Refailed(d, retry, after, after, cowork)
        = [versions |-> d.versions, retry |-> retry, after |-> after, delay |-> after,
           last |-> d.last, revoked |-> d.revoked, cowork |-> cowork]
    BY RefailedAs
  <2>4. Refailed(Done(s, out), Away(s, out) \cup Reached(s, out), Backoff(b), Backoff(b), s.cowork)
        = [versions |-> Done(s, out).versions, retry |-> Away(s, out) \cup Reached(s, out),
           after |-> Backoff(b), delay |-> Backoff(b), last |-> Done(s, out).last,
           revoked |-> Done(s, out).revoked, cowork |-> s.cowork]
    BY <2>d, <2>3, Zenon
  <2>5. QED BY <2>1, <2>2, <2>4, Zenon DEF Failed
<1> DEFINE j == Judged(s, out) bb == JudgedBase(s, out)
<1>p. /\ j.due = (/\ Reached(s, out) # {}
                  /\ \/ \E c \in Heard(s, out) : Version(s, c, out[c]) # s.versions[c]
                     \/ bb.after = 0 /\ Owed(s, out) \cap Reached(s, out) # {}
                     \/ /\ ~(bb.after \notin {None, 0})
                        /\ FullDue(s) \/ (OlderOnes(s, out) # {} /\ cooldown = 0))
      /\ j.skip = Revoked(s, out) \cup Away(s, out)
      /\ j.older = (OlderOnes(s, out) # {})
      /\ j.pinned = Heard(s, out)
      /\ j.seen = Read(s, out)
      /\ j.revoked = Revoked(s, out)
      /\ j.kept = IF \/ bb.after = 0 /\ Owed(s, out) \cap Away(s, out) # {}
                     \/ /\ Away(s, out) # {} /\ ~(bb.after \notin {None, 0})
                        /\ FullDue(s)
                  THEN PutOff(bb, Owed(s, out) \cup Away(s, out)) ELSE bb
      /\ j.done = JudgedDone(s, out)
      /\ j.failed = [JudgedDone(s, out) EXCEPT
                       !.retry = Retried(Away(s, out), Reached(s, out)), !.after = Backoff(bb),
                       !.delay = Backoff(bb), !.cowork = s.cowork]
  BY JudgedParts, Zenon
<1> HIDE DEF j, bb
<1>d. bb = Base(s, out)
  BY <1>1, Zenon DEF bb
<1>5. j.kept = Kept(s, out)
  BY <1>p, <1>d, <1>2, <1>3, Zenon DEF Kept, Missed, Backing
<1>e. j.due = Due(s, out)
  BY <1>p, <1>d, <1>2, Zenon DEF Due, Backing
<1>6. j.done = Done(s, out) /\ j.failed = Failed(s, out)
  BY <1>p, <1>1, <1>d, <1>4, Zenon
<1>7. QED BY <1>p, <1>5, <1>e, <1>6, Zenon DEF j

-----------------------------------------------------------------------------
(* When a state is to be refreshed.                                         *)

SkipOf(s, c) == IF s.revoked[c] = None THEN 0 ELSE Day - s.revoked[c]
RefreshOf(s) == IF s.after # None THEN s.after ELSE IF s.last # None THEN Day - s.last ELSE 0
Backs(s) == {SkipOf(s, c) : c \in Conns}
DueOf(s) ==
  IF 0 \in Backs(s) THEN RefreshOf(s) ELSE Most({RefreshOf(s), Least(Backs(s))})
UnsupportedOf(s, left) == IF s.after = None THEN left ELSE Most({left, s.after})

\* The dates a manifest is written with are those of the state.
LEMMA DatesOf ==
  /\ DueAt = DueOf(state) /\ DueAt' = DueOf(state')
  /\ UnsupportedDue = UnsupportedOf(state, cooldown)
  /\ UnsupportedDue' = UnsupportedOf(state', cooldown')
  /\ \A c \in Conns : SkipFor(c) = SkipOf(state, c)
  /\ \A c \in Conns : SkipFor(c)' = SkipOf(state', c)
<1>1. DueAt = DueOf(state)
  BY Zenon DEF DueAt, DueOf, RefreshOf, Backs, SkipFor, SkipOf
<1>2. DueAt' = DueOf(state')
  BY Zenon DEF DueAt, DueOf, RefreshOf, Backs, SkipFor, SkipOf
<1>3. QED BY <1>1, <1>2, Zenon DEF UnsupportedDue, UnsupportedOf, SkipFor, SkipOf

\* They are times, and a connection is left out while it is recently revoked.
LEMMA Dates ==
  ASSUME NEW s \in States
  PROVE  /\ \A c \in Conns : /\ SkipOf(s, c) \in Nat
                             /\ SkipOf(s, c) # 0 <=> RecentlyRevoked(s, c)
         /\ RefreshOf(s) \in Nat /\ Backs(s) \in SUBSET Nat /\ Backs(s) # {}
         /\ DueOf(s) \in Nat /\ RefreshOf(s) <= DueOf(s)
         /\ (\E c \in Conns : SkipOf(s, c) = 0) => DueOf(s) = RefreshOf(s)
         /\ (\A c \in Conns : SkipOf(s, c) # 0) => DueOf(s) > 0
         /\ \A left \in Nat : /\ UnsupportedOf(s, left) \in Nat
                              /\ left <= UnsupportedOf(s, left)
                              /\ s.after # None => s.after <= UnsupportedOf(s, left)
                              /\ UnsupportedOf(s, left) \in {left, s.after}
<1>1. /\ s.after \in Nat \cup {None} /\ s.last \in Ages /\ s.revoked \in [Conns -> Ages]
      /\ None \notin Nat
  BY StateFields
<1>2. ASSUME NEW c \in Conns
      PROVE  SkipOf(s, c) \in Nat /\ (SkipOf(s, c) # 0 <=> RecentlyRevoked(s, c))
  <2>1. s.revoked[c] \in Ages
    BY <1>1
  <2>2. QED BY <2>1, <1>1 DEF SkipOf, RecentlyRevoked, Ages
<1>3. RefreshOf(s) \in Nat
  BY <1>1 DEF RefreshOf, Ages
<1>4. Backs(s) \in SUBSET Nat /\ Backs(s) # {}
  <2>1. PICK c \in Conns : TRUE
    OBVIOUS
  <2>2. SkipOf(s, c) \in Backs(s)
    BY Zenon DEF Backs
  <2>3. \A x \in Backs(s) : x \in Nat
    BY <1>2, Zenon DEF Backs
  <2>4. QED BY <2>2, <2>3
<1>5. Least(Backs(s)) \in Backs(s) /\ Least(Backs(s)) \in Nat
  <2>1. Least(Backs(s)) \in Backs(s)
    BY <1>4, LeastMember
  <2>2. QED BY <1>4, <2>1
<1>6. LET m == Most({RefreshOf(s), Least(Backs(s))}) IN
        m \in Nat /\ RefreshOf(s) <= m /\ Least(Backs(s)) <= m
  <2>1. ASSUME NEW a \in Nat, NEW b \in Nat
        PROVE  Most({a, b}) \in Nat /\ a <= Most({a, b}) /\ b <= Most({a, b})
    BY Greater
  <2>2. QED BY <1>3, <1>5, <2>1
<1>7. DueOf(s) \in Nat /\ RefreshOf(s) <= DueOf(s)
  BY <1>3, <1>6 DEF DueOf
<1>8. (\E c \in Conns : SkipOf(s, c) = 0) => DueOf(s) = RefreshOf(s)
  BY Zenon DEF DueOf, Backs
<1>9. (\A c \in Conns : SkipOf(s, c) # 0) => DueOf(s) > 0
  <2>1. HAVE \A c \in Conns : SkipOf(s, c) # 0
  <2>2. 0 \notin Backs(s)
    BY <2>1, Zenon DEF Backs
  <2>3. Least(Backs(s)) # 0 /\ DueOf(s) = Most({RefreshOf(s), Least(Backs(s))})
    BY <1>5, <2>2, Zenon DEF DueOf
  <2>4. QED BY <1>5, <1>6, <2>3
<1>10. ASSUME NEW left \in Nat
       PROVE  /\ UnsupportedOf(s, left) \in Nat
              /\ left <= UnsupportedOf(s, left)
              /\ s.after # None => s.after <= UnsupportedOf(s, left)
              /\ UnsupportedOf(s, left) \in {left, s.after}
  <2>1. CASE s.after = None
    BY <2>1 DEF UnsupportedOf
  <2>2. CASE s.after # None
    <3>1. s.after \in Nat
      BY <1>1, <2>2
    <3>2. UnsupportedOf(s, left) = Most({left, s.after})
      BY <2>2, Zenon DEF UnsupportedOf
    <3>3. /\ Most({left, s.after}) \in {left, s.after}
          /\ left <= Most({left, s.after}) /\ s.after <= Most({left, s.after})
      BY <3>1, Greater
    <3>4. QED BY <2>2, <3>1, <3>2, <3>3
  <2>3. QED BY <2>1, <2>2
<1>11. QED BY <1>2, <1>3, <1>4, <1>7, <1>8, <1>9, <1>10

\* An hour later.
Hence(s) == [versions |-> s.versions, retry |-> s.retry, after |-> Less(s.after),
             delay |-> s.delay, last |-> Older(s.last),
             revoked |-> [c \in Conns |-> Older(s.revoked[c])], cowork |-> s.cowork]

\* A state an hour later, field by field.
LEMMA HenceAs ==
  ASSUME NEW s \in States
  PROVE  [s EXCEPT !.after = Less(@), !.last = Older(@),
                   !.revoked = [c \in Conns |-> Older(@[c])]] = Hence(s)
<1>1. ASSUME NEW after, NEW last, NEW revoked, NEW n,
             n = [s EXCEPT !.after = after, !.last = last, !.revoked = revoked]
      PROVE  n = [versions |-> s.versions, retry |-> s.retry, after |-> after,
                  delay |-> s.delay, last |-> last, revoked |-> revoked, cowork |-> s.cowork]
  BY <1>1, Zenon DEF States
<1>2. ASSUME NEW after, NEW last, NEW revoked
      PROVE  [s EXCEPT !.after = after, !.last = last, !.revoked = revoked]
              = [versions |-> s.versions, retry |-> s.retry, after |-> after,
                  delay |-> s.delay, last |-> last, revoked |-> revoked, cowork |-> s.cowork]
  BY <1>1, Zenon
<1>3. QED BY <1>2 DEF Hence

\* Ages grow to a day, and the time to a day shrinks with them.
LEMMA OlderAges ==
  ASSUME NEW a \in Ages
  PROVE  /\ Older(a) \in Ages /\ (Older(a) = None <=> a = None)
         /\ a # None => Day - Older(a) = Less(Day - a) /\ a <= Older(a)
BY DEF Older, Ages, Less

\* An hour later every date is an hour nearer and the rest is as it was.
LEMMA HenceState ==
  ASSUME NEW s \in States
  PROVE  /\ Hence(s) \in States
         /\ Hence(s).versions = s.versions /\ Hence(s).retry = s.retry
         /\ Hence(s).cowork = s.cowork
         /\ Hence(s).after = None <=> s.after = None
         /\ \A c \in Conns : RecentlyRevoked(Hence(s), c) => RecentlyRevoked(s, c)
         /\ \A c \in Conns : SkipOf(Hence(s), c) = Less(SkipOf(s, c))
         /\ DueOf(Hence(s)) = Less(DueOf(s))
         /\ \A left \in Nat : UnsupportedOf(Hence(s), Less(left)) = Less(UnsupportedOf(s, left))
<1> DEFINE h == Hence(s)
<1>1. /\ s.versions \in [Conns -> [Parts -> Seen]] /\ s.retry \in SUBSET Conns
      /\ s.after \in Nat \cup {None} /\ s.delay \in Nat /\ s.last \in Ages
      /\ s.revoked \in [Conns -> Ages] /\ s.cowork \in BOOLEAN
  BY StateFields
<1>2. /\ h.versions = s.versions /\ h.retry = s.retry /\ h.cowork = s.cowork
      /\ h.after = Less(s.after) /\ h.last = Older(s.last)
      /\ \A c \in Conns : h.revoked[c] = Older(s.revoked[c])
  BY Zenon DEF Hence
<1>3. Less(s.after) \in Nat \cup {None} /\ (Less(s.after) = None <=> s.after = None)
  BY <1>1, LessTimes
<1>4. Older(s.last) \in Ages /\ [c \in Conns |-> Older(s.revoked[c])] \in [Conns -> Ages]
  <2>1. \A c \in Conns : Older(s.revoked[c]) \in Ages
    BY <1>1, OlderAges
  <2>2. Older(s.last) \in Ages
    BY <1>1, OlderAges
  <2>3. QED BY <2>1, <2>2
<1>5. h \in States
  BY <1>1, <1>3, <1>4, Zenon DEF Hence, States
<1>6. ASSUME NEW c \in Conns
      PROVE  /\ RecentlyRevoked(h, c) => RecentlyRevoked(s, c)
             /\ SkipOf(h, c) = Less(SkipOf(s, c))
  <2>1. s.revoked[c] \in Ages /\ h.revoked[c] = Older(s.revoked[c])
    BY <1>1, <1>2
  <2>2. /\ Older(s.revoked[c]) \in Ages /\ (Older(s.revoked[c]) = None <=> s.revoked[c] = None)
        /\ s.revoked[c] # None => /\ Day - Older(s.revoked[c]) = Less(Day - s.revoked[c])
                                  /\ s.revoked[c] <= Older(s.revoked[c])
    BY <2>1, OlderAges
  <2>3. Less(0) = 0
    BY LessTimes
  <2>4. SkipOf(h, c) = Less(SkipOf(s, c))
    BY <2>1, <2>2, <2>3 DEF SkipOf
  <2>5. RecentlyRevoked(h, c) => RecentlyRevoked(s, c)
    BY <2>1, <2>2 DEF RecentlyRevoked, Ages
  <2>6. QED BY <2>4, <2>5
<1>7. RefreshOf(h) = Less(RefreshOf(s))
  <2>1. /\ Older(s.last) \in Ages /\ (Older(s.last) = None <=> s.last = None)
        /\ s.last # None => Day - Older(s.last) = Less(Day - s.last)
    BY <1>1, OlderAges
  <2>2. Less(0) = 0
    BY LessTimes
  <2>3. QED BY <1>2, <1>3, <2>1, <2>2 DEF RefreshOf
<1>8. /\ RefreshOf(s) \in Nat /\ Backs(s) \in SUBSET Nat /\ Backs(s) # {}
  BY Dates
<1>9. Backs(h) = {Less(x) : x \in Backs(s)}
  BY <1>6, Zenon DEF Backs
<1>10. Least(Backs(h)) = Less(Least(Backs(s))) /\ Least(Backs(s)) \in Nat /\ Least(Backs(s)) \in Backs(s)
       /\ \A x \in Backs(s) : Least(Backs(s)) <= x
  <2>1. Least(Backs(s)) \in Backs(s) /\ \A x \in Backs(s) : Least(Backs(s)) <= x
    BY <1>8, LeastMember
  <2>2. Least(Backs(h)) = Less(Least(Backs(s)))
    BY <1>8, <1>9, LessLeast
  <2>3. QED BY <1>8, <2>1, <2>2
<1>11. DueOf(h) = Less(DueOf(s))
  <2>1. CASE 0 \in Backs(s)
    <3>1. 0 \in Backs(h)
      BY <2>1, <1>9, LessTimes
    <3>2. QED BY <2>1, <3>1, <1>7, Zenon DEF DueOf
  <2>2. CASE 0 \notin Backs(s) /\ 0 \notin Backs(h)
    <3>1. ASSUME NEW a \in Nat, NEW b \in Nat
          PROVE  Less(Most({a, b})) = Most({Less(a), Less(b)})
      BY LessGreater
    <3>2. Less(Most({RefreshOf(s), Least(Backs(s))}))
            = Most({Less(RefreshOf(s)), Less(Least(Backs(s)))})
      BY <1>8, <1>10, <3>1, Zenon
    <3>3. QED BY <2>2, <3>2, <1>7, <1>10, Zenon DEF DueOf
  <2>3. CASE 0 \notin Backs(s) /\ 0 \in Backs(h)
    <3>1. PICK x \in Backs(s) : Less(x) = 0
      BY <2>3, <1>9
    <3>2. x \in Nat /\ x # 0
      BY <1>8, <2>3
    <3>3. x = 1
      BY <3>1, <3>2, LessTimes
    <3>4. Least(Backs(s)) <= 1 /\ Least(Backs(s)) \in Nat
      BY <3>3, <1>10
    <3>5. ASSUME NEW a \in Nat, NEW b \in Nat, b <= 1
          PROVE  Less(Most({a, b})) = Less(a)
      <4>1. Most({a, b}) \in {a, b} /\ a <= Most({a, b}) /\ b <= Most({a, b})
        BY Greater
      <4>2. QED BY <4>1, <3>5 DEF Less
    <3>6. Less(Most({RefreshOf(s), Least(Backs(s))})) = Less(RefreshOf(s))
      BY <3>4, <3>5, <1>8
    <3>7. QED BY <2>3, <3>6, <1>7, Zenon DEF DueOf
  <2>4. QED BY <2>1, <2>2, <2>3
<1>12. ASSUME NEW left \in Nat
       PROVE  UnsupportedOf(h, Less(left)) = Less(UnsupportedOf(s, left))
  <2>1. CASE s.after = None
    BY <2>1, <1>2, <1>3, Zenon DEF UnsupportedOf
  <2>2. CASE s.after # None
    <3>1. s.after \in Nat
      BY <2>2, <1>1
    <3>2. Less(Most({left, s.after})) = Most({Less(left), Less(s.after)})
      BY <3>1, LessGreater
    <3>3. QED BY <2>2, <3>2, <1>2, <1>3, Zenon DEF UnsupportedOf
  <2>3. QED BY <2>1, <2>2
<1>13. QED BY <1>2, <1>3, <1>5, <1>6, <1>11, <1>12, Zenon

-----------------------------------------------------------------------------
(* What a judgement keeps.                                                  *)

\* Defaults go unread only where there are some, and what is asked for anew is "?".
Told(s) ==
  \A c \in Conns : s.versions[c].models = "now" =>
     /\ c \notin Governed => s.versions[c].defaults = "now"
     /\ combined => s.versions[c].defaults # "old"

\* A retry is of some connection, and of none that is recently revoked.
Retries(s) ==
  /\ s.after # None => s.retry # {}
  /\ \A c \in s.retry : ~RecentlyRevoked(s, c)

\* Every connection is left out as revoked or as not reached, or is reached.
LEMMA Sorted ==
  ASSUME NEW s, NEW out \in [Conns -> Outcomes]
  PROVE  /\ Conns = Revoked(s, out) \cup Away(s, out) \cup Reached(s, out)
         /\ Revoked(s, out) \cap (Away(s, out) \cup Reached(s, out)) = {}
         /\ Heard(s, out) \subseteq Reached(s, out) /\ OlderOnes(s, out) \subseteq Reached(s, out)
         /\ Away(s, out) \cap Reached(s, out) = {}
         /\ Recent(s) \subseteq Revoked(s, out)
BY DEF Revoked, Away, Reached, Heard, OlderOnes, Among, Recent, Outcomes

\* Whoever is not revoked now has not been recently.
LEMMA BaseRecent ==
  ASSUME NEW s, NEW out \in [Conns -> Outcomes], NEW t, t.revoked = BaseRevoked(s, out),
         NEW c \in Away(s, out) \cup Reached(s, out)
  PROVE  c \in Conns /\ ~RecentlyRevoked(t, c)
<1>1. c \in Conns /\ c \notin Recent(s) /\ c \notin Revoked(s, out)
  BY Sorted
<1>2. BaseRevoked(s, out)[c] = None
  BY <1>1, Zenon DEF BaseRevoked
<1>3. QED BY <1>1, <1>2, Zenon DEF RecentlyRevoked

\* What a run records of its answers tells no more than they do.
LEMMA ToldRecorded ==
  ASSUME NEW s \in States, NEW out \in Answers, combined \in BOOLEAN, Told(s),
         NEW t, t.versions = Recorded(s, out)
  PROVE  Told(t)
<1>1. /\ \A c \in Conns \ Heard(s, out) : Recorded(s, out)[c] = s.versions[c]
      /\ \A c \in Heard(s, out) :
              /\ out[c] = "ok" => Recorded(s, out)[c].defaults = "now"
              /\ combined => Recorded(s, out)[c].defaults # "old"
  BY RecordedVersions
<1>2. out \in [Conns -> Outcomes] /\ \A c \in Conns : out[c] = "partial" => c \in Governed
  BY Zenon DEF Answers, AnswersIf
<1>3. ASSUME NEW c \in Conns, t.versions[c].models = "now"
      PROVE  /\ c \notin Governed => t.versions[c].defaults = "now"
             /\ combined => t.versions[c].defaults # "old"
  <2>1. CASE c \notin Heard(s, out)
    <3>1. t.versions[c] = s.versions[c]
      BY <1>1, <2>1, Zenon
    <3>2. QED BY <3>1, <1>3, Zenon DEF Told
  <2>2. CASE c \in Heard(s, out)
    <3>1. out[c] \in {"ok", "partial"}
      BY <2>2 DEF Heard, Among
    <3>2. c \notin Governed => out[c] = "ok"
      BY <1>2, <3>1
    <3>3. QED BY <1>1, <2>2, <3>2, Zenon
  <2>3. QED BY <2>1, <2>2
<1>4. QED BY <1>3, Zenon DEF Told

\* Router answers each connection, partially only where settings apply defaults.
LEMMA AnswersAre ==
  ASSUME combined \in BOOLEAN, NEW out \in Answers
  PROVE  out \in [Conns -> Outcomes] /\ \A c \in Conns : out[c] = "partial" => c \in Governed
BY Zenon DEF Answers, AnswersIf

\* A finished refresh keeps what holds of a state.
LEMMA DoneKeeps ==
  ASSUME NEW s \in States, NEW out \in Answers, combined \in BOOLEAN, Told(s)
  PROVE  Told(Done(s, out)) /\ Retries(Done(s, out))
<1>1. /\ Done(s, out).versions = Recorded(s, out) /\ Done(s, out).retry = Away(s, out)
      /\ Done(s, out).after = DoneAfter(s, out) /\ Done(s, out).revoked = BaseRevoked(s, out)
  BY DoneState
<1>2. out \in [Conns -> Outcomes]
  BY AnswersAre
<1>3. Told(Done(s, out))
  BY <1>1, ToldRecorded
<1>4. DoneAfter(s, out) # None => Away(s, out) # {}
  BY Zenon DEF DoneAfter
<1>5. \A c \in Away(s, out) : ~RecentlyRevoked(Done(s, out), c)
  BY <1>1, <1>2, BaseRecent
<1>6. QED BY <1>1, <1>3, <1>4, <1>5, Zenon DEF Retries

\* So does a failed one, which has a retry to come.
LEMMA FailedKeeps ==
  ASSUME NEW s \in States, NEW out \in Answers, combined \in BOOLEAN, Told(s), Due(s, out)
  PROVE  Told(Failed(s, out)) /\ Retries(Failed(s, out)) /\ Failed(s, out).after # None
<1>1. /\ Failed(s, out).versions = Recorded(s, out)
      /\ Failed(s, out).retry = Away(s, out) \cup Reached(s, out)
      /\ Failed(s, out).after = Backoff(Base(s, out))
      /\ Failed(s, out).revoked = BaseRevoked(s, out)
  BY FailedState
<1>2. out \in [Conns -> Outcomes]
  BY AnswersAre
<1>3. Told(Failed(s, out))
  BY <1>1, ToldRecorded
<1>4. Reached(s, out) # {}
  BY DEF Due
<1>5. \A c \in Away(s, out) \cup Reached(s, out) : ~RecentlyRevoked(Failed(s, out), c)
  BY <1>1, <1>2, BaseRecent
<1>6. Failed(s, out).after # None
  BY <1>1, BackoffTime
<1>7. QED BY <1>1, <1>3, <1>4, <1>5, <1>6, Zenon DEF Retries

\* So does a run without a refresh.
LEMMA KeptKeeps ==
  ASSUME NEW s \in States, NEW out \in Answers, combined \in BOOLEAN, Told(s)
  PROVE  Told(Kept(s, out)) /\ Retries(Kept(s, out))
<1>1. /\ Kept(s, out).versions = s.versions
      /\ Kept(s, out).retry
           = IF Missed(s, out) THEN Owed(s, out) \cup Away(s, out) ELSE Owed(s, out)
      /\ Kept(s, out).after = IF Missed(s, out) THEN Backoff(Base(s, out)) ELSE BaseAfter(s, out)
      /\ Kept(s, out).revoked = BaseRevoked(s, out)
  BY KeptState
<1>2. out \in [Conns -> Outcomes]
  BY AnswersAre
<1>3. Told(Kept(s, out))
  BY <1>1, Zenon DEF Told
<1>4. Kept(s, out).after # None => Kept(s, out).retry # {}
  <2>1. CASE Missed(s, out)
    <3>1. Owed(s, out) \cup Away(s, out) # {}
      BY <2>1 DEF Missed
    <3>2. QED BY <1>1, <2>1, <3>1
  <2>2. CASE ~Missed(s, out)
    BY <1>1, <2>2, Zenon DEF BaseAfter
  <2>3. QED BY <2>1, <2>2
<1>5. Kept(s, out).retry \subseteq Away(s, out) \cup Reached(s, out)
  BY <1>1 DEF Owed
<1>6. \A c \in Kept(s, out).retry : ~RecentlyRevoked(Kept(s, out), c)
  BY <1>1, <1>2, <1>5, BaseRecent
<1>7. QED BY <1>3, <1>4, <1>6, Zenon DEF Retries

\* Where nothing was due, nothing is for now.
LEMMA KeptDates ==
  ASSUME NEW s \in States, NEW out \in Answers, combined \in BOOLEAN, ~Due(s, out),
         cooldown \in Nat
  PROVE  /\ DueOf(Kept(s, out)) > 0
         /\ OlderOnes(s, out) # {} => UnsupportedOf(Kept(s, out), cooldown) > 0
         /\ \A x \in Read(s, out) : s.versions[x[1]][x[2]] = "now"
<1> DEFINE k == Kept(s, out)
<1>1. /\ k.after = IF Missed(s, out) THEN Backoff(Base(s, out)) ELSE BaseAfter(s, out)
      /\ k.revoked = BaseRevoked(s, out) /\ k \in States /\ k.last = s.last
  BY KeptState
<1>2. out \in [Conns -> Outcomes]
  BY AnswersAre
<1>3. /\ Conns = Revoked(s, out) \cup Away(s, out) \cup Reached(s, out)
      /\ Heard(s, out) \subseteq Reached(s, out) /\ OlderOnes(s, out) \subseteq Reached(s, out)
      /\ Away(s, out) \cap Reached(s, out) = {}
  BY <1>2, Sorted
<1>4. /\ Base(s, out).after = BaseAfter(s, out) /\ BaseAfter(s, out) \in Nat \cup {None}
      /\ Backoff(Base(s, out)) \in Nat \ {0} /\ s.last \in Ages
  BY BaseState, BackoffTime, StateFields
<1>5. /\ RefreshOf(k) <= DueOf(k) /\ RefreshOf(k) \in Nat /\ DueOf(k) \in Nat
      /\ (\A c \in Conns : SkipOf(k, c) # 0) => DueOf(k) > 0
      /\ UnsupportedOf(k, cooldown) \in Nat /\ cooldown <= UnsupportedOf(k, cooldown)
      /\ k.after # None => k.after <= UnsupportedOf(k, cooldown)
  BY <1>1, Dates
<1>6. ASSUME k.after \notin {None, 0}
      PROVE  DueOf(k) > 0 /\ (OlderOnes(s, out) # {} => UnsupportedOf(k, cooldown) > 0)
  <2>1. k.after \in Nat \ {0} /\ RefreshOf(k) = k.after
    BY <1>6, <1>1, <1>4 DEF RefreshOf
  <2>2. DueOf(k) > 0 /\ UnsupportedOf(k, cooldown) > 0
    BY <2>1, <1>5
  <2>3. QED BY <2>2
<1>7. ASSUME k.after \in {None, 0}
      PROVE  DueOf(k) > 0 /\ (OlderOnes(s, out) # {} => UnsupportedOf(k, cooldown) > 0)
  <2>1. ~Missed(s, out) /\ k.after = BaseAfter(s, out) /\ ~Backing(s, out)
    BY <1>1, <1>4, <1>7 DEF Backing
  <2>2. BaseAfter(s, out) = None
    <3>1. SUFFICES ASSUME BaseAfter(s, out) = 0 PROVE FALSE
      BY <1>7, <2>1
    <3>2. Owed(s, out) # {}
      BY <3>1, ConnsAssumption DEF BaseAfter
    <3>3. Owed(s, out) \cap Away(s, out) # {} \/ Owed(s, out) \cap Reached(s, out) # {}
      BY <3>2 DEF Owed
    <3>4. Owed(s, out) \cap Away(s, out) = {}
      BY <2>1, <3>1, <1>4 DEF Missed
    <3>5. Reached(s, out) # {} /\ Owed(s, out) \cap Reached(s, out) # {}
      BY <3>3, <3>4
    <3>6. QED BY <3>1, <3>5, <1>4, Zenon DEF Due
  <2>3. k.after = None
    BY <2>1, <2>2
  <2>4. CASE Reached(s, out) # {}
    <3>1. ~FullDue(s) /\ ~(OlderOnes(s, out) # {} /\ cooldown = 0)
      BY <2>1, <2>4, Zenon DEF Due
    <3>2. RefreshOf(k) > 0
      BY <2>3, <3>1, <1>1, <1>4 DEF RefreshOf, FullDue, Ages
    <3>3. QED BY <3>1, <3>2, <1>5
  <2>5. CASE Reached(s, out) = {}
    <3>1. CASE FullDue(s)
      <4>1. Away(s, out) = {}
        BY <2>1, <3>1, Zenon DEF Missed
      <4>2. Conns = Revoked(s, out)
        BY <1>3, <2>5, <4>1
      <4>3. ASSUME NEW c \in Conns PROVE SkipOf(k, c) # 0
        <5>1. c \in Revoked(s, out)
          BY <4>2
        <5>2. k.revoked[c] = IF c \in Recent(s) THEN s.revoked[c] ELSE 0
          BY <1>1, <5>1, Zenon DEF BaseRevoked
        <5>3. c \in Recent(s) => s.revoked[c] # None /\ s.revoked[c] < Day
          BY DEF Recent, RecentlyRevoked
        <5>4. s.revoked \in [Conns -> Ages]
          BY StateFields
        <5>5. k.revoked[c] \in 0..(Day - 1)
          BY <5>2, <5>3, <5>4 DEF Ages
        <5>6. QED BY <5>5 DEF SkipOf
      <4>4. QED BY <4>3, <1>5, <1>3, <2>5
    <3>2. CASE ~FullDue(s)
      <4>1. RefreshOf(k) > 0
        BY <2>3, <3>2, <1>1, <1>4 DEF RefreshOf, FullDue, Ages
      <4>2. QED BY <4>1, <1>5, <1>3, <2>5
    <3>3. QED BY <3>1, <3>2
  <2>6. QED BY <2>4, <2>5
<1>8. ASSUME NEW x \in Read(s, out) PROVE s.versions[x[1]][x[2]] = "now"
  <2>1. /\ x[1] \in Heard(s, out) /\ x[2] \in {"models", "defaults"}
        /\ x[2] = "defaults" => out[x[1]] = "ok"
    BY <1>8 DEF Read
  <2>2. Version(s, x[1], out[x[1]]) = s.versions[x[1]]
    <3>1. Reached(s, out) # {}
      BY <2>1, <1>3
    <3>2. QED BY <2>1, <3>1, Zenon DEF Due
  <2>3. /\ Version(s, x[1], out[x[1]]).models = "now"
        /\ out[x[1]] = "ok" => Version(s, x[1], out[x[1]]).defaults = "now"
    BY Zenon DEF Version
  <2>4. x[2] = "models" \/ x[2] = "defaults"
    BY <2>1
  <2>5. QED BY <2>1, <2>2, <2>3, <2>4
<1>9. DueOf(k) > 0 /\ (OlderOnes(s, out) # {} => UnsupportedOf(k, cooldown) > 0)
  BY <1>6, <1>7, Zenon
<1>10. QED BY <1>8, <1>9

-----------------------------------------------------------------------------
(* The steps.                                                               *)

\* A run that has judged, and one that has refreshed or heard of a change.
LEMMA RunFields ==
  ASSUME NEW r \in Judgements
  PROVE  /\ r.at \in {"refresh", "done", "failed", "manifest"}
         /\ r.seen \in SUBSET (Conns \X Parts) /\ r.older \in BOOLEAN
         /\ r.skip \in SUBSET Conns /\ r.pinned \in SUBSET Conns
         /\ r.done \in States /\ r.failed \in States
BY Zenon DEF Judgements

\* A run that is past its start has judged.
LEMMA RunsAt ==
  ASSUME TickTypes, NEW at \in {"refresh", "done", "failed", "manifest"}, Running(at)
  PROVE  run \in Judgements /\ run.at = at
<1>1. run # None /\ run.at = at /\ run \in {None} \cup Runs
  BY DEF Running, TickTypes
<1>2. run \in [at : {"start"}] => run.at = "start"
  BY Zenon
<1>3. QED BY <1>1, <1>2 DEF Runs

Cowork(s, cowork) ==
  [versions |-> s.versions, retry |-> s.retry, after |-> s.after, delay |-> s.delay,
   last |-> s.last, revoked |-> s.revoked, cowork |-> cowork]
Versioned(s, versions) ==
  [versions |-> versions, retry |-> s.retry, after |-> s.after, delay |-> s.delay,
   last |-> s.last, revoked |-> s.revoked, cowork |-> s.cowork]

\* A state with another mark for Desktop, or other versions.
LEMMA CoworkAs ==
  ASSUME NEW s \in States
  PROVE  /\ \A cowork : [s EXCEPT !.cowork = cowork] = Cowork(s, cowork)
         /\ \A cowork \in BOOLEAN : Cowork(s, cowork) \in States
         /\ \A versions : [s EXCEPT !.versions = versions] = Versioned(s, versions)
         /\ \A versions \in [Conns -> [Parts -> Seen]] : Versioned(s, versions) \in States
<1>1. ASSUME NEW cowork, NEW n, n = [s EXCEPT !.cowork = cowork] PROVE n = Cowork(s, cowork)
  BY <1>1, Zenon DEF States, Cowork
<1>2. ASSUME NEW versions, NEW n, n = [s EXCEPT !.versions = versions]
      PROVE  n = Versioned(s, versions)
  BY <1>2, Zenon DEF States, Versioned
<1>3. ASSUME NEW cowork \in BOOLEAN PROVE Cowork(s, cowork) \in States
  BY StateFields, Zenon DEF Cowork, States
<1>4. ASSUME NEW versions \in [Conns -> [Parts -> Seen]] PROVE Versioned(s, versions) \in States
  BY StateFields, Zenon DEF Versioned, States
<1>5. QED BY <1>1, <1>2, <1>3, <1>4, Zenon

Refreshed(r, at, cowork) ==
  [at |-> at, seen |-> r.seen, older |-> r.older, skip |-> r.skip, pinned |-> r.pinned,
   done |-> Cowork(r.done, cowork), failed |-> r.failed]
Overtaken(r, seen, done, failed) ==
  [at |-> r.at, seen |-> seen, older |-> r.older, skip |-> r.skip, pinned |-> r.pinned,
   done |-> Versioned(r.done, done), failed |-> Versioned(r.failed, failed)]

\* A run one step on, field by field.
LEMMA RunAs ==
  ASSUME NEW r \in Judgements
  PROVE  /\ \A at, cowork : [r EXCEPT !.at = at, !.done.cowork = cowork] = Refreshed(r, at, cowork)
         /\ \A at : [r EXCEPT !.at = at]
                      = [at |-> at, seen |-> r.seen, older |-> r.older, skip |-> r.skip,
                         pinned |-> r.pinned, done |-> r.done, failed |-> r.failed]
         /\ \A seen, done, failed :
              [r EXCEPT !.seen = seen, !.done.versions = done, !.failed.versions = failed]
                = Overtaken(r, seen, done, failed)
<1>1. r.done \in States /\ r.failed \in States
  BY RunFields
<1>2. ASSUME NEW at, NEW cowork, NEW n, n = [r EXCEPT !.at = at, !.done.cowork = cowork]
      PROVE  n = Refreshed(r, at, cowork)
  <2>1. n = [at |-> at, seen |-> r.seen, older |-> r.older, skip |-> r.skip, pinned |-> r.pinned,
             done |-> [r.done EXCEPT !.cowork = cowork], failed |-> r.failed]
    BY <1>2, Zenon DEF Judgements
  <2>2. QED BY <1>1, <2>1, CoworkAs, Zenon DEF Refreshed
<1>3. ASSUME NEW at, NEW n, n = [r EXCEPT !.at = at]
      PROVE  n = [at |-> at, seen |-> r.seen, older |-> r.older, skip |-> r.skip,
                  pinned |-> r.pinned, done |-> r.done, failed |-> r.failed]
  BY <1>3, Zenon DEF Judgements
<1>4. ASSUME NEW seen, NEW done, NEW failed, NEW n,
             n = [r EXCEPT !.seen = seen, !.done.versions = done, !.failed.versions = failed]
      PROVE  n = Overtaken(r, seen, done, failed)
  <2>1. n = [at |-> r.at, seen |-> seen, older |-> r.older, skip |-> r.skip, pinned |-> r.pinned,
             done |-> [r.done EXCEPT !.versions = done],
             failed |-> [r.failed EXCEPT !.versions = failed]]
    BY <1>4, Zenon DEF Judgements
  <2>2. QED BY <1>1, <2>1, CoworkAs, Zenon DEF Overtaken
<1>5. QED BY <1>2, <1>3, <1>4, Zenon

\* What Router changes is no longer up to date.
LEMMA OutdatedVersions ==
  ASSUME NEW v \in [Conns -> [Parts -> Seen]], NEW c \in Conns, NEW parts \in SUBSET Parts
  PROVE  /\ Outdated(v, c, parts) \in [Conns -> [Parts -> Seen]]
         /\ \A d \in Conns \ {c} : Outdated(v, c, parts)[d] = v[d]
         /\ \A part \in Parts : Outdated(v, c, parts)[c][part]
              = IF part \in parts /\ v[c][part] = "now" THEN "old" ELSE v[c][part]
<1>1. Outdated(v, c, parts) = [v EXCEPT ![c] = [part \in Parts |->
         IF part \in parts /\ v[c][part] = "now" THEN "old" ELSE v[c][part]]]
  BY DEF Outdated
<1>2. [part \in Parts |-> IF part \in parts /\ v[c][part] = "now" THEN "old" ELSE v[c][part]]
        \in [Parts -> Seen]
  BY DEF Seen
<1>3. QED BY <1>1, <1>2

\* A run as its answers make it.
Begun(s, out) ==
  [at |-> IF Due(s, out) THEN "refresh" ELSE "manifest", seen |-> Read(s, out),
   older |-> (OlderOnes(s, out) # {}), skip |-> Revoked(s, out) \cup Away(s, out),
   pinned |-> Heard(s, out), done |-> Done(s, out), failed |-> Failed(s, out)]

\* What a run makes of the answers is a run.
LEMMA BegunRun ==
  ASSUME NEW s \in States, NEW out, combined \in BOOLEAN
  PROVE  Begun(s, out) \in Judgements
<1>1. /\ Read(s, out) \in SUBSET (Conns \X Parts)
      /\ Revoked(s, out) \cup Away(s, out) \in SUBSET Conns /\ Heard(s, out) \in SUBSET Conns
  BY DEF Read, Parts, Revoked, Away, Heard, Among, Recent
<1>2. Done(s, out) \in States
  BY DoneState
<1>3. Failed(s, out) \in States
  BY FailedState
<1>4. ASSUME NEW at \in {"refresh", "manifest"}, NEW older \in BOOLEAN
      PROVE  [at |-> at, seen |-> Read(s, out), older |-> older,
              skip |-> Revoked(s, out) \cup Away(s, out), pinned |-> Heard(s, out),
              done |-> Done(s, out), failed |-> Failed(s, out)] \in Judgements
  BY <1>1, <1>2, <1>3, Zenon DEF Judgements
<1>5. (IF Due(s, out) THEN "refresh" ELSE "manifest") \in {"refresh", "manifest"}
      /\ (OlderOnes(s, out) # {}) \in BOOLEAN
  OBVIOUS
<1>6. QED BY <1>4, <1>5, Zenon DEF Begun

\* What Check does, by the parts of the judgement.
LEMMA CheckStep ==
  ASSUME TickTypes, NEW out \in Answers, NEW retried \in BOOLEAN, Check(out, retried)
  PROVE  \E s \in States :
           /\ s = state \/ (s = Cowork(state, FALSE) /\ deskFresh')
           /\ state' = IF Due(s, out) THEN s ELSE Kept(s, out)
           /\ run' = Begun(s, out)
           /\ rejected' = rejected \cup Revoked(s, out)
           /\ deskFresh' \in BOOLEAN /\ (deskFresh => deskFresh')
           /\ described' = (described /\ state' = state)
           /\ UNCHANGED <<cooldown, manifest, worldVars, fresh, unread>>
<1> DEFINE s == IF retried THEN [state EXCEPT !.cowork = FALSE] ELSE state
           j == Judged(s, out)
<1>1. state \in States /\ combined \in BOOLEAN /\ deskFresh \in BOOLEAN
  BY DEF TickTypes
<1>2. [state EXCEPT !.cowork = FALSE] = Cowork(state, FALSE) /\ Cowork(state, FALSE) \in States
  <2>1. \A cowork \in BOOLEAN : Cowork(state, cowork) \in States
    BY <1>1, CoworkAs
  <2>2. \A cowork : [state EXCEPT !.cowork = cowork] = Cowork(state, cowork)
    BY <1>1, CoworkAs
  <2>3. QED BY <2>1, <2>2, Zenon
<1>3. /\ deskFresh' = (deskFresh \/ retried)
      /\ rejected' = rejected \cup j.revoked
      /\ state' = IF j.due THEN s ELSE j.kept
      /\ run' = [at |-> IF j.due THEN "refresh" ELSE "manifest",
                 seen |-> j.seen, older |-> j.older, skip |-> j.skip,
                 pinned |-> j.pinned, done |-> j.done, failed |-> j.failed]
      /\ described' = (described /\ state' = state)
      /\ UNCHANGED <<cooldown, manifest, worldVars, fresh, unread>>
  <2>1. /\ deskFresh' = (deskFresh \/ retried)
        /\ \E t \in {s} : \E k \in {Judged(t, out)} :
             /\ rejected' = rejected \cup k.revoked
             /\ state' = IF k.due THEN t ELSE k.kept
             /\ run' = [at |-> IF k.due THEN "refresh" ELSE "manifest",
                        seen |-> k.seen, older |-> k.older, skip |-> k.skip,
                        pinned |-> k.pinned, done |-> k.done, failed |-> k.failed]
        /\ described' = (described /\ state' = state)
        /\ UNCHANGED <<cooldown, manifest, worldVars, fresh, unread>>
    BY Zenon DEF Check
  <2> HIDE DEF s
  <2>2. PICK t \in {s} : \E k \in {Judged(t, out)} :
          /\ rejected' = rejected \cup k.revoked
          /\ state' = IF k.due THEN t ELSE k.kept
          /\ run' = [at |-> IF k.due THEN "refresh" ELSE "manifest",
                     seen |-> k.seen, older |-> k.older, skip |-> k.skip,
                     pinned |-> k.pinned, done |-> k.done, failed |-> k.failed]
    BY <2>1, Zenon
  <2>3. PICK k \in {Judged(t, out)} :
          /\ rejected' = rejected \cup k.revoked
          /\ state' = IF k.due THEN t ELSE k.kept
          /\ run' = [at |-> IF k.due THEN "refresh" ELSE "manifest",
                     seen |-> k.seen, older |-> k.older, skip |-> k.skip,
                     pinned |-> k.pinned, done |-> k.done, failed |-> k.failed]
    BY <2>2, Zenon
  <2>4. t = s /\ k = j
    BY <2>2, <2>3, Zenon
  <2>5. QED BY <2>1, <2>3, <2>4, Zenon
<1>4. s \in States /\ (s = state \/ (s = Cowork(state, FALSE) /\ deskFresh'))
  BY <1>1, <1>2, <1>3, Zenon
<1>5. deskFresh' \in BOOLEAN /\ (deskFresh => deskFresh')
  BY <1>1, <1>3, Zenon
<1> HIDE DEF s
<1>6. /\ j.due = Due(s, out) /\ j.skip = Revoked(s, out) \cup Away(s, out)
      /\ j.older = (OlderOnes(s, out) # {}) /\ j.pinned = Heard(s, out)
      /\ j.seen = Read(s, out) /\ j.revoked = Revoked(s, out) /\ j.kept = Kept(s, out)
      /\ j.done = Done(s, out) /\ j.failed = Failed(s, out)
  <2>1. ASSUME NEW t \in States
        PROVE  /\ Judged(t, out).due = Due(t, out)
               /\ Judged(t, out).skip = Revoked(t, out) \cup Away(t, out)
               /\ Judged(t, out).older = (OlderOnes(t, out) # {})
               /\ Judged(t, out).pinned = Heard(t, out)
               /\ Judged(t, out).seen = Read(t, out)
               /\ Judged(t, out).revoked = Revoked(t, out)
               /\ Judged(t, out).kept = Kept(t, out)
               /\ Judged(t, out).done = Done(t, out) /\ Judged(t, out).failed = Failed(t, out)
    BY <1>1, JudgedAs
  <2>2. QED BY <1>4, <2>1, Zenon
<1> HIDE DEF j
<1>7. run' = Begun(s, out)
  BY <1>3, <1>6, Zenon DEF Begun
<1>8. state' = IF Due(s, out) THEN s ELSE Kept(s, out)
  BY <1>3, <1>6, Zenon
<1>9. QED BY <1>3, <1>4, <1>5, <1>6, <1>7, <1>8, Zenon

\* What has reached the setups, or, of the defaults, could not be read when it was to.
Settled == fresh \cup (unread \X {"defaults"})

Gained(good, before, now) ==
  /\ before \subseteq now
  /\ \A c \in good : <<c, "models">> \in now /\ (c \in Governed => <<c, "defaults">> \in now)

\* What Refresh does: done only if every connection it was about succeeded.
LEMMA RefreshStep ==
  ASSUME TickTypes, NEW good \in SUBSET Conns, NEW own, NEW passed \in BOOLEAN,
         Refresh(good, own, passed)
  PROVE  \E at \in {"done", "failed"}, cowork \in BOOLEAN :
           /\ run \in Judgements /\ run.at = "refresh"
           /\ run' = Refreshed(run, at, cowork) /\ Refreshed(run, at, cowork) \in Judgements
           /\ at = "done" => good = Conns \ run.skip
           /\ Desk \in Conns \ run.skip => cowork \/ deskFresh'
           /\ deskFresh' \in BOOLEAN /\ (deskFresh => deskFresh')
           /\ fresh' \in SUBSET (Conns \X Parts) /\ unread' \in SUBSET Conns
           /\ Gained(good, Settled, Settled')
           /\ UNCHANGED <<state, cooldown, manifest, attempts, worldVars, rejected, described>>
<1> DEFINE due == Conns \ run.skip
           coworkDue == Desk \in due /\ ~desktop
           at == IF good = due THEN "done" ELSE "failed"
           cowork == Desk # None /\ (desktop \/ (coworkDue /\ ~passed))
<1>1. run \in Judgements /\ run.at = "refresh"
  <2>1. Running("refresh")
    BY Zenon DEF Refresh
  <2>2. QED BY <2>1, RunsAt
<1>2. /\ good \subseteq due /\ (passed => coworkDue)
      /\ fresh' = (fresh \cup (good \X {"models"})) \cup ({c \in good : Body(c, own)} \X {"defaults"})
      /\ unread' = {c \in unread \cup (good \cap Governed) : c \in good => ~Body(c, own)}
      /\ deskFresh' = (deskFresh \/ passed)
      /\ run' = [run EXCEPT !.at = at, !.done.cowork = cowork]
      /\ UNCHANGED <<state, cooldown, manifest, attempts, worldVars, rejected, described>>
  BY Zenon DEF Refresh
<1>3. /\ desktop \in BOOLEAN /\ deskFresh \in BOOLEAN /\ fresh \in SUBSET (Conns \X Parts)
      /\ unread \in SUBSET Conns
  BY DEF TickTypes
<1>4. at \in {"done", "failed"} /\ cowork \in BOOLEAN /\ (at = "done" => good = due)
  BY <1>3
<1>5. Desk \in due => cowork \/ deskFresh'
  BY <1>2, <1>3, ConnsAssumption
<1>6. deskFresh' \in BOOLEAN /\ (deskFresh => deskFresh')
  BY <1>2, <1>3
<1>7. fresh' \in SUBSET (Conns \X Parts) /\ unread' \in SUBSET Conns /\ Gained(good, Settled, Settled')
  <2> DEFINE told(c) == Body(c, own)
  <2>1. /\ fresh' = (fresh \cup (good \X {"models"})) \cup ({c \in good : told(c)} \X {"defaults"})
        /\ unread' = {c \in unread \cup (good \cap Governed) : c \in good => ~told(c)}
    BY <1>2
  <2> HIDE DEF told
  <2>2. fresh' \in SUBSET (Conns \X Parts)
    BY <1>3, <2>1 DEF Parts
  <2>3. unread' \in SUBSET Conns
    BY <1>3, <2>1
  <2>4. ASSUME NEW x \in Settled PROVE x \in Settled'
    <3>1. CASE x \in fresh
      BY <2>1, <3>1 DEF Settled
    <3>2. CASE x \in unread \X {"defaults"}
      BY <2>1, <3>2 DEF Settled
    <3>3. QED BY <2>4, <3>1, <3>2 DEF Settled
  <2>5. ASSUME NEW c \in good
        PROVE  <<c, "models">> \in Settled' /\ (c \in Governed => <<c, "defaults">> \in Settled')
    <3>1. <<c, "models">> \in Settled'
      BY <2>1 DEF Settled
    <3>2. ASSUME c \in Governed PROVE <<c, "defaults">> \in Settled'
      <4>1. CASE told(c)
        BY <2>1, <4>1 DEF Settled
      <4>2. CASE ~told(c)
        <5>1. c \in unread'
          BY <2>1, <3>2, <4>2
        <5>2. QED BY <5>1 DEF Settled
      <4>3. QED BY <4>1, <4>2
    <3>3. QED BY <3>1, <3>2
  <2>6. QED BY <2>2, <2>3, <2>4, <2>5 DEF Gained
<1> HIDE DEF at, cowork
<1>8. run' = Refreshed(run, at, cowork)
  BY <1>1, <1>2, RunAs, Zenon
<1>9. Refreshed(run, at, cowork) \in Judgements
  <2>1. Cowork(run.done, cowork) \in States
    BY <1>1, <1>4, RunFields, CoworkAs
  <2>2. at \in {"refresh", "done", "failed", "manifest"}
    BY <1>4
  <2>3. QED BY <1>1, <2>1, <2>2, RunFields, Zenon DEF Refreshed, Judgements
<1>10. QED BY <1>1, <1>2, <1>4, <1>5, <1>6, <1>7, <1>8, <1>9, Zenon

\* What Save does: the state becomes the one judged for the outcome.
LEMMA SaveStep ==
  ASSUME TickTypes, Save
  PROVE  /\ run \in Judgements /\ run.at \in {"done", "failed"}
         /\ state' = IF run.at = "done" THEN run.done ELSE run.failed
         /\ cooldown' = IF run.at = "done" THEN Cooldown ELSE cooldown
         /\ run' = [at |-> "manifest", seen |-> run.seen, older |-> run.older, skip |-> run.skip,
                    pinned |-> run.pinned, done |-> run.done, failed |-> run.failed]
         /\ run' \in Judgements
         /\ rejected' = rejected \cap run.skip
         /\ described' = FALSE
         /\ UNCHANGED <<manifest, attempts, worldVars, fresh, unread, deskFresh, faults>>
<1>1. /\ Running("done") \/ Running("failed")
      /\ run' = [run EXCEPT !.at = "manifest"]
      /\ state' = IF run.at = "done" THEN run.done ELSE run.failed
      /\ cooldown' = IF run.at = "done" THEN Cooldown ELSE cooldown
      /\ rejected' = rejected \cap run.skip
      /\ described' = FALSE
      /\ UNCHANGED <<manifest, attempts, worldVars, fresh, unread, deskFresh, faults>>
  BY Zenon DEF Save
<1>2. run \in Judgements /\ run.at \in {"done", "failed"}
  BY <1>1, RunsAt
<1>3. run' = [at |-> "manifest", seen |-> run.seen, older |-> run.older, skip |-> run.skip,
              pinned |-> run.pinned, done |-> run.done, failed |-> run.failed]
  BY <1>1, <1>2, RunAs, Zenon
<1>4. run' \in Judgements
  BY <1>2, <1>3, RunFields, Zenon DEF Judgements
<1>5. QED BY <1>1, <1>2, <1>3, <1>4, Zenon

\* What a change at Router does to everything that compares with it.
LEMMA ChangeStep ==
  ASSUME TickTypes, NEW c \in Conns, NEW part \in Parts, Change(c, part)
  PROVE  LET parts == IF combined THEN {part, "models"} ELSE {part} IN
         /\ part = "defaults" => c \in Governed
         /\ parts \in SUBSET Parts
         /\ fresh' = fresh \ {<<c, part>>}
         /\ deskFresh' = (deskFresh /\ ~(c = Desk /\ part = "models"))
         /\ state' = Versioned(state, Outdated(state.versions, c, parts))
         /\ manifest # None =>
              manifest' = [expected |-> Outdated(manifest.expected, c, parts), due |-> manifest.due,
                           unsupported |-> manifest.unsupported, skip |-> manifest.skip,
                           wait |-> manifest.wait]
         /\ manifest = None => manifest' = None
         /\ run = None \/ run.at = "start" => run' = run
         /\ run # None /\ run.at # "start" =>
              /\ run \in Judgements
              /\ run' = Overtaken(run, run.seen \ ({c} \X parts),
                                  Outdated(run.done.versions, c, parts),
                                  Outdated(run.failed.versions, c, parts))
         /\ UNCHANGED <<cooldown, worldVars, rejected, described, unread>>
<1> DEFINE parts == IF combined THEN {part, "models"} ELSE {part}
<1>1. parts \in SUBSET Parts
  BY DEF Parts
<1>2. /\ part = "defaults" => c \in Governed
      /\ fresh' = fresh \ {<<c, part>>}
      /\ deskFresh' = (deskFresh /\ ~(c = Desk /\ part = "models"))
      /\ state' = [state EXCEPT !.versions = Outdated(state.versions, c, parts)]
      /\ manifest' = IF manifest = None THEN None
                     ELSE [manifest EXCEPT !.expected = Outdated(manifest.expected, c, parts)]
      /\ run' = IF run = None THEN None
                ELSE IF run.at = "start" THEN run
                ELSE [run EXCEPT !.seen = run.seen \ ({c} \X parts),
                                 !.done.versions = Outdated(run.done.versions, c, parts),
                                 !.failed.versions = Outdated(run.failed.versions, c, parts)]
      /\ UNCHANGED <<cooldown, worldVars, rejected, described, unread>>
  BY Zenon DEF Change
<1> HIDE DEF parts
<1>3. state \in States /\ manifest \in {None} \cup Manifests /\ run \in {None} \cup Runs
  BY DEF TickTypes
<1>4. state' = Versioned(state, Outdated(state.versions, c, parts))
  BY <1>2, <1>3, CoworkAs, Zenon
<1>5. ASSUME manifest # None
      PROVE  manifest' = [expected |-> Outdated(manifest.expected, c, parts), due |-> manifest.due,
                           unsupported |-> manifest.unsupported, skip |-> manifest.skip,
                           wait |-> manifest.wait]
  <2>1. manifest \in Manifests
    BY <1>3, <1>5
  <2>2. ASSUME NEW expected, NEW n, n = [manifest EXCEPT !.expected = expected]
        PROVE  n = [expected |-> expected, due |-> manifest.due,
                    unsupported |-> manifest.unsupported, skip |-> manifest.skip,
                    wait |-> manifest.wait]
    BY <2>1, <2>2, Zenon DEF Manifests
  <2>3. QED BY <1>2, <1>5, <2>2, Zenon
<1>6. ASSUME run # None, run.at # "start"
      PROVE  /\ run \in Judgements
             /\ run' = Overtaken(run, run.seen \ ({c} \X parts),
                                  Outdated(run.done.versions, c, parts),
                                  Outdated(run.failed.versions, c, parts))
  <2>1. run \in Judgements
    <3>1. run \in [at : {"start"}] => run.at = "start"
      BY Zenon
    <3>2. QED BY <1>3, <1>6, <3>1 DEF Runs
  <2>2. run' = [run EXCEPT !.seen = run.seen \ ({c} \X parts),
                           !.done.versions = Outdated(run.done.versions, c, parts),
                           !.failed.versions = Outdated(run.failed.versions, c, parts)]
    BY <1>2, <1>6, Zenon
  <2>3. \A seen, done, failed :
          [run EXCEPT !.seen = seen, !.done.versions = done, !.failed.versions = failed]
            = Overtaken(run, seen, done, failed)
    BY <2>1, RunAs, Zenon
  <2>4. QED BY <2>1, <2>2, <2>3, Zenon
<1>7. run = None \/ run.at = "start" => run' = run
  BY <1>2, Zenon
<1>8. QED BY <1>1, <1>2, <1>4, <1>5, <1>6, <1>7, Zenon DEF parts

\* What the passing of an hour does.
LEMMA TickStep ==
  ASSUME TickTypes, Tick
  PROVE  /\ run = None /\ run' = None
         /\ state' = Hence(state)
         /\ cooldown' = Less(cooldown)
         /\ manifest = None => manifest' = None
         /\ manifest # None =>
              manifest' = [expected |-> manifest.expected, due |-> Less(manifest.due),
                           unsupported |-> Less(manifest.unsupported),
                           skip |-> [c \in Conns |-> Less(manifest.skip[c])],
                           wait |-> manifest.wait]
         /\ UNCHANGED <<worldVars, fresh, unread, deskFresh, rejected, described, faults>>
<1>1. /\ run = None
      /\ state' = [state EXCEPT !.after = Less(@), !.last = Older(@),
                                !.revoked = [c \in Conns |-> Older(@[c])]]
      /\ cooldown' = Less(cooldown)
      /\ manifest' = IF manifest = None THEN None
                     ELSE [manifest EXCEPT !.due = Less(manifest.due),
                                           !.unsupported = Less(manifest.unsupported),
                                           !.skip = [c \in Conns |-> Less(manifest.skip[c])]]
      /\ UNCHANGED <<run, worldVars, fresh, unread, deskFresh, rejected, described, faults>>
  BY Zenon DEF Tick
<1>2. state \in States /\ manifest \in {None} \cup Manifests
  BY DEF TickTypes
<1>3. state' = Hence(state)
  BY <1>1, <1>2, HenceAs, Zenon
<1>4. ASSUME manifest # None
      PROVE  manifest' = [expected |-> manifest.expected, due |-> Less(manifest.due),
                           unsupported |-> Less(manifest.unsupported),
                           skip |-> [c \in Conns |-> Less(manifest.skip[c])],
                           wait |-> manifest.wait]
  <2>1. manifest \in Manifests
    BY <1>2, <1>4
  <2>2. ASSUME NEW due, NEW unsupported, NEW skip, NEW n,
               n = [manifest EXCEPT !.due = due, !.unsupported = unsupported, !.skip = skip]
        PROVE  n = [expected |-> manifest.expected, due |-> due, unsupported |-> unsupported,
                    skip |-> skip, wait |-> manifest.wait]
    BY <2>1, <2>2, Zenon DEF Manifests
  <2>3. QED BY <1>1, <1>4, <2>2
<1>5. QED BY <1>1, <1>3, <1>4, Zenon

\* What the end of a run does.
LEMMA WriteStep ==
  ASSUME TickTypes, WriteManifest
  PROVE  /\ run \in Judgements /\ run.at = "manifest" /\ run # None /\ run' = None
         /\ agent => manifest' = [expected |-> state.versions, due |-> DueAt,
                                  unsupported |-> UnsupportedDue,
                                  skip |-> [c \in Conns |-> SkipFor(c)],
                                  wait |-> IF state.cowork /\ desktop THEN "open" ELSE "none"]
         /\ ~agent => manifest' = manifest
         /\ described' = agent
         /\ UNCHANGED <<state, cooldown, attempts, worldVars, fresh, unread, deskFresh, rejected, faults>>
<1>1. /\ Running("manifest") /\ run' = None
      /\ manifest' = IF agent
           THEN [expected |-> state.versions, due |-> DueAt, unsupported |-> UnsupportedDue,
                 skip |-> [c \in Conns |-> SkipFor(c)],
                 wait |-> IF state.cowork /\ desktop THEN "open" ELSE "none"]
           ELSE manifest
      /\ described' = agent
      /\ UNCHANGED <<state, cooldown, attempts, worldVars, fresh, unread, deskFresh, rejected, faults>>
  BY Zenon DEF WriteManifest
<1>2. run \in Judgements /\ run.at = "manifest" /\ run # None
  BY <1>1, RunsAt DEF Running
<1>3. QED BY <1>1, <1>2, Zenon

\* The steps that leave alone what is recorded.
Quiet ==
  \/ Starts \/ (agent /\ run = None /\ \E out \in Answers : AgentIdles(out))
  \/ ClearManifest \/ Desktop \/ Crash \/ UNCHANGED vars

\* What those steps may do.
LEMMA QuietStep ==
  ASSUME TickTypes, Quiet
  PROVE  /\ UNCHANGED <<state, cooldown, agent, combined, fresh, unread, deskFresh, rejected, described>>
         /\ desktop' \in BOOLEAN
         /\ run' = run \/ run' = None \/ run' = [at |-> "start"]
         /\ \/ manifest' = manifest \/ manifest' = None
            \/ /\ manifest # None
               /\ manifest' = [expected |-> manifest.expected, due |-> manifest.due,
                               unsupported |-> manifest.unsupported, skip |-> manifest.skip,
                               wait |-> "closed"]
         /\ run # None /\ run' = None => manifest' = manifest
<1>t. desktop \in BOOLEAN /\ manifest \in {None} \cup Manifests
  BY DEF TickTypes
<1>1. CASE Starts
  <2>1. /\ run = None /\ run' = [at |-> "start"]
        /\ UNCHANGED <<state, cooldown, manifest, worldVars, fresh, unread, deskFresh, rejected, described>>
    BY <1>1, Zenon DEF Starts, StartJob, AgentStarts, AgentStartsOn
  <2>2. QED BY <1>t, <2>1, Zenon DEF worldVars
<1>2. CASE agent /\ run = None /\ \E out \in Answers : AgentIdles(out)
  <2>1. UNCHANGED <<state, cooldown, manifest, run, worldVars, fresh, unread, deskFresh, rejected, described>>
    BY <1>2, Zenon DEF AgentIdles
  <2>2. QED BY <1>t, <2>1, Zenon DEF worldVars
<1>3. CASE ClearManifest
  <2>1. /\ manifest' = None
        /\ UNCHANGED <<state, cooldown, run, worldVars, fresh, unread, deskFresh, rejected, described>>
    BY <1>3, Zenon DEF ClearManifest
  <2>2. QED BY <1>t, <2>1, Zenon DEF worldVars
<1>4. CASE Desktop
  <2>1. /\ desktop' = ~desktop
        /\ manifest' = IF manifest = None THEN None
                       ELSE IF desktop /\ manifest.wait = "open"
                       THEN [manifest EXCEPT !.wait = "closed"] ELSE manifest
        /\ UNCHANGED <<state, cooldown, run, agent, combined, fresh, unread, deskFresh, rejected, described>>
    BY <1>4, Zenon DEF Desktop
  <2>2. ASSUME manifest # None
        PROVE  [manifest EXCEPT !.wait = "closed"]
                 = [expected |-> manifest.expected, due |-> manifest.due,
                    unsupported |-> manifest.unsupported, skip |-> manifest.skip,
                    wait |-> "closed"]
    <3>1. manifest \in Manifests
      BY <1>t, <2>2
    <3>2. ASSUME NEW n, n = [manifest EXCEPT !.wait = "closed"]
          PROVE  n = [expected |-> manifest.expected, due |-> manifest.due,
                      unsupported |-> manifest.unsupported, skip |-> manifest.skip,
                      wait |-> "closed"]
      BY <3>1, <3>2, Zenon DEF Manifests
    <3>3. QED BY <3>2, Zenon
  <2>3. desktop' \in BOOLEAN
    BY <1>t, <2>1
  <2>4. QED BY <1>t, <2>1, <2>2, <2>3, Zenon
<1>5. CASE Crash
  <2>1. /\ run' = None
        /\ UNCHANGED <<state, cooldown, manifest, worldVars, fresh, unread, deskFresh, rejected, described>>
    BY <1>5, Zenon DEF Crash
  <2>2. QED BY <1>t, <2>1, Zenon DEF worldVars
<1>6. CASE UNCHANGED vars
  BY <1>t, <1>6, Zenon DEF vars, syncVars, worldVars
<1>7. QED BY <1>1, <1>2, <1>3, <1>4, <1>5, <1>6, Zenon DEF Quiet

\* Every step is one of these.
LEMMA StepsAre ==
  ASSUME [Next]_vars
  PROVE  \/ \E out \in Answers, retried \in BOOLEAN : Check(out, retried)
         \/ \E good \in SUBSET Conns, own, passed \in BOOLEAN : Refresh(good, own, passed)
         \/ Save \/ WriteManifest \/ Quiet
         \/ \E c \in Conns, part \in Parts : Change(c, part)
         \/ Tick
BY Zenon DEF Next, RunStep, Quiet

\* A manifest, and a run that starts.
LEMMA ManifestOf ==
  ASSUME NEW expected \in [Conns -> [Parts -> Seen]], NEW due \in Nat, NEW unsupported \in Nat,
         NEW skip \in [Conns -> Nat], NEW wait \in {"open", "none", "closed"}
  PROVE  [expected |-> expected, due |-> due, unsupported |-> unsupported, skip |-> skip,
          wait |-> wait] \in Manifests
BY Zenon DEF Manifests

\* A run that starts.
LEMMA StartOf == [at |-> "start"] \in Runs
BY DEF Runs

\* Every variable keeps its type.
LEMMA TypesInit ==
  ASSUME Init
  PROVE  TickTypes
<1>1. /\ fresh = Conns \X Parts /\ deskFresh = TRUE
      /\ state = [versions |-> [c \in Conns |-> Unknown], retry |-> {}, after |-> None,
                  delay |-> 0, last |-> None, revoked |-> [c \in Conns |-> None],
                  cowork |-> FALSE]
      /\ cooldown = 0 /\ manifest = None /\ run = None /\ desktop = FALSE
      /\ agent \in BOOLEAN /\ combined \in BOOLEAN /\ rejected = {} /\ unread = {}
  BY DEF Init
<1>2. [c \in Conns |-> Unknown] \in [Conns -> [Parts -> Seen]]
  BY DEF Unknown, Seen
<1>3. [c \in Conns |-> None] \in [Conns -> Ages] /\ None \in Ages /\ {} \in SUBSET Conns
      /\ None \in Nat \cup {None} /\ 0 \in Nat
  BY DEF Ages
<1>4. state \in States
  BY <1>1, <1>2, <1>3, Zenon DEF States
<1>5. QED BY <1>1, <1>4 DEF TickTypes

\* Every step keeps the types.
LEMMA TypesStep ==
  ASSUME TickTypes, [Next]_vars
  PROVE  TickTypes'
<1>t. /\ state \in States /\ cooldown \in Nat /\ manifest \in {None} \cup Manifests
      /\ run \in {None} \cup Runs
      /\ agent \in BOOLEAN /\ combined \in BOOLEAN /\ desktop \in BOOLEAN /\ deskFresh \in BOOLEAN
      /\ fresh \in SUBSET (Conns \X Parts) /\ rejected \in SUBSET Conns
      /\ unread \in SUBSET Conns
  BY DEF TickTypes
<1>m. ASSUME manifest # None
      PROVE  /\ manifest.expected \in [Conns -> [Parts -> Seen]] /\ manifest.due \in Nat
             /\ manifest.unsupported \in Nat /\ manifest.skip \in [Conns -> Nat]
             /\ manifest.wait \in {"open", "none", "closed"}
  BY <1>m, <1>t, Zenon DEF Manifests
<1>1. ASSUME NEW out \in Answers, NEW retried \in BOOLEAN, Check(out, retried) PROVE TickTypes'
  <2>1. PICK s \in States :
           /\ state' = IF Due(s, out) THEN s ELSE Kept(s, out)
           /\ run' = Begun(s, out)
           /\ rejected' = rejected \cup Revoked(s, out)
           /\ deskFresh' \in BOOLEAN
           /\ UNCHANGED <<cooldown, manifest, worldVars, fresh, unread>>
    BY <1>1, CheckStep, Zenon
  <2>a. Kept(s, out) \in States
    BY KeptState
  <2>b. Begun(s, out) \in Judgements
    BY <1>t, BegunRun
  <2>2. Kept(s, out) \in States /\ Begun(s, out) \in Judgements
    BY <2>a, <2>b
  <2>3. Revoked(s, out) \in SUBSET Conns
    BY DEF Revoked, Among, Recent
  <2>4. state' \in States /\ run' \in Runs
    BY <2>1, <2>2, Zenon DEF Runs
  <2>5. QED BY <1>t, <2>1, <2>3, <2>4 DEF TickTypes, worldVars
<1>2. ASSUME NEW good \in SUBSET Conns, NEW own, NEW passed \in BOOLEAN, Refresh(good, own, passed)
      PROVE  TickTypes'
  <2>1. /\ run' \in Judgements /\ deskFresh' \in BOOLEAN /\ fresh' \in SUBSET (Conns \X Parts)
        /\ unread' \in SUBSET Conns
        /\ UNCHANGED <<state, cooldown, manifest, attempts, worldVars, rejected, described>>
    BY <1>2, RefreshStep, ZenonT(40)
  <2>2. QED BY <1>t, <2>1 DEF TickTypes, worldVars, Runs
<1>3. CASE Save
  <2>1. /\ run \in Judgements /\ run' \in Judgements
        /\ state' = IF run.at = "done" THEN run.done ELSE run.failed
        /\ cooldown' = IF run.at = "done" THEN Cooldown ELSE cooldown
        /\ rejected' = rejected \cap run.skip
        /\ UNCHANGED <<manifest, attempts, worldVars, fresh, unread, deskFresh, faults>>
    BY <1>3, SaveStep, Zenon
  <2>2. state' \in States
    BY <2>1, RunFields
  <2>3. cooldown' \in Nat
    BY <1>t, <2>1
  <2>4. rejected' \in SUBSET Conns
    BY <1>t, <2>1
  <2>5. QED BY <1>t, <2>1, <2>2, <2>3, <2>4 DEF TickTypes, worldVars, Runs
<1>4. CASE WriteManifest
  <2>1. /\ run' = None
        /\ agent => manifest' = [expected |-> state.versions, due |-> DueAt,
                                 unsupported |-> UnsupportedDue,
                                 skip |-> [c \in Conns |-> SkipFor(c)],
                                 wait |-> IF state.cowork /\ desktop THEN "open" ELSE "none"]
        /\ ~agent => manifest' = manifest
        /\ UNCHANGED <<state, cooldown, attempts, worldVars, fresh, unread, deskFresh, rejected, faults>>
    BY <1>4, WriteStep, Zenon
  <2>2. DueAt \in Nat /\ UnsupportedDue \in Nat /\ \A c \in Conns : SkipFor(c) \in Nat
    BY <1>t, DatesOf, Dates
  <2>3. state.versions \in [Conns -> [Parts -> Seen]]
    BY <1>t, StateFields
  <2>4. [c \in Conns |-> SkipFor(c)] \in [Conns -> Nat]
    BY <2>2
  <2>5. \A wait \in {"open", "none"} :
          [expected |-> state.versions, due |-> DueAt, unsupported |-> UnsupportedDue,
           skip |-> [c \in Conns |-> SkipFor(c)], wait |-> wait] \in Manifests
    BY <2>2, <2>3, <2>4, Zenon DEF Manifests
  <2>6. manifest' \in {None} \cup Manifests
    BY <1>t, <2>1, <2>5, Zenon
  <2>7. QED BY <1>t, <2>1, <2>6 DEF TickTypes, worldVars
<1>5. CASE Quiet
  <2>1. /\ UNCHANGED <<state, cooldown, agent, combined, fresh, unread, deskFresh, rejected, described>>
        /\ desktop' \in BOOLEAN
        /\ run' = run \/ run' = None \/ run' = [at |-> "start"]
        /\ \/ manifest' = manifest \/ manifest' = None
           \/ /\ manifest # None
              /\ manifest' = [expected |-> manifest.expected, due |-> manifest.due,
                              unsupported |-> manifest.unsupported, skip |-> manifest.skip,
                              wait |-> "closed"]
    BY <1>5, QuietStep, Zenon
  <2>2. manifest' \in {None} \cup Manifests
    <3>1. CASE manifest' = manifest \/ manifest' = None
      BY <1>t, <3>1
    <3>2. CASE /\ manifest # None
               /\ manifest' = [expected |-> manifest.expected, due |-> manifest.due,
                               unsupported |-> manifest.unsupported, skip |-> manifest.skip,
                               wait |-> "closed"]
      BY <1>m, <3>2, ManifestOf
    <3>3. QED BY <2>1, <3>1, <3>2, Zenon
  <2>3. run' \in {None} \cup Runs
    BY <1>t, <2>1, StartOf, Zenon
  <2>4. QED BY <1>t, <2>1, <2>2, <2>3 DEF TickTypes
<1>6. ASSUME NEW c \in Conns, NEW part \in Parts, Change(c, part) PROVE TickTypes'
  <2> DEFINE parts == IF combined THEN {part, "models"} ELSE {part}
  <2>1. /\ parts \in SUBSET Parts
        /\ fresh' = fresh \ {<<c, part>>}
        /\ deskFresh' = (deskFresh /\ ~(c = Desk /\ part = "models"))
        /\ state' = Versioned(state, Outdated(state.versions, c, parts))
        /\ manifest # None =>
             manifest' = [expected |-> Outdated(manifest.expected, c, parts), due |-> manifest.due,
                          unsupported |-> manifest.unsupported, skip |-> manifest.skip,
                          wait |-> manifest.wait]
        /\ manifest = None => manifest' = None
        /\ run = None \/ run.at = "start" => run' = run
        /\ run # None /\ run.at # "start" =>
              /\ run \in Judgements
              /\ run' = Overtaken(run, run.seen \ ({c} \X parts),
                                  Outdated(run.done.versions, c, parts),
                                  Outdated(run.failed.versions, c, parts))
        /\ UNCHANGED <<cooldown, worldVars, rejected, described, unread>>
    BY <1>6, ChangeStep, Zenon
  <2> HIDE DEF parts
  <2>2. \A v \in [Conns -> [Parts -> Seen]] : Outdated(v, c, parts) \in [Conns -> [Parts -> Seen]]
    BY <2>1, OutdatedVersions
  <2>3. \A s \in States : Versioned(s, Outdated(s.versions, c, parts)) \in States
    BY <2>2, StateFields, CoworkAs
  <2>4. state' \in States
    BY <1>t, <2>1, <2>3
  <2>5. manifest' \in {None} \cup Manifests
    <3>1. CASE manifest = None
      BY <2>1, <3>1
    <3>2. CASE manifest # None
      <4>1. Outdated(manifest.expected, c, parts) \in [Conns -> [Parts -> Seen]]
        BY <1>m, <2>2, <3>2, Zenon
      <4>2. [expected |-> Outdated(manifest.expected, c, parts), due |-> manifest.due,
             unsupported |-> manifest.unsupported, skip |-> manifest.skip,
             wait |-> manifest.wait] \in Manifests
        BY <1>m, <3>2, <4>1, ManifestOf, Zenon
      <4>3. QED BY <2>1, <3>2, <4>2, Zenon
    <3>3. QED BY <3>1, <3>2
  <2>6. run' \in {None} \cup Runs
    <3>1. CASE run = None \/ run.at = "start"
      BY <1>t, <2>1, <3>1, Zenon
    <3>2. CASE run # None /\ run.at # "start"
      <4>1. run \in Judgements
        BY <2>1, <3>2
      <4>2. run.seen \ ({c} \X parts) \in SUBSET (Conns \X Parts)
        BY <4>1, RunFields
      <4>3. Overtaken(run, run.seen \ ({c} \X parts), Outdated(run.done.versions, c, parts),
                      Outdated(run.failed.versions, c, parts)) \in Judgements
        BY <4>1, <4>2, <2>3, RunFields, Zenon DEF Overtaken, Judgements
      <4>4. QED BY <2>1, <3>2, <4>3 DEF Runs
    <3>3. QED BY <3>1, <3>2, Zenon
  <2>7. fresh' \in SUBSET (Conns \X Parts)
    BY <1>t, <2>1
  <2>8. deskFresh' \in BOOLEAN
    BY <2>1
  <2>9. QED BY <1>t, <2>1, <2>4, <2>5, <2>6, <2>7, <2>8 DEF TickTypes, worldVars
<1>7. CASE Tick
  <2>1. /\ run' = None /\ state' = Hence(state) /\ cooldown' = Less(cooldown)
        /\ manifest = None => manifest' = None
        /\ manifest # None =>
              manifest' = [expected |-> manifest.expected, due |-> Less(manifest.due),
                           unsupported |-> Less(manifest.unsupported),
                           skip |-> [c \in Conns |-> Less(manifest.skip[c])],
                           wait |-> manifest.wait]
        /\ UNCHANGED <<worldVars, fresh, unread, deskFresh, rejected, described, faults>>
    BY <1>7, TickStep, Zenon
  <2>2. Hence(state) \in States /\ Less(cooldown) \in Nat
    BY <1>t, HenceState, LessTimes
  <2>3. manifest' \in {None} \cup Manifests
    <3>1. CASE manifest = None
      BY <2>1, <3>1
    <3>2. CASE manifest # None
      <4>1. Less(manifest.due) \in Nat /\ Less(manifest.unsupported) \in Nat
        BY <1>m, <3>2, LessTimes
      <4>2. [c \in Conns |-> Less(manifest.skip[c])] \in [Conns -> Nat]
        BY <1>m, <3>2, LessTimes
      <4>3. [expected |-> manifest.expected, due |-> Less(manifest.due),
             unsupported |-> Less(manifest.unsupported),
             skip |-> [c \in Conns |-> Less(manifest.skip[c])],
             wait |-> manifest.wait] \in Manifests
        BY <1>m, <3>2, <4>1, <4>2, ManifestOf, Zenon
      <4>4. QED BY <2>1, <3>2, <4>3, Zenon
    <3>3. QED BY <3>1, <3>2
  <2>4. QED BY <1>t, <2>1, <2>2, <2>3 DEF TickTypes, worldVars
<1>8. QED BY <1>1, <1>2, <1>3, <1>4, <1>5, <1>6, <1>7, StepsAre, Zenon

\* Type correctness: the state, the manifest and the run stay well formed whatever
\* Router answers and whatever fails.
THEOREM TickTypesHold == Spec => []TickTypes
<1>1. TickTypes /\ [Next]_vars => TickTypes'
  BY TypesStep
<1>2. QED BY TypesInit, <1>1, PTL DEF Spec

-----------------------------------------------------------------------------
(* What is kept while a run judges, refreshes and saves.                    *)

Judging == run # None /\ run.at # "start"

\* Both outcomes of a refresh record what was read, and when to go on.
Judicious(r) ==
  /\ Told(r.done) /\ Retries(r.done) /\ Told(r.failed) /\ Retries(r.failed)
  /\ r.done.after # 0 /\ r.done.last = 0 /\ r.failed.after \notin {None, 0}
  /\ \A x \in r.seen : /\ r.done.versions[x[1]][x[2]] = "now"
                       /\ r.failed.versions[x[1]][x[2]] = "now"

\* Nothing is due when a run has ended.
Ended(r, s, left) ==
  /\ DueOf(s) > 0
  /\ r.older => UnsupportedOf(s, left) > 0
  /\ \A x \in r.seen : s.versions[x[1]][x[2]] = "now"

KeepInv ==
  /\ Told(state) /\ Retries(state)
  /\ Judging => IF run.at = "manifest" THEN Ended(run, state, cooldown) ELSE Judicious(run)

\* Nothing is recorded at first.
LEMMA KeepInit ==
  ASSUME Init
  PROVE  KeepInv
<1>1. /\ state = [versions |-> [c \in Conns |-> Unknown], retry |-> {}, after |-> None,
                  delay |-> 0, last |-> None, revoked |-> [c \in Conns |-> None],
                  cowork |-> FALSE]
      /\ run = None
  BY DEF Init
<1>2. \A c \in Conns : state.versions[c].models = "?"
  BY <1>1 DEF Unknown, Parts
<1>3. state.after = None /\ state.retry = {}
  BY <1>1
<1>4. QED BY <1>1, <1>2, <1>3 DEF KeepInv, Told, Retries, Judging

\* A version outdated tells no more than it did, and dates stay.
LEMMA ToldOutdated ==
  ASSUME NEW s \in States, NEW c \in Conns, NEW part \in Parts, combined \in BOOLEAN,
         NEW parts, parts = IF combined THEN {part, "models"} ELSE {part},
         part = "defaults" => c \in Governed, Told(s)
  PROVE  Told(Versioned(s, Outdated(s.versions, c, parts)))
<1> DEFINE v == Outdated(s.versions, c, parts)
<1>1. parts \in SUBSET Parts
  BY DEF Parts
<1>2. s.versions \in [Conns -> [Parts -> Seen]]
  BY StateFields
<1>3. /\ \A d \in Conns \ {c} : v[d] = s.versions[d]
      /\ \A p \in Parts : v[c][p] = IF p \in parts /\ s.versions[c][p] = "now" THEN "old"
                                    ELSE s.versions[c][p]
  BY ONLY <1>1, <1>2, c \in Conns, OutdatedVersions, Zenon
<1> HIDE DEF v
<1>4. ASSUME NEW d \in Conns, v[d].models = "now"
      PROVE  /\ d \notin Governed => v[d].defaults = "now"
             /\ combined => v[d].defaults # "old"
  <2>1. CASE d # c
    BY <1>3, <1>4, <2>1, Zenon DEF Told
  <2>2. CASE d = c
    <3>1. "models" \in Parts /\ "defaults" \in Parts
      BY DEF Parts
    <3>2. "models" \notin parts /\ s.versions[c].models = "now"
      BY <1>3, <1>4, <2>2, <3>1
    <3>3. part = "defaults" /\ ~combined /\ parts = {"defaults"}
      BY <3>2 DEF Parts
    <3>4. c \in Governed
      BY <3>3
    <3>5. QED BY <2>2, <3>3, <3>4
  <2>3. QED BY <2>1, <2>2
<1>5. Versioned(s, v).versions = v
  BY Zenon DEF Versioned
<1>6. QED BY <1>4, <1>5, Zenon DEF Told, v

\* Versions alone change no date and no retry.
LEMMA RetriesVersioned ==
  ASSUME NEW s, NEW v
  PROVE  /\ Retries(s) => Retries(Versioned(s, v))
         /\ Versioned(s, v).versions = v /\ Versioned(s, v).retry = s.retry
         /\ Versioned(s, v).after = s.after /\ Versioned(s, v).last = s.last
         /\ Versioned(s, v).cowork = s.cowork
         /\ DueOf(Versioned(s, v)) = DueOf(s)
         /\ \A c \in Conns : SkipOf(Versioned(s, v), c) = SkipOf(s, c)
         /\ \A left : UnsupportedOf(Versioned(s, v), left) = UnsupportedOf(s, left)
<1> DEFINE t == Versioned(s, v)
<1>1. /\ t.versions = v /\ t.retry = s.retry /\ t.after = s.after /\ t.last = s.last
      /\ t.revoked = s.revoked /\ t.cowork = s.cowork
  BY Zenon DEF Versioned
<1> HIDE DEF t
<1>2. Retries(s) => Retries(t)
  BY <1>1, Zenon DEF Retries, RecentlyRevoked
<1>3. \A c \in Conns : SkipOf(t, c) = SkipOf(s, c)
  BY <1>1, Zenon DEF SkipOf
<1>4. RefreshOf(t) = RefreshOf(s)
  BY <1>1, Zenon DEF RefreshOf
<1>5. Backs(t) = Backs(s)
  BY <1>3 DEF Backs
<1>6. DueOf(t) = DueOf(s)
  BY <1>4, <1>5, Zenon DEF DueOf
<1>7. \A left : UnsupportedOf(t, left) = UnsupportedOf(s, left)
  BY <1>1, Zenon DEF UnsupportedOf
<1>8. QED BY <1>1, <1>2, <1>3, <1>6, <1>7, Zenon DEF t

\* What was read and has not changed since stays recorded.
LEMMA SeenOutdated ==
  ASSUME NEW v \in [Conns -> [Parts -> Seen]], NEW c \in Conns, NEW parts \in SUBSET Parts,
         NEW seen \in SUBSET (Conns \X Parts),
         \A x \in seen : v[x[1]][x[2]] = "now"
  PROVE  \A x \in seen \ ({c} \X parts) : Outdated(v, c, parts)[x[1]][x[2]] = "now"
<1>1. SUFFICES ASSUME NEW x \in seen \ ({c} \X parts)
               PROVE  Outdated(v, c, parts)[x[1]][x[2]] = "now"
  OBVIOUS
<1>2. x[1] \in Conns /\ x[2] \in Parts /\ ~(x[1] = c /\ x[2] \in parts) /\ v[x[1]][x[2]] = "now"
  OBVIOUS
<1>3. /\ \A d \in Conns \ {c} : Outdated(v, c, parts)[d] = v[d]
      /\ \A part \in Parts : Outdated(v, c, parts)[c][part]
              = IF part \in parts /\ v[c][part] = "now" THEN "old" ELSE v[c][part]
  BY OutdatedVersions
<1>4. QED BY <1>2, <1>3

\* Every step keeps KeepInv.
LEMMA KeepStep ==
  ASSUME TickTypes, KeepInv, [Next]_vars
  PROVE  KeepInv'
<1>t. /\ state \in States /\ cooldown \in Nat /\ run \in {None} \cup Runs
      /\ combined \in BOOLEAN
  BY DEF TickTypes
<1>i. /\ Told(state) /\ Retries(state)
      /\ Judging => IF run.at = "manifest" THEN Ended(run, state, cooldown) ELSE Judicious(run)
  BY Zenon DEF KeepInv
<1>1. ASSUME NEW out \in Answers, NEW retried \in BOOLEAN, Check(out, retried) PROVE KeepInv'
  <2>1. PICK s \in States :
           /\ s = state \/ (s = Cowork(state, FALSE) /\ deskFresh')
           /\ state' = IF Due(s, out) THEN s ELSE Kept(s, out)
           /\ run' = Begun(s, out)
           /\ UNCHANGED <<cooldown, manifest, worldVars, fresh, unread>>
    BY <1>1, CheckStep, Zenon
  <2>2. Told(s) /\ Retries(s)
    <3>1. CASE s = state
      BY <1>i, <3>1
    <3>2. CASE s = Cowork(state, FALSE)
      <4>1. s.versions = state.versions /\ s.retry = state.retry /\ s.after = state.after
            /\ s.revoked = state.revoked
        BY <3>2, Zenon DEF Cowork
      <4>2. QED BY <4>1, <1>i, Zenon DEF Told, Retries, RecentlyRevoked
    <3>3. QED BY <2>1, <3>1, <3>2
  <2>3. UNCHANGED combined /\ UNCHANGED cooldown
    BY <2>1 DEF worldVars
  <2>4. /\ run'.at = IF Due(s, out) THEN "refresh" ELSE "manifest"
        /\ run'.seen = Read(s, out) /\ run'.older = (OlderOnes(s, out) # {})
        /\ run'.done = Done(s, out) /\ run'.failed = Failed(s, out)
    BY <2>1, Zenon DEF Begun
  <2>5. CASE Due(s, out)
    <3>1. state' = s /\ run'.at = "refresh"
      BY <2>1, <2>4, <2>5
    <3>2. Told(Done(s, out)) /\ Retries(Done(s, out))
      BY <1>t, <2>2, DoneKeeps
    <3>3. Told(Failed(s, out)) /\ Retries(Failed(s, out)) /\ Failed(s, out).after # None
      BY <1>t, <2>2, <2>5, FailedKeeps
    <3>4. /\ Done(s, out).after # 0 /\ Done(s, out).last = 0 /\ Done(s, out).versions = Recorded(s, out)
      BY <1>t, DoneState
    <3>5. Failed(s, out).after # 0 /\ Failed(s, out).versions = Recorded(s, out)
      BY <1>t, FailedState, BackoffTime
    <3>6. ASSUME NEW x \in Read(s, out) PROVE Recorded(s, out)[x[1]][x[2]] = "now"
      <4>1. /\ x[1] \in Heard(s, out) /\ x[2] \in {"models", "defaults"}
            /\ x[2] = "defaults" => out[x[1]] = "ok"
        BY <3>6 DEF Read
      <4>2. /\ Recorded(s, out)[x[1]].models = "now"
            /\ out[x[1]] = "ok" => Recorded(s, out)[x[1]].defaults = "now"
        BY <1>t, <4>1, RecordedVersions
      <4>3. QED BY <4>1, <4>2
    <3>7. Told(state)' /\ Retries(state)'
      BY <2>2, <2>3, <3>1, Zenon DEF Told, Retries, RecentlyRevoked
    <3>8. Told(run.done)' /\ Retries(run.done)' /\ Told(run.failed)' /\ Retries(run.failed)'
      BY <2>3, <2>4, <3>2, <3>3, Zenon DEF Told, Retries, RecentlyRevoked
    <3>9. Judicious(run)'
      BY <2>4, <3>3, <3>4, <3>5, <3>6, <3>8 DEF Judicious
    <3>10. QED BY <3>1, <3>7, <3>9, Zenon DEF KeepInv
  <2>6. CASE ~Due(s, out)
    <3>1. state' = Kept(s, out) /\ run'.at = "manifest"
      BY <2>1, <2>4, <2>6
    <3>2. Told(Kept(s, out)) /\ Retries(Kept(s, out))
      BY <1>t, <2>2, KeptKeeps
    <3>3. /\ DueOf(Kept(s, out)) > 0
          /\ OlderOnes(s, out) # {} => UnsupportedOf(Kept(s, out), cooldown) > 0
          /\ \A x \in Read(s, out) : s.versions[x[1]][x[2]] = "now"
      BY <1>t, <2>6, KeptDates
    <3>4. Kept(s, out).versions = s.versions
      BY KeptState
    <3>5. Told(state)' /\ Retries(state)'
      BY <2>3, <3>1, <3>2, Zenon DEF Told, Retries, RecentlyRevoked
    <3>6. Ended(run, state, cooldown)'
      BY <2>3, <2>4, <3>1, <3>3, <3>4, Zenon DEF Ended, DueOf, UnsupportedOf, RefreshOf, Backs, SkipOf
    <3>7. QED BY <3>1, <3>5, <3>6, Zenon DEF KeepInv
  <2>7. QED BY <2>5, <2>6
<1>2. ASSUME NEW good \in SUBSET Conns, NEW own, NEW passed \in BOOLEAN, Refresh(good, own, passed)
      PROVE  KeepInv'
  <2>1. PICK at \in {"done", "failed"}, cowork \in BOOLEAN :
           /\ run \in Judgements /\ run.at = "refresh"
           /\ run' = Refreshed(run, at, cowork)
           /\ UNCHANGED <<state, cooldown, manifest, attempts, worldVars, rejected, described>>
    BY <1>2, RefreshStep, ZenonT(40)
  <2>2. run # None
    BY <1>2 DEF Refresh, Running
  <2>3. Judicious(run)
    BY <1>i, <2>1, <2>2 DEF Judging
  <2>4. UNCHANGED combined
    BY <2>1 DEF worldVars
  <2>5. /\ run'.at = at /\ run'.seen = run.seen /\ run'.failed = run.failed
        /\ run'.done = Cowork(run.done, cowork)
    BY <2>1, Zenon DEF Refreshed
  <2>6. /\ run'.done.versions = run.done.versions /\ run'.done.retry = run.done.retry
        /\ run'.done.after = run.done.after /\ run'.done.last = run.done.last
        /\ run'.done.revoked = run.done.revoked
    <3>1. ASSUME NEW s, NEW t, t = Cowork(s, cowork)
          PROVE  /\ t.versions = s.versions /\ t.retry = s.retry /\ t.after = s.after
                 /\ t.last = s.last /\ t.revoked = s.revoked
      BY <3>1, Zenon DEF Cowork
    <3>2. QED BY <2>5, <3>1, Zenon
  <2>7. Told(run.done)' /\ Retries(run.done)' /\ Told(run.failed)' /\ Retries(run.failed)'
    BY <2>3, <2>4, <2>5, <2>6, ZenonT(40) DEF Judicious, Told, Retries, RecentlyRevoked
  <2>8. Judicious(run)'
    BY <2>3, <2>5, <2>6, <2>7, Zenon DEF Judicious
  <2>9. Told(state)' /\ Retries(state)'
    BY <1>i, <2>1, <2>4, Zenon DEF Told, Retries, RecentlyRevoked
  <2>10. run'.at # "manifest"
    BY <2>5
  <2>11. QED BY <2>8, <2>9, <2>10, Zenon DEF KeepInv
<1>3. CASE Save
  <2>1. /\ run \in Judgements /\ run.at \in {"done", "failed"}
        /\ state' = IF run.at = "done" THEN run.done ELSE run.failed
        /\ cooldown' = IF run.at = "done" THEN Cooldown ELSE cooldown
        /\ run' = [at |-> "manifest", seen |-> run.seen, older |-> run.older, skip |-> run.skip,
                    pinned |-> run.pinned, done |-> run.done, failed |-> run.failed]
        /\ UNCHANGED <<manifest, attempts, worldVars, fresh, unread, deskFresh, faults>>
    BY <1>3, SaveStep, Zenon
  <2>2. run # None
    BY <1>3 DEF Save, Running
  <2>3. Judicious(run)
    BY <1>i, <2>1, <2>2 DEF Judging
  <2>4. UNCHANGED combined
    BY <2>1 DEF worldVars
  <2>5. run'.at = "manifest" /\ run'.seen = run.seen /\ run'.older = run.older
    BY <2>1, Zenon
  <2>6. /\ Told(state') /\ Retries(state') /\ state' \in States
        /\ \A x \in run.seen : state'.versions[x[1]][x[2]] = "now"
    BY <2>1, <2>3, RunFields DEF Judicious
  <2>7. DueOf(state') > 0 /\ UnsupportedOf(state', cooldown') > 0
    <3>1. cooldown' \in Nat
      BY <1>t, <2>1
    <3>2. /\ RefreshOf(state') <= DueOf(state') /\ RefreshOf(state') \in Nat /\ DueOf(state') \in Nat
          /\ UnsupportedOf(state', cooldown') \in Nat
          /\ cooldown' <= UnsupportedOf(state', cooldown')
          /\ state'.after # None => state'.after <= UnsupportedOf(state', cooldown')
      BY <2>6, <3>1, Dates
    <3>3. state'.after \in Nat \cup {None}
      BY <2>6, StateFields
    <3>4. CASE run.at = "done"
      <4>1. state'.after # 0 /\ state'.last = 0 /\ cooldown' = Cooldown
        BY <2>1, <2>3, <3>4 DEF Judicious
      <4>2. RefreshOf(state') > 0
        BY <3>3, <4>1 DEF RefreshOf
      <4>3. QED BY <3>2, <4>1, <4>2
    <3>5. CASE run.at = "failed"
      <4>1. state'.after \notin {None, 0}
        BY <2>1, <2>3, <3>5 DEF Judicious
      <4>2. RefreshOf(state') > 0
        BY <3>3, <4>1 DEF RefreshOf
      <4>3. QED BY <3>2, <3>3, <4>1, <4>2
    <3>6. QED BY <2>1, <3>4, <3>5
  <2>8. Told(state)' /\ Retries(state)'
    BY <2>4, <2>6, Zenon DEF Told, Retries, RecentlyRevoked
  <2>9. Ended(run, state, cooldown)'
    BY <2>5, <2>6, <2>7, Zenon DEF Ended, DueOf, UnsupportedOf, RefreshOf, Backs, SkipOf
  <2>10. QED BY <2>5, <2>8, <2>9, Zenon DEF KeepInv
<1>4. CASE WriteManifest
  <2>1. /\ run' = None
        /\ UNCHANGED <<state, cooldown, attempts, worldVars, fresh, unread, deskFresh, rejected, faults>>
    BY <1>4, WriteStep, Zenon
  <2>2. Told(state)' /\ Retries(state)'
    BY <1>i, <2>1, Zenon DEF Told, Retries, RecentlyRevoked, worldVars
  <2>3. QED BY <2>1, <2>2, Zenon DEF KeepInv, Judging
<1>5. CASE Quiet
  <2>1. /\ UNCHANGED <<state, cooldown, agent, combined, fresh, unread, deskFresh, rejected, described>>
        /\ run' = run \/ run' = None \/ run' = [at |-> "start"]
    BY <1>5, QuietStep, Zenon
  <2>2. Told(state)' /\ Retries(state)'
    BY <1>i, <2>1, Zenon DEF Told, Retries, RecentlyRevoked
  <2>3. CASE run' = run
    <3>1. UNCHANGED <<state, cooldown, combined, run>>
      BY <2>1, <2>3
    <3>2. QED BY <3>1, Zenon DEF KeepInv, Judging, Judicious, Ended, Told, Retries, RecentlyRevoked,
                                DueOf, UnsupportedOf, RefreshOf, Backs, SkipOf
  <2>4. CASE run' = None \/ run' = [at |-> "start"]
    <3>1. ~Judging'
      BY <2>4 DEF Judging
    <3>2. QED BY <2>2, <3>1, Zenon DEF KeepInv
  <2>5. QED BY <2>1, <2>3, <2>4, Zenon
<1>6. ASSUME NEW c \in Conns, NEW part \in Parts, Change(c, part) PROVE KeepInv'
  <2> DEFINE parts == IF combined THEN {part, "models"} ELSE {part}
  <2>1. /\ part = "defaults" => c \in Governed
        /\ parts \in SUBSET Parts
        /\ state' = Versioned(state, Outdated(state.versions, c, parts))
        /\ run = None \/ run.at = "start" => run' = run
        /\ run # None /\ run.at # "start" =>
              /\ run \in Judgements
              /\ run' = Overtaken(run, run.seen \ ({c} \X parts),
                                  Outdated(run.done.versions, c, parts),
                                  Outdated(run.failed.versions, c, parts))
        /\ UNCHANGED <<cooldown, worldVars, rejected, described, unread>>
    BY <1>6, ChangeStep, Zenon
  <2>2. UNCHANGED combined /\ UNCHANGED cooldown
    BY <2>1 DEF worldVars
  <2>3. ASSUME NEW s \in States, Told(s)
        PROVE  Told(Versioned(s, Outdated(s.versions, c, parts)))
    BY <1>t, <2>1, <2>3, ToldOutdated
  <2>4. ASSUME NEW s \in States, NEW seen \in SUBSET (Conns \X Parts),
               \A x \in seen : s.versions[x[1]][x[2]] = "now"
        PROVE  \A x \in seen \ ({c} \X parts) : Outdated(s.versions, c, parts)[x[1]][x[2]] = "now"
    <3>1. s.versions \in [Conns -> [Parts -> Seen]]
      BY StateFields
    <3>2. parts \in SUBSET Parts
      BY <2>1
    <3>3. \A x \in seen : s.versions[x[1]][x[2]] = "now"
      BY <2>4
    <3> HIDE DEF parts
    <3>4. QED BY ONLY <3>1, <3>2, <3>3, c \in Conns, seen \in SUBSET (Conns \X Parts), SeenOutdated
  <2> HIDE DEF parts
  <2>5. Told(state') /\ Retries(state')
    BY <1>t, <1>i, <2>1, <2>3, RetriesVersioned, Zenon
  <2>6. Told(state)' /\ Retries(state)'
    BY <2>2, <2>5, Zenon DEF Told, Retries, RecentlyRevoked
  <2>7. CASE ~Judging
    <3>1. run' = run
      BY <2>1, <2>7, Zenon DEF Judging
    <3>2. ~Judging'
      BY <2>7, <3>1, Zenon DEF Judging
    <3>3. QED BY <2>6, <3>2, Zenon DEF KeepInv
  <2>8. CASE Judging
    <3>1. /\ run \in Judgements
          /\ run' = Overtaken(run, run.seen \ ({c} \X parts),
                              Outdated(run.done.versions, c, parts),
                              Outdated(run.failed.versions, c, parts))
      BY <2>1, <2>8, Zenon DEF Judging
    <3>2. /\ run'.at = run.at /\ run'.seen = run.seen \ ({c} \X parts) /\ run'.older = run.older
          /\ run'.done = Versioned(run.done, Outdated(run.done.versions, c, parts))
          /\ run'.failed = Versioned(run.failed, Outdated(run.failed.versions, c, parts))
      BY <3>1, Zenon DEF Overtaken
    <3>3. run.done \in States /\ run.failed \in States /\ run.seen \in SUBSET (Conns \X Parts)
      BY <3>1, RunFields
    <3>4. CASE run.at = "manifest"
      <4>1. Ended(run, state, cooldown)
        BY <1>i, <2>8, <3>4, Zenon
      <4>2. /\ DueOf(state') = DueOf(state)
            /\ UnsupportedOf(state', cooldown) = UnsupportedOf(state, cooldown)
            /\ state'.versions = Outdated(state.versions, c, parts)
        BY <2>1, RetriesVersioned, ZenonT(40)
      <4>3. \A x \in run'.seen : state'.versions[x[1]][x[2]] = "now"
        <5>1. \A x \in run.seen : state.versions[x[1]][x[2]] = "now"
          BY <4>1, Zenon DEF Ended
        <5>2. \A x \in run.seen \ ({c} \X parts) :
                 Outdated(state.versions, c, parts)[x[1]][x[2]] = "now"
          BY <1>t, <2>4, <3>3, <5>1, Zenon
        <5>3. QED BY <3>2, <4>2, <5>2, Zenon
      <4>4. Ended(run', state', cooldown')
        BY <2>2, <3>2, <4>1, <4>2, <4>3 DEF Ended
      <4>5. Ended(run, state, cooldown)'
        BY <4>4, Zenon DEF Ended, DueOf, UnsupportedOf, RefreshOf, Backs, SkipOf
      <4>6. QED BY <2>6, <3>2, <3>4, <4>5, Zenon DEF KeepInv
    <3>5. CASE run.at # "manifest"
      <4>1. Judicious(run)
        BY <1>i, <2>8, <3>5, Zenon
      <4>2. Told(run'.done) /\ Retries(run'.done) /\ Told(run'.failed) /\ Retries(run'.failed)
        <5>1. Told(run.done) /\ Retries(run.done) /\ Told(run.failed) /\ Retries(run.failed)
          BY <4>1, Zenon DEF Judicious
        <5>2. Told(run'.done) /\ Told(run'.failed)
          BY <2>3, <3>2, <3>3, <5>1, Zenon
        <5>3. \A s, v : Retries(s) => Retries(Versioned(s, v))
          BY RetriesVersioned, Zenon
        <5>4. Retries(run'.done)
          <6>1. Retries(Versioned(run.done, Outdated(run.done.versions, c, parts)))
            BY <5>1, <5>3, Zenon
          <6>2. QED BY <3>2, <6>1, Zenon
        <5>5. Retries(run'.failed)
          <6>1. Retries(Versioned(run.failed, Outdated(run.failed.versions, c, parts)))
            BY <5>1, <5>3, Zenon
          <6>2. QED BY <3>2, <6>1, Zenon
        <5>6. QED BY <5>2, <5>4, <5>5, Zenon
      <4>3. /\ run'.done.after = run.done.after /\ run'.done.last = run.done.last
            /\ run'.failed.after = run.failed.after
            /\ run'.done.versions = Outdated(run.done.versions, c, parts)
            /\ run'.failed.versions = Outdated(run.failed.versions, c, parts)
        <5>1. \A s, v : /\ Versioned(s, v).versions = v /\ Versioned(s, v).after = s.after
                        /\ Versioned(s, v).last = s.last
          BY Zenon DEF Versioned
        <5>2. run'.done.after = run.done.after /\ run'.done.last = run.done.last
          BY <3>2, <5>1
        <5>3. run'.failed.after = run.failed.after
          BY <3>2, <5>1
        <5>4. run'.done.versions = Outdated(run.done.versions, c, parts)
          BY <3>2, <5>1
        <5>5. run'.failed.versions = Outdated(run.failed.versions, c, parts)
          BY <3>2, <5>1
        <5>6. QED BY <5>2, <5>3, <5>4, <5>5, Zenon
      <4>4. \A x \in run'.seen : /\ run'.done.versions[x[1]][x[2]] = "now"
                                 /\ run'.failed.versions[x[1]][x[2]] = "now"
        <5>1. \A x \in run.seen : run.done.versions[x[1]][x[2]] = "now"
          BY <4>1, Zenon DEF Judicious
        <5>2. \A x \in run.seen : run.failed.versions[x[1]][x[2]] = "now"
          BY <4>1, Zenon DEF Judicious
        <5>3. \A x \in run'.seen : Outdated(run.done.versions, c, parts)[x[1]][x[2]] = "now"
          <6>1. \A x \in run.seen \ ({c} \X parts) :
                  Outdated(run.done.versions, c, parts)[x[1]][x[2]] = "now"
            BY <2>4, <3>3, <5>1, Zenon
          <6>2. QED BY <3>2, <6>1, Zenon
        <5>4. \A x \in run'.seen : Outdated(run.failed.versions, c, parts)[x[1]][x[2]] = "now"
          <6>1. \A x \in run.seen \ ({c} \X parts) :
                  Outdated(run.failed.versions, c, parts)[x[1]][x[2]] = "now"
            BY <2>4, <3>3, <5>2, Zenon
          <6>2. QED BY <3>2, <6>1, Zenon
        <5>5. QED BY <4>3, <5>3, <5>4, Zenon
      <4>5. Told(run.done)' /\ Retries(run.done)' /\ Told(run.failed)' /\ Retries(run.failed)'
        BY <2>2, <4>2, Zenon DEF Told, Retries, RecentlyRevoked
      <4>6. Judicious(run)'
        BY <4>1, <4>3, <4>4, <4>5, Zenon DEF Judicious
      <4>7. QED BY <2>6, <3>2, <3>5, <4>6, Zenon DEF KeepInv
    <3>6. QED BY <3>4, <3>5
  <2>9. QED BY <2>7, <2>8
<1>7. CASE Tick
  <2>1. run' = None /\ state' = Hence(state) /\ UNCHANGED worldVars
    BY <1>7, TickStep, Zenon
  <2>2. /\ Hence(state).versions = state.versions /\ Hence(state).retry = state.retry
        /\ Hence(state).after = None <=> state.after = None
        /\ \A c \in Conns : RecentlyRevoked(Hence(state), c) => RecentlyRevoked(state, c)
    BY <1>t, HenceState
  <2>3. state.retry \in SUBSET Conns
    BY <1>t, StateFields
  <2>4. Told(Hence(state)) /\ Retries(Hence(state))
    BY <1>i, <2>2, <2>3 DEF Told, Retries
  <2>5. Told(state)' /\ Retries(state)'
    BY <2>1, <2>4, Zenon DEF Told, Retries, RecentlyRevoked, worldVars
  <2>6. QED BY <2>1, <2>5, Zenon DEF KeepInv, Judging
<1>8. QED BY <1>1, <1>2, <1>3, <1>4, <1>5, <1>6, <1>7, StepsAre, Zenon

\* What a state tells is right, and a run leaves nothing due (_scheduled_tick).
THEOREM KeepHolds == Spec => []KeepInv
<1>1. TickTypes /\ KeepInv /\ [Next]_vars => KeepInv'
  BY KeepStep
<1>2. QED BY TickTypesHold, KeepInit, <1>1, PTL DEF Spec

\* A run settles what started it: the manifest it leaves gives Scheduler::decide no
\* reason, for what _sync_check has just seen, to start the next one.
THEOREM RunsSettleHolds ==
  ASSUME None \notin Runs
  PROVE  Spec => RunsSettle
<1>1. ASSUME TickTypes, KeepInv, [Next]_vars, run # None, run' = None, manifest' # manifest
      PROVE  /\ manifest'.due > 0
             /\ run.older => manifest'.unsupported > 0
             /\ \A x \in run.seen : manifest'.expected[x[1]][x[2]] = "now"
  <2>1. ASSUME NEW out \in Answers, NEW retried \in BOOLEAN, Check(out, retried) PROVE FALSE
    BY <1>1, <2>1, Zenon DEF Check
  <2>2. ASSUME NEW good \in SUBSET Conns, NEW own, NEW passed \in BOOLEAN,
               Refresh(good, own, passed)
        PROVE  FALSE
    BY <1>1, <2>2, Zenon DEF Refresh
  <2>3. ~Save
    BY <1>1, Zenon DEF Save
  <2>4. ~Quiet
    BY <1>1, QuietStep, Zenon
  <2>5. ~Tick
    BY <1>1, TickStep, Zenon
  <2>6. ASSUME NEW c \in Conns, NEW part \in Parts, Change(c, part) PROVE FALSE
    <3>1. TickTypes'
      BY <1>1, TypesStep
    <3>2. run.at = "start" => run' = run
      BY <1>1, <2>6, ChangeStep, Zenon
    <3>3. run.at # "start"
      BY <1>1, <3>2
    <3> DEFINE parts == IF combined THEN {part, "models"} ELSE {part}
    <3>4. /\ parts \in SUBSET Parts /\ run \in Judgements
          /\ run' = Overtaken(run, run.seen \ ({c} \X parts),
                              Outdated(run.done.versions, c, parts),
                              Outdated(run.failed.versions, c, parts))
      BY <1>1, <2>6, <3>3, ChangeStep, Zenon
    <3> HIDE DEF parts
    <3>5. run' \in Judgements
      <4>1. ASSUME NEW s \in States PROVE Versioned(s, Outdated(s.versions, c, parts)) \in States
        <5>1. s.versions \in [Conns -> [Parts -> Seen]]
          BY StateFields
        <5>2. Outdated(s.versions, c, parts) \in [Conns -> [Parts -> Seen]]
          BY <3>4, <5>1, OutdatedVersions
        <5>3. QED BY <5>2, CoworkAs
      <4>2. run.seen \ ({c} \X parts) \in SUBSET (Conns \X Parts)
        BY <3>4, RunFields
      <4>3. QED BY <3>4, <4>1, <4>2, RunFields, Zenon DEF Overtaken, Judgements
    <3>6. QED BY <1>1, <3>5 DEF Runs
  <2>7. WriteManifest
    BY <1>1, <2>1, <2>2, <2>3, <2>4, <2>5, <2>6, StepsAre, Zenon
  <2>8. /\ run.at = "manifest"
        /\ manifest' = [expected |-> state.versions, due |-> DueAt,
                        unsupported |-> UnsupportedDue,
                        skip |-> [c \in Conns |-> SkipFor(c)],
                        wait |-> IF state.cowork /\ desktop THEN "open" ELSE "none"]
    BY <1>1, <2>7, WriteStep, Zenon
  <2>9. Ended(run, state, cooldown)
    BY <1>1, <2>8 DEF KeepInv, Judging
  <2>10. DueAt = DueOf(state) /\ UnsupportedDue = UnsupportedOf(state, cooldown)
    BY DatesOf
  <2>11. /\ manifest'.due = DueAt /\ manifest'.unsupported = UnsupportedDue
         /\ manifest'.expected = state.versions
    BY <2>8, Zenon
  <2>12. QED BY <2>9, <2>10, <2>11 DEF Ended
<1>2. TickTypes /\ KeepInv /\ [Next]_vars =>
        [run # None /\ run' = None /\ manifest' # manifest =>
           /\ manifest'.due > 0
           /\ run.older => manifest'.unsupported > 0
           /\ \A x \in run.seen : manifest'.expected[x[1]][x[2]] = "now"]_vars
  BY <1>1
<1>3. QED BY TickTypesHold, KeepHolds, <1>2, PTL DEF Spec, RunsSettle

-----------------------------------------------------------------------------
(* The manifest describes the state it was written for, as time passes.     *)

Describes(m, s, left) ==
  /\ m.expected = s.versions
  /\ m.due = DueOf(s)
  /\ m.unsupported = UnsupportedOf(s, left)
  /\ \A c \in Conns : m.skip[c] = SkipOf(s, c)

ManifestInv == described /\ manifest # None => Describes(manifest, state, cooldown)

\* Every step keeps the manifest in line with the state it describes.
LEMMA ManifestStep ==
  ASSUME TickTypes, ManifestInv, [Next]_vars
  PROVE  ManifestInv'
<1>t. /\ state \in States /\ cooldown \in Nat /\ manifest \in {None} \cup Manifests
  BY DEF TickTypes
<1>d. Describes(manifest', state', cooldown') => Describes(manifest, state, cooldown)'
  BY Zenon DEF Describes, DueOf, UnsupportedOf, RefreshOf, Backs, SkipOf
<1>u. UNCHANGED <<state, cooldown, manifest>> /\ (described' => described) => ManifestInv'
  BY <1>d, Zenon DEF ManifestInv
<1>f. ASSUME NEW m, NEW e, NEW d, NEW u, NEW k, NEW w,
             m = [expected |-> e, due |-> d, unsupported |-> u, skip |-> k, wait |-> w]
      PROVE  m.expected = e /\ m.due = d /\ m.unsupported = u /\ m.skip = k
  BY <1>f, Zenon
<1>1. ASSUME NEW out \in Answers, NEW retried \in BOOLEAN, Check(out, retried) PROVE ManifestInv'
  <2>1. /\ described' = (described /\ state' = state)
        /\ UNCHANGED <<cooldown, manifest, worldVars, fresh, unread>>
    BY <1>1, CheckStep, Zenon
  <2>2. described' => described /\ UNCHANGED <<state, cooldown, manifest>>
    BY <2>1, Zenon
  <2>3. QED BY <1>u, <2>2, Zenon DEF ManifestInv
<1>2. ASSUME NEW good \in SUBSET Conns, NEW own, NEW passed \in BOOLEAN, Refresh(good, own, passed)
      PROVE  ManifestInv'
  <2>1. UNCHANGED <<state, cooldown, manifest, attempts, worldVars, rejected, described>>
    BY <1>2, RefreshStep, ZenonT(40)
  <2>2. QED BY <1>u, <2>1, Zenon
<1>3. CASE Save
  BY <1>3, SaveStep, Zenon DEF ManifestInv
<1>4. CASE WriteManifest
  <2>1. /\ agent => manifest' = [expected |-> state.versions, due |-> DueAt,
                                 unsupported |-> UnsupportedDue,
                                 skip |-> [c \in Conns |-> SkipFor(c)],
                                 wait |-> IF state.cowork /\ desktop THEN "open" ELSE "none"]
        /\ described' = agent
        /\ UNCHANGED <<state, cooldown, attempts, worldVars, fresh, unread, deskFresh, rejected, faults>>
    BY <1>4, WriteStep, Zenon
  <2>2. /\ DueAt = DueOf(state) /\ UnsupportedDue = UnsupportedOf(state, cooldown)
        /\ \A c \in Conns : SkipFor(c) = SkipOf(state, c)
    BY DatesOf, Zenon
  <2>3. ASSUME agent PROVE Describes(manifest', state', cooldown')
    <3>1. /\ manifest'.expected = state.versions /\ manifest'.due = DueAt
          /\ manifest'.unsupported = UnsupportedDue
          /\ \A c \in Conns : manifest'.skip[c] = SkipFor(c)
      <4> DEFINE back == [c \in Conns |-> SkipFor(c)]
                 due == DueAt
                 unsupported == UnsupportedDue
                 wait == IF state.cowork /\ desktop THEN "open" ELSE "none"
      <4>1. manifest' = [expected |-> state.versions, due |-> due, unsupported |-> unsupported,
                         skip |-> back, wait |-> wait]
        BY <2>1, <2>3, Zenon
      <4>2. \A c \in Conns : back[c] = SkipFor(c)
        OBVIOUS
      <4> HIDE DEF back, wait, due, unsupported
      <4>3. /\ manifest'.expected = state.versions /\ manifest'.due = due
            /\ manifest'.unsupported = unsupported /\ manifest'.skip = back
        BY <1>f, <4>1, Zenon
      <4>4. due = DueAt /\ unsupported = UnsupportedDue
        BY Zenon DEF due, unsupported
      <4>5. QED BY <4>2, <4>3, <4>4, Zenon
    <3>2. state' = state /\ cooldown' = cooldown
      BY <2>1
    <3>3. QED BY <2>2, <3>1, <3>2, Zenon DEF Describes
  <2>4. QED BY <1>d, <2>1, <2>3, Zenon DEF ManifestInv
<1>5. CASE Quiet
  <2>1. /\ UNCHANGED <<state, cooldown, described>>
        /\ \/ manifest' = manifest \/ manifest' = None
           \/ /\ manifest # None
              /\ manifest' = [expected |-> manifest.expected, due |-> manifest.due,
                              unsupported |-> manifest.unsupported, skip |-> manifest.skip,
                              wait |-> "closed"]
    BY <1>5, QuietStep, Zenon
  <2>2. CASE manifest' = manifest
    BY <1>u, <2>1, <2>2, Zenon
  <2>3. CASE manifest' = None
    BY <2>3, Zenon DEF ManifestInv
  <2>4. CASE /\ manifest # None
             /\ manifest' = [expected |-> manifest.expected, due |-> manifest.due,
                              unsupported |-> manifest.unsupported, skip |-> manifest.skip,
                              wait |-> "closed"]
    <3>1. /\ manifest'.expected = manifest.expected /\ manifest'.due = manifest.due
          /\ manifest'.unsupported = manifest.unsupported /\ manifest'.skip = manifest.skip
      BY <1>f, <2>4, Zenon
    <3>2. Describes(manifest, state, cooldown) => Describes(manifest', state', cooldown')
      <4>1. state' = state /\ cooldown' = cooldown
        BY <2>1
      <4>2. QED BY <3>1, <4>1, Zenon DEF Describes
    <3>3. QED BY <1>d, <2>1, <2>4, <3>2, Zenon DEF ManifestInv
  <2>5. QED BY <2>1, <2>2, <2>3, <2>4, Zenon
<1>6. ASSUME NEW c \in Conns, NEW part \in Parts, Change(c, part) PROVE ManifestInv'
  <2> DEFINE parts == IF combined THEN {part, "models"} ELSE {part}
  <2>1. /\ state' = Versioned(state, Outdated(state.versions, c, parts))
        /\ manifest # None =>
             manifest' = [expected |-> Outdated(manifest.expected, c, parts), due |-> manifest.due,
                          unsupported |-> manifest.unsupported, skip |-> manifest.skip,
                          wait |-> manifest.wait]
        /\ manifest = None => manifest' = None
        /\ UNCHANGED <<cooldown, worldVars, rejected, described, unread>>
    BY <1>6, ChangeStep, Zenon
  <2> HIDE DEF parts
  <2>2. SUFFICES ASSUME described, manifest # None PROVE Describes(manifest', state', cooldown')
    BY <1>d, <2>1, Zenon DEF ManifestInv
  <2>3. Describes(manifest, state, cooldown)
    BY <2>2, Zenon DEF ManifestInv
  <2>4. /\ manifest'.expected = Outdated(manifest.expected, c, parts)
        /\ manifest'.due = manifest.due /\ manifest'.unsupported = manifest.unsupported
        /\ manifest'.skip = manifest.skip
    <3> DEFINE after == Outdated(manifest.expected, c, parts)
    <3>1. manifest' = [expected |-> after, due |-> manifest.due,
                       unsupported |-> manifest.unsupported, skip |-> manifest.skip,
                       wait |-> manifest.wait]
      BY <2>1, <2>2, Zenon
    <3>2. after = Outdated(manifest.expected, c, parts)
      OBVIOUS
    <3> HIDE DEF after
    <3>3. QED BY <1>f, <3>1, <3>2, Zenon
  <2>5. \A s, v : /\ Versioned(s, v).versions = v /\ DueOf(Versioned(s, v)) = DueOf(s)
                  /\ \A d \in Conns : SkipOf(Versioned(s, v), d) = SkipOf(s, d)
                  /\ \A left : UnsupportedOf(Versioned(s, v), left) = UnsupportedOf(s, left)
    BY RetriesVersioned, Zenon
  <2>6. /\ state'.versions = Outdated(state.versions, c, parts)
        /\ DueOf(state') = DueOf(state) /\ \A d \in Conns : SkipOf(state', d) = SkipOf(state, d)
        /\ UnsupportedOf(state', cooldown) = UnsupportedOf(state, cooldown)
    BY <2>1, <2>5, Zenon
  <2>7. cooldown' = cooldown
    BY <2>1
  <2>8. QED BY <2>3, <2>4, <2>6, <2>7, Zenon DEF Describes
<1>7. CASE Tick
  <2>1. /\ state' = Hence(state) /\ cooldown' = Less(cooldown)
        /\ manifest = None => manifest' = None
        /\ manifest # None =>
              manifest' = [expected |-> manifest.expected, due |-> Less(manifest.due),
                           unsupported |-> Less(manifest.unsupported),
                           skip |-> [c \in Conns |-> Less(manifest.skip[c])],
                           wait |-> manifest.wait]
        /\ UNCHANGED <<worldVars, fresh, unread, deskFresh, rejected, described, faults>>
    BY <1>7, TickStep, Zenon
  <2>2. SUFFICES ASSUME described, manifest # None PROVE Describes(manifest', state', cooldown')
    BY <1>d, <2>1, Zenon DEF ManifestInv
  <2>3. Describes(manifest, state, cooldown)
    BY <2>2, Zenon DEF ManifestInv
  <2>4. /\ manifest'.expected = manifest.expected /\ manifest'.due = Less(manifest.due)
        /\ manifest'.unsupported = Less(manifest.unsupported)
        /\ \A c \in Conns : manifest'.skip[c] = Less(manifest.skip[c])
    <3> DEFINE back == [c \in Conns |-> Less(manifest.skip[c])]
    <3>1. manifest' = [expected |-> manifest.expected, due |-> Less(manifest.due),
                       unsupported |-> Less(manifest.unsupported), skip |-> back,
                       wait |-> manifest.wait]
      BY <2>1, <2>2, Zenon
    <3>2. \A c \in Conns : back[c] = Less(manifest.skip[c])
      OBVIOUS
    <3> HIDE DEF back
    <3>3. /\ manifest'.expected = manifest.expected /\ manifest'.due = Less(manifest.due)
          /\ manifest'.unsupported = Less(manifest.unsupported) /\ manifest'.skip = back
      BY <1>f, <3>1, Zenon
    <3>4. QED BY <3>2, <3>3, Zenon
  <2>5. /\ Hence(state).versions = state.versions
        /\ \A c \in Conns : SkipOf(Hence(state), c) = Less(SkipOf(state, c))
        /\ DueOf(Hence(state)) = Less(DueOf(state))
        /\ UnsupportedOf(Hence(state), Less(cooldown)) = Less(UnsupportedOf(state, cooldown))
    BY <1>t, HenceState
  <2>6. QED BY <2>1, <2>3, <2>4, <2>5, Zenon DEF Describes
<1>8. QED BY <1>1, <1>2, <1>3, <1>4, <1>5, <1>6, <1>7, StepsAre, Zenon

\* The manifest describes the state it was written for, however much time has passed
\* (_write_agent_manifest, which the agent's Scheduler::decide reads).
THEOREM ManifestHolds == Spec => []ManifestInv
<1>1. Init => ManifestInv
  BY DEF Init, ManifestInv
<1>2. TickTypes /\ ManifestInv /\ [Next]_vars => ManifestInv'
  BY ManifestStep
<1>3. QED BY TickTypesHold, <1>1, <1>2, PTL DEF Spec

\* Where the agent has no reason to start a run, a run finds nothing due.
LEMMA AgentReasons ==
  ASSUME TickTypes, KeepInv, manifest # None, Describes(manifest, state, cooldown),
         NEW out \in Answers, \A c \in Conns : out[c] # "partial",
         Due(state, out), ~DueAnyway, ~Troubled(out)
  PROVE  Changes(out) # {}
<1>t. /\ state \in States /\ cooldown \in Nat /\ combined \in BOOLEAN
  BY DEF TickTypes
<1>o. /\ out \in [Conns -> Outcomes] /\ \A c \in Conns : out[c] = "partial" => c \in Governed
  BY <1>t, AnswersAre
<1>m. /\ manifest.expected = state.versions /\ manifest.due = DueOf(state)
      /\ manifest.unsupported = UnsupportedOf(state, cooldown)
      /\ \A c \in Conns : manifest.skip[c] = SkipOf(state, c)
  BY Zenon DEF Describes
<1>k. Told(state) /\ Retries(state)
  BY Zenon DEF KeepInv
<1>s. /\ state.after \in Nat \cup {None} /\ state.retry \in SUBSET Conns
      /\ state.versions \in [Conns -> [Parts -> Seen]] /\ state.last \in Ages
  BY <1>t, StateFields
<1>1. Asked = Conns \ Recent(state)
  <2>1. \A c \in Conns : SkipOf(state, c) # 0 <=> RecentlyRevoked(state, c)
    BY <1>t, Dates
  <2>2. QED BY <1>m, <2>1 DEF Asked, Recent
<1>2. \A c \in Asked : out[c] # "revoked" /\ (out[c] = "unsupported" => manifest.unsupported # 0)
  BY Zenon DEF Troubled
<1>3. Revoked(state, out) = Recent(state)
  BY <1>1, <1>2 DEF Revoked, Among
<1>4. /\ Conns = Revoked(state, out) \cup Away(state, out) \cup Reached(state, out)
      /\ Revoked(state, out) \cap (Away(state, out) \cup Reached(state, out)) = {}
      /\ Heard(state, out) \subseteq Reached(state, out)
      /\ OlderOnes(state, out) \subseteq Reached(state, out)
  BY <1>o, Sorted
<1>5. BaseAfter(state, out) = state.after
  <2>1. state.retry \subseteq Away(state, out) \cup Reached(state, out)
    BY <1>3, <1>4, <1>k, <1>s DEF Retries, Recent
  <2>2. Owed(state, out) = state.retry
    BY <2>1 DEF Owed
  <2>3. QED BY <2>2, <1>k DEF BaseAfter, Retries
<1>6. DueOf(state) = RefreshOf(state) /\ DueOf(state) # 0
  <2>1. PICK c \in Conns : c \in Reached(state, out)
    BY <1>4 DEF Due
  <2>2. c \notin Recent(state)
    BY <2>1, <1>3, <1>4
  <2>3. SkipOf(state, c) = 0
    BY <1>1, <1>m, <2>1, <2>2 DEF Asked
  <2>4. DueOf(state) = RefreshOf(state)
    BY <1>t, <2>3, Dates
  <2>5. manifest.due # 0
    BY DEF DueAnyway
  <2>6. QED BY <1>m, <2>4, <2>5
<1>7. state.after # 0
  BY <1>6, <1>s, ConnsAssumption DEF RefreshOf
<1>8. CASE \E c \in Heard(state, out) : Version(state, c, out[c]) # state.versions[c]
  <2>1. PICK c \in Heard(state, out) : Version(state, c, out[c]) # state.versions[c]
    BY <1>8
  <2>2. c \in Conns /\ c \in Asked /\ out[c] = "ok"
    BY <1>1 DEF Heard, Among
  <2>3. Version(state, c, out[c]) = [models |-> "now", defaults |-> "now"]
    BY <2>2, Zenon DEF Version
  <2>4. state.versions[c].models # "now" \/ state.versions[c].defaults # "now"
    <3>1. SUFFICES ASSUME state.versions[c].models = "now", state.versions[c].defaults = "now"
                   PROVE  FALSE
      OBVIOUS
    <3>2. state.versions[c] \in [Parts -> Seen]
      BY <1>s, <2>2
    <3>3. state.versions[c] = [models |-> "now", defaults |-> "now"]
      BY <3>1, <3>2 DEF Parts
    <3>4. QED BY <2>1, <2>3, <3>3
  <2>5. CASE state.versions[c].models # "now"
    <3>1. "models" \in Given(c, out[c])
      BY <2>2 DEF Given, Parts
    <3>2. <<c, "models">> \in Answered(out)
      BY <2>2, <3>1 DEF Answered
    <3>3. manifest.expected[c]["models"] # "now"
      BY <2>5, <1>m
    <3>4. QED BY <3>2, <3>3 DEF Changes
  <2>6. CASE state.versions[c].models = "now" /\ state.versions[c].defaults # "now"
    <3>1. c \in Governed /\ (combined => state.versions[c].defaults = "?")
      <4>1. state.versions[c].defaults \in Seen
        BY <1>s, <2>2 DEF Parts
      <4>2. /\ c \notin Governed => state.versions[c].defaults = "now"
            /\ combined => state.versions[c].defaults # "old"
        BY <1>k, <2>2, <2>6, Zenon DEF Told
      <4>3. QED BY <2>6, <4>1, <4>2 DEF Seen
    <3>2. "defaults" \in Given(c, out[c])
      BY <1>m, <2>2, <3>1 DEF Given, Parts
    <3>3. <<c, "defaults">> \in Answered(out)
      BY <2>2, <3>2 DEF Answered
    <3>4. manifest.expected[c]["defaults"] # "now"
      BY <2>6, <1>m
    <3>5. QED BY <3>3, <3>4 DEF Changes
  <2>7. QED BY <2>4, <2>5, <2>6
<1>9. CASE ~\E c \in Heard(state, out) : Version(state, c, out[c]) # state.versions[c]
  <2>1. Base(state, out).after = BaseAfter(state, out)
    BY <1>t, BaseState
  <2>2. ~Backing(state, out) /\ (FullDue(state) \/ (OlderOnes(state, out) # {} /\ cooldown = 0))
    BY <1>9, <1>5, <1>7, <2>1, Zenon DEF Due
  <2>3. state.after = None
    BY <2>2, <1>5, <1>7, Zenon DEF Backing
  <2>4. ~FullDue(state)
    BY <2>3, <1>6 DEF RefreshOf, FullDue
  <2>5. OlderOnes(state, out) # {} /\ cooldown = 0
    BY <2>2, <2>4
  <2>6. PICK c \in OlderOnes(state, out) : TRUE
    BY <2>5
  <2>7. c \in Asked /\ out[c] = "unsupported"
    BY <1>1 DEF OlderOnes, Among
  <2>8. manifest.unsupported = 0
    BY <1>m, <2>3, <2>5 DEF UnsupportedOf
  <2>9. QED BY <1>2, <2>7, <2>8
<1>10. QED BY <1>8, <1>9

\* The agent stands in for the job: wherever _scheduled_tick would find a refresh due,
\* Scheduler::decide, given the same answers, has a reason to start it.
THEOREM AgentAgreesHolds == Spec => []AgentAgrees
<1>1. ASSUME TickTypes, KeepInv, ManifestInv PROVE AgentAgrees
  <2>1. SUFFICES ASSUME agent, run = None, manifest # None, described, NEW out \in Answers,
                        \A c \in Conns : out[c] # "partial", Judged(state, out).due
                 PROVE  DueAnyway \/ Troubled(out) \/ Changes(out) # {}
    BY Zenon DEF AgentAgrees
  <2>2. state \in States /\ combined \in BOOLEAN
    BY <1>1 DEF TickTypes
  <2>3. Due(state, out)
    BY <2>1, <2>2, JudgedAs
  <2>4. Describes(manifest, state, cooldown)
    BY <1>1, <2>1, Zenon DEF ManifestInv
  <2>5. QED BY <1>1, <2>1, <2>3, <2>4, AgentReasons
<1>2. QED BY TickTypesHold, KeepHolds, ManifestHolds, <1>1, PTL

-----------------------------------------------------------------------------
(* What is recorded is on its way.                                          *)

\* What s records has reached the setups, is to be retried, or is of a lost connection.
Reaches(s, lost, there, desk) ==
  \A c \in Conns, part \in Parts : s.versions[c][part] = "now" =>
    \/ c \in s.retry \cup lost
    \/ <<c, part>> \in there /\ (c = Desk /\ part = "models" => desk \/ s.cowork)

\* A failed refresh retries all it was about, a finished one what it left out.  Only an
\* administrator's defaults change.
ReachInv ==
  /\ Reaches(state, rejected, Settled, deskFresh)
  /\ \A c \in Conns \ Governed : <<c, "defaults">> \in Settled
  /\ Judging /\ run.at # "manifest" =>
       /\ Conns \subseteq run.failed.retry \cup (rejected \cap run.skip)
       /\ run.skip \subseteq run.done.retry \cup rejected
       /\ run.at = "done" => Reaches(run.done, rejected \cap run.skip, Settled, deskFresh)

\* Where nothing new is recorded, no retry is dropped and nothing is undone, what is
\* recorded stays on its way.
LEMMA ReachesStill ==
  ASSUME NEW s, NEW t, NEW lost, NEW found, NEW there, NEW here, NEW desk, NEW desked,
         Reaches(s, lost, there, desk),
         \A c \in Conns, part \in Parts :
           t.versions[c][part] = "now" => s.versions[c][part] = "now",
         s.retry \cup lost \subseteq t.retry \cup found,
         \A c \in Conns, part \in Parts :
           t.versions[c][part] = "now" /\ <<c, part>> \in there => <<c, part>> \in here,
         t.versions[Desk]["models"] = "now" => (desk \/ s.cowork => desked \/ t.cowork)
  PROVE  Reaches(t, found, here, desked)
<1>1. ASSUME NEW c \in Conns, NEW part \in Parts, t.versions[c][part] = "now",
             c \notin t.retry \cup found
      PROVE  <<c, part>> \in here /\ (c = Desk /\ part = "models" => desked \/ t.cowork)
  <2>1. s.versions[c][part] = "now" /\ c \notin s.retry \cup lost
    BY <1>1
  <2>2. <<c, part>> \in there /\ (c = Desk /\ part = "models" => desk \/ s.cowork)
    BY <2>1, Zenon DEF Reaches
  <2>3. <<c, part>> \in here
    BY <1>1, <2>2, Zenon
  <2>4. ASSUME c = Desk, part = "models" PROVE desked \/ t.cowork
    <3>1. t.versions[Desk]["models"] = "now"
      BY <1>1, <2>4, Zenon
    <3>2. QED BY <2>2, <2>4, <3>1, Zenon
  <2>5. QED BY <2>3, <2>4, Zenon
<1>2. QED BY <1>1, Zenon DEF Reaches

\* A change at Router takes a version back together with what had reached the setups.
LEMMA ReachesChanged ==
  ASSUME NEW s \in States, NEW c \in Conns, NEW part \in Parts,
         NEW parts \in SUBSET Parts, part \in parts,
         NEW lost, NEW there, NEW here, NEW desk, NEW desked,
         there \ {<<c, part>>} \subseteq here,
         desked = (desk /\ ~(c = Desk /\ part = "models")),
         Reaches(s, lost, there, desk)
  PROVE  Reaches(Versioned(s, Outdated(s.versions, c, parts)), lost, here, desked)
<1> DEFINE after == Outdated(s.versions, c, parts)
           t == Versioned(s, after)
<1>1. /\ \A d \in Conns \ {c} : after[d] = s.versions[d]
      /\ \A p \in Parts : after[c][p] = IF p \in parts /\ s.versions[c][p] = "now" THEN "old"
                                        ELSE s.versions[c][p]
  BY StateFields, OutdatedVersions
<1> HIDE DEF after
<1>2. t.versions = after /\ t.retry = s.retry /\ t.cowork = s.cowork
  BY Zenon DEF t, Versioned
<1> HIDE DEF t
<1>3. ASSUME NEW d \in Conns, NEW p \in Parts, after[d][p] = "now"
      PROVE  s.versions[d][p] = "now" /\ ~(d = c /\ p = part)
  <2>1. CASE d = c
    <3>1. after[c][p] = IF p \in parts /\ s.versions[c][p] = "now" THEN "old"
                        ELSE s.versions[c][p]
      BY <1>1
    <3>2. p \notin parts /\ s.versions[c][p] = "now"
      BY <1>3, <2>1, <3>1
    <3>3. QED BY <2>1, <3>2
  <2>2. CASE d # c
    BY <1>1, <1>3, <2>2
  <2>3. QED BY <2>1, <2>2
<1>4. ASSUME NEW d \in Conns, NEW p \in Parts, after[d][p] = "now", <<d, p>> \in there
      PROVE  <<d, p>> \in here
  <2>1. <<d, p>> # <<c, part>>
    BY <1>3, <1>4
  <2>2. QED BY <1>4, <2>1
<1>5. after[Desk]["models"] = "now" => (desk \/ s.cowork => desked \/ t.cowork)
  <2>1. CASE Desk = c /\ part = "models"
    BY <1>3, <2>1
  <2>2. CASE ~(Desk = c /\ part = "models")
    BY <1>2, <2>2
  <2>3. QED BY <2>1, <2>2
<1>6. s.retry \cup lost \subseteq t.retry \cup lost
  BY <1>2
<1>7. Reaches(t, lost, here, desked)
  <2>1. \A d \in Conns, p \in Parts : t.versions[d][p] = "now" => s.versions[d][p] = "now"
    BY <1>2, <1>3, Zenon
  <2>2. \A d \in Conns, p \in Parts :
          t.versions[d][p] = "now" /\ <<d, p>> \in there => <<d, p>> \in here
    BY <1>2, <1>4, Zenon
  <2>3. t.versions[Desk]["models"] = "now" => (desk \/ s.cowork => desked \/ t.cowork)
    BY <1>2, <1>5, Zenon
  <2>4. QED BY <1>6, <2>1, <2>2, <2>3, ReachesStill
<1>8. QED BY <1>7, Zenon DEF t, after

\* Every step keeps ReachInv.
LEMMA ReachStep ==
  ASSUME TickTypes, ReachInv, [Next]_vars
  PROVE  ReachInv'
<1>t. /\ state \in States /\ combined \in BOOLEAN /\ run \in {None} \cup Runs
  BY DEF TickTypes
<1>i. /\ Reaches(state, rejected, Settled, deskFresh)
      /\ \A c \in Conns \ Governed : <<c, "defaults">> \in Settled
      /\ Judging /\ run.at # "manifest" =>
           /\ Conns \subseteq run.failed.retry \cup (rejected \cap run.skip)
           /\ run.skip \subseteq run.done.retry \cup rejected
           /\ run.at = "done" => Reaches(run.done, rejected \cap run.skip, Settled, deskFresh)
  BY Zenon DEF ReachInv
<1>s. UNCHANGED <<fresh, unread>> =>
        Settled' = Settled /\ \A c \in Conns \ Governed : <<c, "defaults">> \in Settled'
  BY <1>i DEF Settled
<1>n. /\ Reaches(state', rejected', Settled', deskFresh')
      /\ \A c \in Conns \ Governed : <<c, "defaults">> \in Settled'
      /\ run' = None \/ run'.at \in {"start", "manifest"}
      => ReachInv'
  BY Zenon DEF ReachInv, Judging, Reaches
<1>1. ASSUME NEW out \in Answers, NEW retried \in BOOLEAN, Check(out, retried) PROVE ReachInv'
  <2>1. PICK s \in States :
           /\ s = state \/ (s = Cowork(state, FALSE) /\ deskFresh')
           /\ state' = IF Due(s, out) THEN s ELSE Kept(s, out)
           /\ run' = Begun(s, out)
           /\ rejected' = rejected \cup Revoked(s, out)
           /\ deskFresh => deskFresh'
           /\ UNCHANGED <<cooldown, manifest, worldVars, fresh, unread>>
    BY <1>1, CheckStep, Zenon
  <2>2. out \in [Conns -> Outcomes]
    BY <1>t, AnswersAre
  <2>s. Settled' = Settled /\ \A c \in Conns \ Governed : <<c, "defaults">> \in Settled'
    BY <1>s, <2>1
  <2>3. Reaches(s, rejected, Settled, deskFresh')
    <3>1. s.versions = state.versions /\ s.retry = state.retry
          /\ (deskFresh' \/ s.cowork = state.cowork)
      <4>1. Cowork(state, FALSE).versions = state.versions
            /\ Cowork(state, FALSE).retry = state.retry
        BY Zenon DEF Cowork
      <4>2. QED BY <2>1, <4>1, Zenon
    <3>2. deskFresh \/ state.cowork => deskFresh' \/ s.cowork
      BY <2>1, <3>1
    <3>3. QED BY <1>i, <3>1, <3>2, ReachesStill
  <2>4. /\ run'.at = IF Due(s, out) THEN "refresh" ELSE "manifest"
        /\ run'.skip = Revoked(s, out) \cup Away(s, out)
        /\ run'.done = Done(s, out) /\ run'.failed = Failed(s, out)
    BY <2>1, Zenon DEF Begun
  <2>5. Reaches(state', rejected', Settled', deskFresh')
    <3>1. CASE Due(s, out)
      <4>1. state' = s /\ s.retry \cup rejected \subseteq s.retry \cup rejected'
            /\ Settled' = Settled
        BY <2>1, <2>s, <3>1
      <4>2. Reaches(s, rejected', Settled, deskFresh')
        BY <2>3, <4>1, ReachesStill
      <4>3. QED BY <4>1, <4>2, Zenon
    <3>2. CASE ~Due(s, out)
      <4>1. state' = Kept(s, out) /\ Settled' = Settled
        BY <2>1, <2>s, <3>2
      <4>2. /\ Kept(s, out).versions = s.versions /\ Kept(s, out).cowork = s.cowork
            /\ Owed(s, out) \subseteq Kept(s, out).retry
        <5>1. /\ Kept(s, out).versions = s.versions /\ Kept(s, out).cowork = s.cowork
              /\ Kept(s, out).retry
                   = IF Missed(s, out) THEN Owed(s, out) \cup Away(s, out) ELSE Owed(s, out)
          BY KeptState, Zenon
        <5>2. QED BY <5>1
      <4>3. s.retry \subseteq Owed(s, out) \cup Revoked(s, out)
        BY <2>2, Sorted, StateFields DEF Owed
      <4>4. s.retry \cup rejected \subseteq Kept(s, out).retry \cup rejected'
        BY <2>1, <4>2, <4>3
      <4>5. Reaches(Kept(s, out), rejected', Settled, deskFresh')
        BY <2>3, <4>2, <4>4, ReachesStill
      <4>6. QED BY <4>1, <4>5, Zenon
    <3>3. QED BY <3>1, <3>2
  <2>6. CASE ~Due(s, out)
    BY <1>n, <2>s, <2>4, <2>5, <2>6
  <2>7. CASE Due(s, out)
    <3>1. run'.done.retry = Away(s, out)
      BY <1>t, <2>4, DoneState
    <3>2. run'.failed.retry = Away(s, out) \cup Reached(s, out)
      BY <1>t, <2>4, FailedState
    <3>3. /\ Conns \subseteq run'.failed.retry \cup (rejected' \cap run'.skip)
          /\ run'.skip \subseteq run'.done.retry \cup rejected'
      BY <2>1, <2>2, <2>4, <3>1, <3>2, Sorted
    <3>4. run'.at # "done"
      BY <2>4
    <3>5. Reaches(state, rejected, Settled, deskFresh)'
      BY <2>5, Zenon DEF Reaches
    <3>6. QED BY <2>s, <3>3, <3>4, <3>5, Zenon DEF ReachInv
  <2>8. QED BY <2>6, <2>7
<1>2. ASSUME NEW good \in SUBSET Conns, NEW own, NEW passed \in BOOLEAN, Refresh(good, own, passed)
      PROVE  ReachInv'
  <2>1. PICK at \in {"done", "failed"}, cowork \in BOOLEAN :
           /\ run \in Judgements /\ run.at = "refresh"
           /\ run' = Refreshed(run, at, cowork) /\ Refreshed(run, at, cowork) \in Judgements
           /\ at = "done" => good = Conns \ run.skip
           /\ Desk \in Conns \ run.skip => cowork \/ deskFresh'
           /\ deskFresh' \in BOOLEAN /\ (deskFresh => deskFresh')
           /\ fresh' \in SUBSET (Conns \X Parts) /\ unread' \in SUBSET Conns
           /\ Gained(good, Settled, Settled')
           /\ UNCHANGED <<state, cooldown, manifest, attempts, worldVars, rejected, described>>
    BY <1>2, RefreshStep, Zenon
  <2>g. /\ Settled \subseteq Settled'
        /\ \A c \in good, part \in Parts : <<c, part>> \in Settled'
    <3>1. /\ Settled \subseteq Settled'
          /\ \A c \in good : /\ <<c, "models">> \in Settled'
                             /\ c \in Governed => <<c, "defaults">> \in Settled'
      BY <2>1, Zenon DEF Gained
    <3>2. ASSUME NEW c \in good PROVE <<c, "defaults">> \in Settled'
      BY <1>i, <3>1
    <3>3. QED BY <3>1, <3>2 DEF Parts
  <2>u. \A c \in Conns \ Governed : <<c, "defaults">> \in Settled'
    BY <1>i, <2>g
  <2>2. run # None
    BY <1>2 DEF Refresh, Running
  <2>3. /\ Conns \subseteq run.failed.retry \cup (rejected \cap run.skip)
        /\ run.skip \subseteq run.done.retry \cup rejected
    BY <1>i, <2>1, <2>2 DEF Judging
  <2>4. /\ run'.at = at /\ run'.skip = run.skip /\ run'.failed = run.failed
        /\ run'.done = Cowork(run.done, cowork)
    BY <2>1, Zenon DEF Refreshed
  <2>5. run'.done.retry = run.done.retry /\ run'.done.cowork = cowork
    <3>1. ASSUME NEW s, NEW t, t = Cowork(s, cowork) PROVE t.retry = s.retry /\ t.cowork = cowork
      BY <3>1, Zenon DEF Cowork
    <3>2. QED BY <2>4, <3>1, Zenon
  <2>6. Reaches(state', rejected', Settled', deskFresh')
    <3>1. /\ state' = state /\ rejected' = rejected
          /\ \A c \in Conns, part \in Parts : <<c, part>> \in Settled => <<c, part>> \in Settled'
      BY <2>1, <2>g
    <3>2. deskFresh \/ state.cowork => deskFresh' \/ state.cowork
      BY <2>1
    <3>3. Reaches(state, rejected, Settled', deskFresh')
      BY <1>i, <3>1, <3>2, ReachesStill
    <3>4. QED BY <3>1, <3>3, Zenon
  <2>7. at = "done" => Reaches(run'.done, rejected' \cap run'.skip, Settled', deskFresh')
    <3>1. ASSUME at = "done", NEW c \in Conns, NEW part \in Parts,
                 c \notin run'.done.retry \cup (rejected' \cap run'.skip)
          PROVE  <<c, part>> \in Settled' /\ (c = Desk => deskFresh' \/ run'.done.cowork)
      <4>1. c \notin run.skip
        BY <2>1, <2>3, <2>4, <2>5, <3>1
      <4>2. c \in good
        BY <2>1, <3>1, <4>1
      <4>3. <<c, part>> \in Settled'
        BY <2>g, <4>2
      <4>4. c = Desk => deskFresh' \/ run'.done.cowork
        BY <2>1, <2>5, <4>1
      <4>5. QED BY <4>3, <4>4
    <3>2. QED BY <3>1, Zenon DEF Reaches
  <2>8. Reaches(state, rejected, Settled, deskFresh)'
    BY <2>6, Zenon DEF Reaches
  <2>9. (run'.at = "done" => Reaches(run.done, rejected \cap run.skip, Settled, deskFresh)')
    BY <2>4, <2>7, Zenon DEF Reaches
  <2>10. /\ Conns \subseteq run'.failed.retry \cup (rejected' \cap run'.skip)
         /\ run'.skip \subseteq run'.done.retry \cup rejected'
    BY <2>1, <2>3, <2>4, <2>5
  <2>11. QED BY <2>u, <2>8, <2>9, <2>10, Zenon DEF ReachInv
<1>3. CASE Save
  <2>1. /\ run \in Judgements /\ run.at \in {"done", "failed"}
        /\ state' = IF run.at = "done" THEN run.done ELSE run.failed
        /\ run' = [at |-> "manifest", seen |-> run.seen, older |-> run.older, skip |-> run.skip,
                    pinned |-> run.pinned, done |-> run.done, failed |-> run.failed]
        /\ rejected' = rejected \cap run.skip
        /\ UNCHANGED <<manifest, attempts, worldVars, fresh, unread, deskFresh, faults>>
    BY <1>3, SaveStep, Zenon
  <2>2. run # None
    BY <1>3 DEF Save, Running
  <2>3. /\ Conns \subseteq run.failed.retry \cup (rejected \cap run.skip)
        /\ run.at = "done" => Reaches(run.done, rejected \cap run.skip, Settled, deskFresh)
    BY <1>i, <2>1, <2>2 DEF Judging
  <2>4. run'.at = "manifest"
    BY <2>1, Zenon
  <2>s. Settled' = Settled /\ \A c \in Conns \ Governed : <<c, "defaults">> \in Settled'
    BY <1>s, <2>1
  <2>5. Reaches(state', rejected', Settled', deskFresh')
    <3>1. CASE run.at = "done"
      BY <2>1, <2>3, <2>s, <3>1, Zenon
    <3>2. CASE run.at = "failed"
      <4>1. state' = run.failed
        BY <2>1, <3>2
      <4>2. \A c \in Conns : c \in state'.retry \cup rejected'
        BY <2>1, <2>3, <4>1
      <4>3. QED BY <4>2, Zenon DEF Reaches
    <3>3. QED BY <2>1, <3>1, <3>2
  <2>6. QED BY <1>n, <2>s, <2>4, <2>5
<1>4. CASE WriteManifest
  <2>1. /\ run' = None
        /\ UNCHANGED <<state, cooldown, attempts, worldVars, fresh, unread, deskFresh, rejected, faults>>
    BY <1>4, WriteStep, Zenon
  <2>2. QED BY <1>i, <1>n, <1>s, <2>1, Zenon
<1>5. CASE Quiet
  <2>1. /\ UNCHANGED <<state, fresh, unread, deskFresh, rejected>>
        /\ run' = run \/ run' = None \/ run' = [at |-> "start"]
    BY <1>5, QuietStep, Zenon
  <2>2. CASE run' = None
    BY <1>i, <1>n, <1>s, <2>1, <2>2, Zenon
  <2>3. CASE run' = [at |-> "start"]
    <3>1. run'.at = "start"
      BY <2>3, Zenon
    <3>2. run'.at \in {"start", "manifest"}
      BY <3>1
    <3>3. QED BY <1>i, <1>n, <1>s, <2>1, <3>2, Zenon
  <2>4. CASE run' = run
    BY <1>i, <1>s, <2>1, <2>4, Zenon DEF ReachInv, Judging, Reaches
  <2>5. QED BY <2>1, <2>2, <2>3, <2>4
<1>6. ASSUME NEW c \in Conns, NEW part \in Parts, Change(c, part) PROVE ReachInv'
  <2> DEFINE parts == IF combined THEN {part, "models"} ELSE {part}
  <2>1. /\ part = "defaults" => c \in Governed
        /\ parts \in SUBSET Parts
        /\ fresh' = fresh \ {<<c, part>>}
        /\ deskFresh' = (deskFresh /\ ~(c = Desk /\ part = "models"))
        /\ state' = Versioned(state, Outdated(state.versions, c, parts))
        /\ run = None \/ run.at = "start" => run' = run
        /\ run # None /\ run.at # "start" =>
              /\ run \in Judgements
              /\ run' = Overtaken(run, run.seen \ ({c} \X parts),
                                  Outdated(run.done.versions, c, parts),
                                  Outdated(run.failed.versions, c, parts))
        /\ UNCHANGED <<cooldown, worldVars, rejected, described, unread>>
    BY <1>6, ChangeStep, Zenon
  <2>2. part \in parts
    OBVIOUS
  <2>s. /\ Settled \ {<<c, part>>} \subseteq Settled'
        /\ \A d \in Conns \ Governed : <<d, "defaults">> \in Settled'
    BY <1>i, <2>1 DEF Settled
  <2> HIDE DEF parts
  <2>3. ASSUME NEW s \in States, NEW lost, Reaches(s, lost, Settled, deskFresh)
        PROVE  Reaches(Versioned(s, Outdated(s.versions, c, parts)), lost, Settled', deskFresh')
    BY <2>1, <2>2, <2>s, <2>3, ReachesChanged
  <2>4. Reaches(state', rejected', Settled', deskFresh')
    <3>1. Reaches(Versioned(state, Outdated(state.versions, c, parts)), rejected, Settled', deskFresh')
      BY <1>t, <1>i, <2>3
    <3>2. QED BY <2>1, <3>1, Zenon
  <2>5. CASE run = None \/ run.at = "start"
    <3>1. run' = None \/ run'.at \in {"start", "manifest"}
      BY <2>1, <2>5
    <3>2. QED BY <1>n, <2>s, <2>4, <3>1
  <2>6. CASE run # None /\ run.at # "start"
    <3>1. /\ run \in Judgements
          /\ run' = Overtaken(run, run.seen \ ({c} \X parts),
                              Outdated(run.done.versions, c, parts),
                              Outdated(run.failed.versions, c, parts))
      BY <2>1, <2>6, Zenon
    <3>2. /\ run'.at = run.at /\ run'.skip = run.skip
          /\ run'.done = Versioned(run.done, Outdated(run.done.versions, c, parts))
          /\ run'.failed = Versioned(run.failed, Outdated(run.failed.versions, c, parts))
      BY <3>1, Zenon DEF Overtaken
    <3>3. ASSUME NEW s, NEW v, NEW t, t = Versioned(s, v) PROVE t.retry = s.retry
      BY <3>3, Zenon DEF Versioned
    <3>4. run'.done.retry = run.done.retry /\ run'.failed.retry = run.failed.retry
      <4>1. run'.done.retry = run.done.retry
        BY <3>2, <3>3
      <4>2. run'.failed.retry = run.failed.retry
        BY <3>2, <3>3
      <4>3. QED BY <4>1, <4>2
    <3>5. CASE run.at = "manifest"
      BY <1>n, <2>s, <2>4, <3>2, <3>5
    <3>6. CASE run.at # "manifest"
      <4>1. /\ Conns \subseteq run.failed.retry \cup (rejected \cap run.skip)
            /\ run.skip \subseteq run.done.retry \cup rejected
            /\ run.at = "done" => Reaches(run.done, rejected \cap run.skip, Settled, deskFresh)
        BY <1>i, <2>6, <3>6 DEF Judging
      <4>2. run.done \in States
        BY <3>1, RunFields
      <4>3. run.at = "done" =>
              Reaches(Versioned(run.done, Outdated(run.done.versions, c, parts)),
                      rejected \cap run.skip, Settled', deskFresh')
        BY <2>3, <4>1, <4>2
      <4>4. rejected' = rejected
        BY <2>1
      <4>5. (run'.at = "done" => Reaches(run.done, rejected \cap run.skip, Settled, deskFresh)')
        BY <3>2, <4>3, <4>4, Zenon DEF Reaches
      <4>6. Reaches(state, rejected, Settled, deskFresh)'
        BY <2>4, Zenon DEF Reaches
      <4>7. /\ Conns \subseteq run'.failed.retry \cup (rejected' \cap run'.skip)
            /\ run'.skip \subseteq run'.done.retry \cup rejected'
        BY <3>2, <3>4, <4>1, <4>4, Zenon
      <4>8. QED BY <2>s, <4>5, <4>6, <4>7, Zenon DEF ReachInv
    <3>7. QED BY <3>5, <3>6
  <2>7. QED BY <2>5, <2>6
<1>7. CASE Tick
  <2>1. /\ run' = None /\ state' = Hence(state)
        /\ UNCHANGED <<worldVars, fresh, unread, deskFresh, rejected, described, faults>>
    BY <1>7, TickStep, Zenon
  <2>2. /\ Hence(state).versions = state.versions /\ Hence(state).retry = state.retry
        /\ Hence(state).cowork = state.cowork
    BY <1>t, HenceState
  <2>3. Reaches(state', rejected', Settled', deskFresh')
    <3>1. Reaches(Hence(state), rejected, Settled, deskFresh)
      BY <1>i, <2>2, Zenon DEF Reaches
    <3>2. QED BY <1>s, <2>1, <3>1, Zenon
  <2>4. QED BY <1>n, <1>s, <2>1, <2>3
<1>8. QED BY <1>1, <1>2, <1>3, <1>4, <1>5, <1>6, <1>7, StepsAre, Zenon

\* A version, of the models or of the defaults, is recorded only together with the way it
\* reaches the setups: what is recorded and not in them is retried, unless the connection
\* has been revoked, or was last refreshed without the defaults, which could not be read.
THEOREM NothingForgottenHolds == Spec => []NothingForgotten
<1>1. Init => ReachInv
  <2>1. SUFFICES ASSUME Init PROVE ReachInv
    OBVIOUS
  <2>2. /\ fresh = Conns \X Parts /\ deskFresh = TRUE /\ run = None
    BY <2>1 DEF Init
  <2>3. \A c \in Conns, part \in Parts : <<c, part>> \in Settled
    BY <2>2 DEF Settled
  <2>4. \A c \in Conns \ Governed : <<c, "defaults">> \in Settled
    BY <2>3 DEF Parts
  <2>5. deskFresh
    BY <2>2
  <2>6. QED BY <2>2, <2>3, <2>4, <2>5, Zenon DEF ReachInv, Reaches, Judging
<1>2. TickTypes /\ ReachInv /\ [Next]_vars => ReachInv'
  BY ReachStep
<1>3. ASSUME ReachInv PROVE NothingForgotten
  <2>1. SUFFICES ASSUME NEW c \in Conns, NEW part \in Parts, state.versions[c][part] = "now"
                 PROVE  Tracked(c) \/ Served(c, part) \/ (part = "defaults" /\ c \in unread)
    BY Zenon DEF NothingForgotten
  <2>2. \/ c \in state.retry \cup rejected
        \/ <<c, part>> \in Settled /\ (c = Desk /\ part = "models" => deskFresh \/ state.cowork)
    BY <1>3, <2>1, Zenon DEF ReachInv, Reaches
  <2>3. <<c, part>> \in Settled => <<c, part>> \in fresh \/ (part = "defaults" /\ c \in unread)
    BY DEF Settled
  <2>4. QED BY <2>2, <2>3, Zenon DEF Tracked, Served
<1>4. QED BY TickTypesHold, <1>1, <1>2, <1>3, PTL DEF Spec

=============================================================================
