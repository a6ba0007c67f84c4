---------------------------- MODULE ScheduledTick ----------------------------
(***************************************************************************)
(* How a change made at Router reaches the setups of this computer: the    *)
(* scheduled sync (commands/router.py, _scheduled_tick), what it keeps for *)
(* its next run (router-sync.json), the manifest it leaves for the native  *)
(* agent, and the agent's own checks (router-agent/src/sync.rs), which     *)
(* start the sync when Router's answers differ from the manifest.          *)
(*                                                                         *)
(* A connection is a Router endpoint with a key.  Versions are opaque, so  *)
(* a recorded part is "now" if it is what Router would answer, "old" if it *)
(* was once, and "?" if there is nothing to compare.  Times are relative:  *)
(* an age or the time left, in units of the first retry delay (one hour).  *)
(***************************************************************************)
EXTENDS Naturals, FiniteSets

CONSTANTS
  Conns,            \* the connections that setups use
  Governed,         \* those whose setups apply an administrator's defaults
  Desk,             \* the one Claude Desktop's profile uses, or None
  Day,              \* FULL_REFRESH_SECONDS
  Cooldown,         \* SYNC_COOLDOWN_SECONDS
  MaxFaults,        \* bound: troubles with Router, failures, crashes and changes
  None

ASSUME ConnsAssumption ==
  Conns # {} /\ Governed \subseteq Conns /\ Desk \in Conns \cup {None} /\ None \notin Conns \cup Nat
ASSUME TimesAssumption == Day \in Nat \ {0} /\ Cooldown \in 1..Day
ASSUME BoundAssumption == MaxFaults \in Nat

VARIABLES
  fresh,            \* <<c, part>>: every setup of c has what Router serves
  deskFresh,        \* so has Desktop's profile
  state,            \* router-sync.json
  cooldown,         \* time left of the session hook's cooldown
  manifest,         \* what the agent checks, or None
  attempts,         \* <<c, part>>: a change the agent has just acted on
  run,              \* the scheduled sync that runs, or None
  desktop,          \* Claude Desktop is open
  agent,            \* the agent schedules the runs, not the plain job
  combined,         \* Router's version covers the coding-agent settings
  rejected,         \* history: found revoked since last refreshed
  described,        \* history: the manifest was written for this state
  unread,           \* history: last refreshed without the defaults, which could not be read
  faults            \* troubles so far

syncVars == <<state, cooldown, manifest, attempts, run>>
worldVars == <<desktop, agent, combined>>
vars == <<syncVars, worldVars, fresh, unread, deskFresh, rejected, described, faults>>

Parts == {"models", "defaults"}
Outcomes == {"ok", "partial", "revoked", "unavailable", "unsupported"}
Unknown == [part \in Parts |-> "?"]

\* Setups just configured, with what Router serves; no run yet.
Init ==
  /\ fresh = Conns \X Parts /\ deskFresh = TRUE
  /\ state = [versions |-> [c \in Conns |-> Unknown], retry |-> {}, after |-> None,
              delay |-> 0, last |-> None, revoked |-> [c \in Conns |-> None],
              cowork |-> FALSE]
  /\ cooldown = 0
  /\ manifest = None /\ attempts = {} /\ run = None
  /\ desktop = FALSE
  /\ agent \in BOOLEAN /\ combined \in BOOLEAN
  /\ rejected = {} /\ described = FALSE /\ unread = {} /\ faults = 0

Least(S) == CHOOSE x \in S : \A y \in S : x <= y
Most(S) == CHOOSE x \in S : \A y \in S : x >= y

Spend(n) == faults + n <= MaxFaults /\ faults' = faults + n

\* What Router may answer; "partial" is its version without the defaults.  A Router
\* whose version covers the settings is not too old to have one.
AnswersIf ==
  [covers \in BOOLEAN |-> {out \in [Conns -> Outcomes] : \A c \in Conns :
     /\ out[c] = "partial" => c \in Governed
     /\ out[c] = "unsupported" => ~covers}]

Answers == AnswersIf[combined]

Trouble(out) == Cardinality({c \in Conns : out[c] # "ok"})

-----------------------------------------------------------------------------
(* What a run makes of the answers *)

\* (mutant) defaults that could not be read keep what was recorded, although the
\* agent does not ask for them again
VersionKept(s, c, outcome) ==
  [models |-> "now",
   defaults |-> IF outcome = "ok" THEN "now" ELSE s.versions[c].defaults]

\* The version a run records for a connection that answered.
Version(s, c, outcome) ==
  [models |-> "now",
   defaults |-> IF outcome = "ok" THEN "now"
                ELSE IF combined THEN "?" ELSE s.versions[c].defaults]

\* An hour, doubling to a day while it keeps failing.
Backoff(s) == IF s.delay = 0 THEN 1 ELSE Least({2 * s.delay, Day})

PutOff(s, conns) ==
  [s EXCEPT !.retry = conns, !.delay = Backoff(s), !.after = Backoff(s)]

\* (mutant) a rejected key is never asked about again
RecentlyRevokedEver(s, c) == s.revoked[c] # None

RecentlyRevoked(s, c) == s.revoked[c] # None /\ s.revoked[c] < Day

FullDue(s) == s.last \in {None, Day}

\* (mutant) only what could not be reached is retried
RetriedMissed(away, reached) == away

\* What is retried when the refresh failed.
Retried(away, reached) == away \cup reached

\* _scheduled_tick up to the refresh: whether one is due, whom it leaves out, and
\* the state kept without it, after it, or after it failed.
Judged(s, out) ==
  LET recent    == {c \in Conns : RecentlyRevoked(s, c)}
      found(os) == {c \in Conns \ recent : out[c] \in os}
      revoked   == recent \cup found({"revoked"})
      away      == found({"unavailable"})
      older     == found({"unsupported"})
      answered  == found({"ok", "partial"})
      reached   == answered \cup older
      retry     == s.retry \cap (reached \cup away)
      base      == [s EXCEPT !.retry = retry,
                             !.after = IF retry = {} THEN None ELSE @,
                             !.delay = IF retry = {} THEN 0 ELSE @,
                             !.revoked = [c \in Conns |->
                               IF c \in recent THEN @[c]
                               ELSE IF c \in revoked THEN 0 ELSE None]]
      backing   == base.after \notin {None, 0}
      changed   == \E c \in answered : Version(s, c, out[c]) # s.versions[c]
      missed    == \/ base.after = 0 /\ retry \cap away # {}
                   \/ away # {} /\ ~backing /\ FullDue(s)
      done      == [base EXCEPT
                     !.versions = [c \in Conns |->
                       IF c \in answered THEN Version(s, c, out[c]) ELSE @[c]],
                     !.last = 0,
                     !.retry = away,
                     !.after = IF away = {} THEN None ELSE IF backing THEN @ ELSE Backoff(base),
                     !.delay = IF away = {} THEN 0 ELSE IF backing THEN @ ELSE Backoff(base),
                     !.cowork = FALSE]
  IN  [due     |-> /\ reached # {}
                   /\ \/ changed
                      \/ base.after = 0 /\ retry \cap reached # {}
                      \/ ~backing /\ (FullDue(s) \/ (older # {} /\ cooldown = 0)),
       skip    |-> revoked \cup away,
       older   |-> older # {},
       pinned  |-> answered,
       seen    |-> (answered \X {"models"})
                     \cup ({c \in answered : out[c] = "ok"} \X {"defaults"}),
       revoked |-> revoked,
       kept    |-> IF missed THEN PutOff(base, retry \cup away) ELSE base,
       done    |-> done,
       failed  |-> [done EXCEPT !.retry = Retried(away, reached), !.after = Backoff(base),
                                !.delay = Backoff(base), !.cowork = s.cowork]]

-----------------------------------------------------------------------------
(* The scheduled sync, which holds the sync lock throughout *)

\* The job's timer starts a run.
StartJob ==
  /\ ~agent /\ run = None
  /\ run' = [at |-> "start"]
  /\ UNCHANGED <<state, cooldown, manifest, attempts, worldVars, fresh, unread, deskFresh,
                 rejected, described, faults>>

Running(at) == run # None /\ run.at = at

\* It finishes a pass over Desktop's profile that waited for Desktop to close, and
\* asks Router about each connection.  (Bound once: TLC evaluates a LET at each use.)
Check(out, retried) ==
  /\ Running("start")
  /\ retried => state.cowork /\ ~desktop
  /\ Spend(Trouble(out) + IF state.cowork /\ ~desktop /\ ~retried THEN 1 ELSE 0)
  /\ deskFresh' = (deskFresh \/ retried)
  /\ \E s \in {IF retried THEN [state EXCEPT !.cowork = FALSE] ELSE state} :
     \E j \in {Judged(s, out)} :
       /\ rejected' = rejected \cup j.revoked
       /\ state' = IF j.due THEN s ELSE j.kept
       /\ run' = [at |-> IF j.due THEN "refresh" ELSE "manifest",
                  seen |-> j.seen, older |-> j.older, skip |-> j.skip,
                  pinned |-> j.pinned, done |-> j.done, failed |-> j.failed]
  /\ described' = (described /\ state' = state)
  /\ UNCHANGED <<cooldown, manifest, attempts, worldVars, fresh, unread>>

\* The defaults a refresh applies: what its check read, which pins that read, or
\* for a connection that was not checked, a read of its own.
Body(c, own) == IF c \in run.pinned THEN <<c, "defaults">> \in run.seen ELSE own

\* _refresh_clients: every setup that is not left out, and Desktop's profile, which
\* waits while Desktop is open.  One failure does not hold back the others.
Refresh(good, own, passed) ==
  LET due == Conns \ run.skip
      coworkDue == Desk \in due /\ ~desktop
  IN  /\ Running("refresh")
      /\ good \subseteq due
      /\ passed => coworkDue
      /\ Spend((IF good = due THEN 0 ELSE 1) + (IF own THEN 0 ELSE 1)
                 + (IF coworkDue /\ ~passed THEN 1 ELSE 0))
      /\ fresh' = fresh \cup (good \X {"models"})
                        \cup ({c \in good : Body(c, own)} \X {"defaults"})
      /\ unread' = {c \in unread \cup (good \cap Governed) : c \in good => ~Body(c, own)}
      /\ deskFresh' = (deskFresh \/ passed)
      /\ run' = [run EXCEPT
           !.at = IF good = due THEN "done" ELSE "failed",
           !.done.cowork = Desk # None /\ (desktop \/ (coworkDue /\ ~passed))]
  /\ UNCHANGED <<state, cooldown, manifest, attempts, worldVars, rejected, described>>

Save ==
  /\ Running("done") \/ Running("failed")
  /\ state' = IF run.at = "done" THEN run.done ELSE run.failed
  /\ cooldown' = IF run.at = "done" THEN Cooldown ELSE cooldown
  /\ run' = [run EXCEPT !.at = "manifest"]
  /\ rejected' = rejected \cap run.skip
  /\ described' = FALSE
  /\ UNCHANGED <<manifest, attempts, worldVars, fresh, unread, deskFresh, faults>>

SkipFor(c) == IF state.revoked[c] = None THEN 0 ELSE Day - state.revoked[c]

\* When the agent starts a run, whatever Router answers: not before a connection can
\* be refreshed.
DueAt ==
  LET due  == IF state.after # None THEN state.after
              ELSE IF state.last # None THEN Day - state.last ELSE 0
      back == {SkipFor(c) : c \in Conns}
  IN  IF 0 \in back THEN due ELSE Most({due, Least(back)})

\* (mutant) the hook's cooldown may end before a failed refresh is to be retried
UnsupportedByCooldown == cooldown

UnsupportedDue == IF state.after = None THEN cooldown ELSE Most({cooldown, state.after})

\* The plain job needs no manifest.
WriteManifest ==
  /\ Running("manifest")
  /\ manifest' = IF agent
       THEN [expected |-> state.versions, due |-> DueAt, unsupported |-> UnsupportedDue,
             skip |-> [c \in Conns |-> SkipFor(c)],
             wait |-> IF state.cowork /\ desktop THEN "open" ELSE "none"]
       ELSE manifest
  /\ described' = agent
  /\ run' = None
  /\ UNCHANGED <<state, cooldown, attempts, worldVars, fresh, unread, deskFresh, rejected,
                 faults>>

-----------------------------------------------------------------------------
(* The native agent *)

\* The parts an answer gives.  Where Router's version covers the settings, the
\* defaults are asked for only if the last run could not read them.
Given(c, outcome) ==
  {part \in Parts :
     IF part = "models" THEN outcome \in {"ok", "partial"}
     ELSE /\ outcome = "ok" /\ c \in Governed
          /\ combined => manifest.expected[c].defaults = "?"}

Asked == {c \in Conns : manifest.skip[c] = 0}

Answered(out) == UNION {{c} \X Given(c, out[c]) : c \in Asked}

Changes(out) == {x \in Answered(out) : manifest.expected[x[1]][x[2]] # "now"}

Troubled(out) ==
  \E c \in Asked : \/ out[c] = "revoked"
                   \/ out[c] = "unsupported" /\ manifest.unsupported = 0

\* Scheduler::decide, before it asks Router, and with the answers.
DueAnyway == manifest # None => manifest.wait = "closed" \/ manifest.due = 0

Decides(out) == DueAnyway \/ Troubled(out) \/ Changes(out) \ attempts # {}

AgentStarts ==
  /\ agent /\ run = None
  /\ DueAnyway
  /\ run' = [at |-> "start"]
  /\ UNCHANGED <<state, cooldown, manifest, attempts, worldVars, fresh, unread, deskFresh,
                 rejected, described, faults>>

\* A change starts a run at most once an hour; an answer that matches the manifest
\* forgets the change acted on.  The agent stops at the first reason it meets.
AgentStartsOn(out) ==
  /\ agent /\ run = None
  /\ ~DueAnyway
  /\ Spend(Trouble(out))
  /\ \E kept \in SUBSET attempts :
       /\ attempts \ (Answered(out) \ Changes(out)) \subseteq kept
       /\ \/ Troubled(out) /\ attempts' = kept
          \/ \E x \in Changes(out) \ attempts : attempts' = kept \cup {x}
  /\ run' = [at |-> "start"]
  /\ UNCHANGED <<state, cooldown, manifest, worldVars, fresh, unread, deskFresh, rejected,
                 described>>

AgentIdles(out) ==
  /\ agent /\ run = None
  /\ ~Decides(out)
  /\ Spend(Trouble(out))
  /\ attempts' = attempts \ (Answered(out) \ Changes(out))
  /\ UNCHANGED <<state, cooldown, manifest, run, worldVars, fresh, unread, deskFresh,
                 rejected, described>>

-----------------------------------------------------------------------------
(* Around them *)

Outdated(versions, c, parts) ==
  [versions EXCEPT ![c] = [part \in Parts |->
     IF part \in parts /\ @[part] = "now" THEN "old" ELSE @[part]]]

\* Router serves something new to a connection; Desktop's profile holds models.
Change(c, part) ==
  LET parts == IF combined THEN {part, "models"} ELSE {part}
  IN  /\ part = "defaults" => c \in Governed
      /\ Spend(1)
      /\ fresh' = fresh \ {<<c, part>>}
      /\ deskFresh' = (deskFresh /\ ~(c = Desk /\ part = "models"))
      /\ state' = [state EXCEPT !.versions = Outdated(@, c, parts)]
      /\ manifest' = IF manifest = None THEN None
                     ELSE [manifest EXCEPT !.expected = Outdated(@, c, parts)]
      /\ attempts' = attempts \ ({c} \X parts)
      /\ run' = IF run = None THEN None
                ELSE IF run.at = "start" THEN run
                ELSE [run EXCEPT !.seen = @ \ ({c} \X parts),
                                 !.done.versions = Outdated(@, c, parts),
                                 !.failed.versions = Outdated(@, c, parts)]
      /\ UNCHANGED <<cooldown, worldVars, rejected, described, unread>>

\* A configure clears the manifest, under another lock than the run's.
ClearManifest ==
  /\ manifest # None /\ Spend(1)
  /\ manifest' = None
  /\ UNCHANGED <<state, cooldown, attempts, run, worldVars, fresh, unread, deskFresh,
                 rejected, described>>

Desktop ==
  /\ Desk # None /\ Spend(1)
  /\ desktop' = ~desktop
  /\ manifest' = IF manifest = None THEN None
                 ELSE IF desktop /\ manifest.wait = "open"
                 THEN [manifest EXCEPT !.wait = "closed"] ELSE manifest
  /\ UNCHANGED <<state, cooldown, attempts, run, agent, combined, fresh, unread,
                 deskFresh, rejected, described>>

\* The run dies.
Crash ==
  /\ run # None /\ Spend(1)
  /\ run' = None
  /\ UNCHANGED <<state, cooldown, manifest, attempts, worldVars, fresh, unread, deskFresh,
                 rejected, described>>

Older(age) == IF age \in {None, Day} THEN age ELSE age + 1
Less(left) == IF left \in {None, 0} THEN left ELSE left - 1

\* An hour passes; a run is short against it.
Tick ==
  /\ run = None
  /\ state' = [state EXCEPT !.after = Less(@), !.last = Older(@),
                            !.revoked = [c \in Conns |-> Older(@[c])]]
  /\ cooldown' = Less(cooldown)
  /\ manifest' = IF manifest = None THEN None
                 ELSE [manifest EXCEPT !.due = Less(@), !.unsupported = Less(@),
                                       !.skip = [c \in Conns |-> Less(@[c])]]
  /\ attempts' = {}
  /\ UNCHANGED <<run, worldVars, fresh, unread, deskFresh, rejected, described, faults>>

-----------------------------------------------------------------------------
RunStep ==
  \/ Running("start") /\ \E out \in Answers, retried \in BOOLEAN : Check(out, retried)
  \/ /\ Running("refresh")
     /\ \E good \in SUBSET Conns, own, passed \in BOOLEAN : Refresh(good, own, passed)
  \/ Save \/ WriteManifest

Starts ==
  /\ run = None
  /\ StartJob \/ AgentStarts \/ (agent /\ \E out \in Answers : AgentStartsOn(out))

Next ==
  \/ RunStep \/ Starts
  \/ agent /\ run = None /\ \E out \in Answers : AgentIdles(out)
  \/ \E c \in Conns, part \in Parts : Change(c, part)
  \/ ClearManifest \/ Desktop \/ Crash \/ Tick

Spec == Init /\ [][Next]_vars

\* Runs go on (each request carries a timeout), the timer and the agent keep
\* starting them, time passes between runs.
Fairness == WF_vars(RunStep \/ Starts) /\ SF_vars(Tick)

FairSpec == Spec /\ Fairness
-----------------------------------------------------------------------------
(* Properties *)

\* Another try is to come, or the connection has been revoked since ("their
\* revocation cooldown owns recovery").
Tracked(c) == c \in state.retry \cup rejected

\* Its setups, and Desktop's profile or a later pass over it, have what Router serves.
Served(c, part) ==
  /\ <<c, part>> \in fresh
  /\ c = Desk /\ part = "models" => deskFresh \/ state.cowork

\* A version, of the models or of the defaults, is recorded only together with the way
\* it reaches the setups: what is recorded and not yet in them is to be retried.  Left
\* out are the defaults of a connection last refreshed without them, because they could
\* not be read: DefaultsCaught is about those.
NothingForgotten ==
  \A c \in Conns, part \in Parts : state.versions[c][part] = "now" =>
    Tracked(c) \/ Served(c, part) \/ (part = "defaults" /\ c \in unread)

\* What _connection_version says of a defaults check that fails: it "keeps that origin's
\* digest from ``stored`` ... so the model lists still sync and a defaults change is
\* caught once the control plane answers again".  So when a run in which it answered has
\* decided and saved, the answered defaults are in the setups or to be retried.  Where the
\* digest kept is that of a change no refresh has applied, the answer matches it, and
\* only the daily refresh writes the setups again.
DefaultsCaught ==
  Running("manifest") =>
    \A c \in Conns : <<c, "defaults">> \in run.seen => Tracked(c) \/ Served(c, "defaults")

\* A run settles what started it: the manifest it leaves gives the agent no reason,
\* for what the run has just seen of Router, to start the next one.
RunsSettle ==
  [][run # None /\ run' = None /\ manifest' # manifest =>
       /\ manifest'.due > 0
       /\ run.older => manifest'.unsupported > 0
       /\ \A x \in run.seen : manifest'.expected[x[1]][x[2]] = "now"]_vars

\* The agent stands in for the job: whenever a run would find a refresh due, the
\* agent, given the same answers, has a reason to start it.
AgentAgrees ==
  agent /\ run = None /\ manifest # None /\ described =>
    \A out \in Answers :
      (\A c \in Conns : out[c] # "partial") /\ Judged(state, out).due
      => DueAnyway \/ Troubled(out) \/ Changes(out) # {}

\* Once nothing goes wrong any more, what Router serves reaches every setup, and
\* Desktop's profile unless Desktop stays open.
Recovers ==
  <>[](Conns \X Parts \subseteq fresh /\ (Desk = None \/ deskFresh \/ desktop))
=============================================================================
