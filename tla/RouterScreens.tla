----------------------------- MODULE RouterScreens -----------------------------
(***************************************************************************)
(* The event loop of the Router app (router_ui/app.py) over the read cache *)
(* of ReadCache: screens that load, change and reload Router's data in     *)
(* worker threads, while other programs change Router and sign this        *)
(* computer in to another account.                                         *)
(*                                                                         *)
(* A screen is named by the read it shows.  The account rows belong to is  *)
(* that of the world they were read from: switches holds the worlds a sign *)
(* in or out made.  The event loop runs one action at a time; between the  *)
(* start of an operation and its FinishJob, its thread and everything else *)
(* interleave.                                                             *)
(***************************************************************************)
EXTENDS ReadCache

CONSTANTS
  Homes,            \* the screens kept through an account change (AccountPage)
  Accounts,         \* accounts signed in to before the first one comes back
  MaxChanges        \* bound: changes made in the app

ASSUME HomesAssumption == Homes \subseteq Keys /\ Accounts \in Nat \ {0}

\* An operation of a screen: what it is, the account and generation it started
\* in, what its thread has left to do, and whether its screen still waits for it.
Jobs ==
  [kind : {"load", "reload", "change", "unseen"}, page : Keys, account : Nat,
   generation : Nat, todo : {"read", "change", "done"}, here : BOOLEAN]

ASSUME JobsAssumption == Nothing \notin Jobs /\ MaxChanges \in Nat

VARIABLES
  switches,         \* history: the worlds made by a sign in or out
  landed,           \* history: world when the last change of the app returned
  account,          \* the account on screen (app.account)
  generation,       \* app.generation: bumped by every change
  busy,             \* a change is running
  inView,          \* the screen in view
  mounting,         \* it was rebuilt, and loads once it is mounted
  shown,            \* the world whose rows each screen shows
  applied,          \* page.applied_generation
  \* The operation each worker thread runs.  load: a plain read.  reload: a change
  \* folded into the read that follows it.  change: a change alone.  unseen: a
  \* preload, or a read whose screen asked again meanwhile; its thread runs on, its
  \* result goes nowhere.
  job

screenVars == <<account, generation, busy, inView, mounting, shown, applied>>
appVars == <<switches, landed, screenVars, job>>
allVars == <<readVars, appVars>>

AccountOf(made, w) == Cardinality({s \in made : s <= w}) % Accounts
AccountAt(w) == AccountOf(switches, w)
Now == AccountAt(world)

ScreensInit ==
  /\ CacheInit
  /\ switches = {}
  /\ landed = 0
  /\ account = 0
  /\ generation = 0
  /\ busy = FALSE
  /\ inView \in Homes
  /\ mounting = TRUE
  /\ shown = [p \in Keys |-> Nothing]
  /\ applied = [p \in Keys |-> Nothing]
  /\ job = [t \in Threads |-> Nothing]

Free(t) == job[t] = Nothing /\ stage[t] = "idle"

Unseen(p, todo) ==
  [kind |-> "unseen", page |-> p, account |-> 0, generation |-> 0,
   todo |-> todo, here |-> FALSE]

\* Worker t takes an operation of page p.  A read supersedes the plain read
\* this screen has in flight.
Take(t, p, kind, todo, gen) ==
  job' = [u \in Threads |->
    IF u = t
    THEN [kind |-> kind, page |-> p, account |-> Now,
          generation |-> gen, todo |-> todo, here |-> TRUE]
    ELSE IF /\ job[u] # Nothing /\ job[u].kind = "load" /\ job[u].page = p
            /\ job[u].here /\ kind # "change"
    THEN Unseen(p, job[u].todo)
    ELSE job[u]]

\* Before a read, the cache is cleared if the login is not the one on screen.
ClearForeign == IF Now # account THEN Invalidate ELSE UNCHANGED cacheVars

-----------------------------------------------------------------------------
(* What the person does *)

\* A plain read of the screen; refused while a change runs.
LoadPage(t, p) ==
  /\ ~busy /\ Free(t)
  /\ Take(t, p, "load", "read", generation)
  /\ ClearForeign

\* A tab is opened: its screen loads, behind what it shows if it is kept.
OpenTab(t, p) ==
  /\ ~mounting
  /\ LoadPage(t, p)
  /\ inView' = p
  /\ UNCHANGED <<world, threadVars, switches, landed, account, generation, busy,
                 mounting, shown, applied>>

\* A new screen loads when it is mounted; a change that runs refuses the load.
Mounted(t) ==
  /\ mounting
  /\ mounting' = FALSE
  /\ \/ LoadPage(t, inView)
     \/ busy /\ UNCHANGED <<job, cacheVars>>
  /\ UNCHANGED <<world, threadVars, switches, landed, account, generation, busy,
                 inView, shown, applied>>

\* r: fresh data, whatever the cache holds.
AskAgain(t) ==
  /\ ~busy /\ Free(t) /\ ~mounting
  /\ Take(t, inView, "load", "read", generation)
  /\ Invalidate
  /\ UNCHANGED <<world, threadVars, switches, landed, screenVars>>

\* A change from the screen in view, alone or folded into the screen's reload.
StartChange(t, kind) ==
  /\ ~busy /\ Free(t) /\ ~mounting
  /\ generation < MaxChanges
  /\ generation' = generation + 1
  /\ busy' = TRUE
  /\ Take(t, inView, kind, "change", generation')
  /\ IF kind = "reload" THEN ClearForeign ELSE UNCHANGED cacheVars
  /\ UNCHANGED <<world, threadVars, switches, landed, account, inView, mounting,
                 shown, applied>>

\* Home has its data: the reads of the other tabs are preloaded.
Preload(t, p) ==
  /\ Free(t) /\ p \notin Homes
  /\ \E h \in Homes : shown[h] # Nothing
  /\ job' = [job EXCEPT ![t] = Unseen(p, "read")]
  /\ UNCHANGED <<readVars, switches, landed, screenVars>>

-----------------------------------------------------------------------------
(* Worker threads *)

Does(t, todo) == job[t] # Nothing /\ job[t].todo = todo

\* The operation of a thread: its change, then its read.
WorkerAsks(t) ==
  /\ Does(t, "read")
  /\ Ask(t, job[t].page)
  /\ job' = [job EXCEPT ![t].todo = "done"]
  /\ UNCHANGED <<switches, landed, screenVars>>

WorkerBegins(t) ==
  /\ Does(t, "change")
  /\ BeginChange(t)
  /\ UNCHANGED appVars

\* The change may be a sign in or out.
WorkerWrites(t) ==
  /\ Write(t)
  /\ \/ UNCHANGED switches
     \/ world' # world /\ switches' = switches \cup {world'}
  /\ UNCHANGED <<landed, screenVars, job>>

WorkerEnds(t) ==
  /\ EndChange(t)
  /\ job' = [job EXCEPT ![t].todo = IF job[t].kind = "reload" THEN "read"
                                    ELSE "done"]
  /\ landed' = world
  /\ UNCHANGED <<switches, screenVars>>

WorkerReads(t) ==
  /\ \/ Hit(t) \/ Own(t) \/ Join(t) \/ Fetch(t) \/ StoreAnswer(t) \/ Drop(t)
     \/ Deliver(t) \/ Raise(t)
  /\ UNCHANGED appVars

\* Nobody looks at this result any more.
EndUnseen(t) ==
  /\ job[t] # Nothing /\ job[t].kind = "unseen"
  /\ Return(t)
  /\ job' = [job EXCEPT ![t] = Nothing]
  /\ UNCHANGED <<switches, landed, screenVars>>

-----------------------------------------------------------------------------
(* perform: the result of an operation reaches the event loop *)

Ended(t) ==
  /\ Does(t, "done") /\ job[t].kind # "unseen"
  /\ IF job[t].kind = "change" THEN stage[t] = "idle"
                               ELSE stage[t] \in {"answered", "failed"}

\* (mutant) only the account is compared
StaleByAccount(t) ==
  job[t].kind # "change" /\ job[t].account # Now

\* Started before a change, or for another account: never shown.
Stale(t) ==
  /\ job[t].kind # "change"
  /\ job[t].account # Now \/ job[t].generation # generation

\* The screens an account change drops.
Dropped == IF Now # account THEN Keys \ Homes ELSE {}

\* (mutant) the cache is not cleared with the screens
AccountChangedKept ==
  /\ account' = Now
  /\ UNCHANGED cacheVars

\* The login on disk is not the one on screen: the cache is cleared, and the
\* screens holding the rows of the previous account are dropped.
AccountChanged ==
  /\ account' = Now
  /\ IF Now # account THEN Invalidate ELSE UNCHANGED cacheVars

Live(t) == job[t].here /\ job[t].page \notin Dropped

\* The rows a screen shows once the operation of t is done: Home's load never
\* fails, it shows the session alone.
Rows(t) ==
  LET p == job[t].page
  IN  IF job[t].kind = "change" THEN shown[p]
      ELSE IF stage[t] = "answered" THEN value[t]
      ELSE IF p \in Homes THEN Nothing
      ELSE shown[p]

\* Whether the screen loads again: a read that was stale does unless something
\* newer has landed; a change made alone may end with a load, or an error.
LoadsAgain(t) ==
  LET p == job[t].page
  IN  IF job[t].kind = "change" THEN {FALSE, Live(t)}
      ELSE {/\ Stale(t) /\ Live(t)
            /\ busy => job[t].kind # "load"
            /\ applied[p] = Nothing \/ applied[p] < generation}

\* A change that runs outlasts the reads that end meanwhile.
StaysBusy(t) == busy /\ job[t].kind = "load"

FinishJob(t) ==
  LET p == job[t].page
      applies == Live(t) /\ ~Stale(t)
  IN  /\ Ended(t)
      /\ AccountChanged
      /\ busy' = StaysBusy(t)
      /\ shown' = [q \in Keys |->
           IF q \in Dropped THEN Nothing
           ELSE IF q = p /\ applies THEN Rows(t) ELSE shown[q]]
      /\ applied' = [q \in Keys |->
           IF q \in Dropped THEN Nothing
           ELSE IF q = p /\ applies THEN job[t].generation ELSE applied[q]]
      /\ mounting' = (mounting \/ inView \in Dropped)
      /\ \E again \in LoadsAgain(t) :
           job' = [u \in Threads |->
             IF u = t
             THEN IF ~again THEN Nothing
                  ELSE [job[t] EXCEPT !.kind = "load", !.account = Now,
                          !.generation = generation, !.todo = "read"]
             ELSE IF job[u] # Nothing /\ job[u].page \in Dropped
             THEN [job[u] EXCEPT !.here = FALSE]
             ELSE job[u]]
      /\ stage' = [stage EXCEPT ![t] = "idle"]
      /\ Forget(t)
      /\ UNCHANGED <<world, changing, switches, landed, generation, inView>>

-----------------------------------------------------------------------------
(* Other programs, and time *)

\* Router changes elsewhere, or another program signs this computer in or out.
Outside ==
  /\ ChangedElsewhere
  /\ \/ UNCHANGED switches
     \/ switches' = switches \cup {world'}
  /\ UNCHANGED <<landed, screenVars, job>>

Timer == \E k \in Keys : Expire(k) /\ UNCHANGED appVars

ScreensNext ==
  \/ \E t \in Threads :
       \/ Mounted(t) \/ AskAgain(t)
       \/ StartChange(t, "reload") \/ StartChange(t, "change")
       \/ WorkerAsks(t) \/ WorkerBegins(t) \/ WorkerWrites(t) \/ WorkerEnds(t)
       \/ WorkerReads(t) \/ EndUnseen(t) \/ FinishJob(t)
  \/ \E t \in Threads, p \in Keys : OpenTab(t, p) \/ Preload(t, p)
  \/ Outside \/ Timer

ScreensSpec == ScreensInit /\ [][ScreensNext]_allVars

-----------------------------------------------------------------------------
(* Properties *)

\* A tab never shows the rows of an account other than the one on screen, even
\* when the login changes while its read, its reload or a preload is out.
TabRowsAreOwn ==
  \A p \in Keys \ Homes : shown[p] # Nothing => AccountAt(shown[p]) = account

\* The same of the screen in view, Home included, once nothing is loading.
RowsInViewAreOwn ==
  (/\ shown[inView] # Nothing /\ ~busy
   /\ \A t \in Threads : job[t] # Nothing => job[t].page # inView)
    => AccountAt(shown[inView]) = account

\* Rows replace those on a screen only with what Router held when the last
\* change made in the app returned, or later: a read that started before a
\* change never covers what the reload of the change shows.
ChangesStayShown ==
  [][\A p \in Keys :
       shown'[p] # shown[p] /\ shown'[p] # Nothing => shown'[p] >= landed]_allVars

-----------------------------------------------------------------------------
(* Why they hold: an invariant that every step keeps, next to that of the   *)
(* read cache.                                                              *)

ScreensTypeOK ==
  /\ world <= MaxWorld /\ switches \subseteq 1..world
  /\ landed \in Nat /\ generation \in Nat /\ account \in Nat
  /\ busy \in BOOLEAN /\ inView \in Keys
  /\ shown \in [Keys -> Nat \cup {Nothing}]
  /\ \A p \in Keys : shown[p] # Nothing => shown[p] <= world
  /\ job \in [Threads -> Jobs \cup {Nothing}]

Reader(t) == job[t] # Nothing /\ job[t].kind \in {"load", "reload"}
Changer(t) == job[t] # Nothing /\ job[t].kind \in {"reload", "change"}

\* One change runs at a time, and no read of the present generation beside it.
ChangersInv ==
  /\ \A t \in Threads :
       /\ stage[t] \in {"validated", "written"} => Changer(t) /\ job[t].todo = "change"
       /\ changing[t] => stage[t] \in {"validated", "written"}
       /\ job[t] # Nothing /\ job[t].todo = "change" => Changer(t)
       /\ Changer(t) => busy
       /\ job[t] # Nothing => job[t].generation <= generation
       /\ busy /\ job[t] # Nothing /\ job[t].kind = "load" => job[t].generation # generation
  /\ \A t, u \in Threads : Changer(t) /\ Changer(u) => t = u

\* A read of the present generation was asked after the last change returned.
LandedInv ==
  /\ landed <= floor
  /\ \A t \in Threads :
       Reader(t) /\ job[t].todo = "done" /\ job[t].generation = generation => landed <= due[t]

\* A read is owed rows of the account it was started for, or of a later one.
AccountsInv ==
  /\ account <= AccountAt(floor)
  /\ \A t \in Threads : Reader(t) =>
       /\ job[t].account <= AccountAt(floor)
       /\ job[t].todo = "done" => job[t].account <= AccountAt(due[t])

ScreensInv == CacheInv /\ ScreensTypeOK /\ ChangersInv /\ LandedInv
OwnInv == ScreensInv /\ AccountsInv /\ TabRowsAreOwn

=============================================================================
