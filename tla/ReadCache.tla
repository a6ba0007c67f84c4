------------------------------- MODULE ReadCache -------------------------------
(***************************************************************************)
(* The read cache of the Router app (router_ui/cache.py): every read of    *)
(* every tab goes through ReadCache.get, every write through @mutation.    *)
(*                                                                         *)
(* Threads call get and the mutations concurrently: one worker thread per  *)
(* page load, one per preload, one per change.  The cache's lock makes the *)
(* lookup and the store atomic, and nothing else: the request itself, and  *)
(* the hand-over of its answer to the threads that joined it, run outside. *)
(*                                                                         *)
(* What Router holds is a number, world, that grows with every change made *)
(* through this app or from elsewhere; an answer is the world a request    *)
(* saw.  The code counts generations and compares one counter with a copy  *)
(* taken at the lookup; what it learns is whether an invalidation came     *)
(* between, and that is what current[t] says of the request of thread t.   *)
(* floor is a history variable: the world at the last invalidation.        *)
(***************************************************************************)
EXTENDS Naturals, FiniteSets

CONSTANTS
  Threads,          \* worker threads of the app
  Keys,             \* reads, each named by its method and arguments
  Nothing,          \* no entry, no request to wait for
  MaxWorld          \* bound: changes made at Router

ASSUME NothingAssumption == Nothing \notin Threads \cup Keys \cup Nat
ASSUME WorldAssumption == MaxWorld \in Nat

VARIABLES
  world,            \* what Router holds now
  entries,          \* _entries: the answers kept, by key
  inFlight,         \* _in_flight: the threads whose request is registered
  floor,            \* history: world at the last invalidation
  stage,            \* what each thread is doing
  key,              \* the read it asked for (forgotten, like what follows, on return)
  current,          \* its request is of the present generation
  joined,           \* whose request it waits for
  value,            \* the answer it has
  due,              \* history: floor when it asked
  changing          \* the thread is inside a @mutation

cacheVars == <<entries, inFlight, current, floor>>
callVars == <<key, joined, value, due>>
threadVars == <<stage, callVars, changing>>
readVars == <<world, cacheVars, threadVars>>

ReadStages == {"idle", "asked", "reading", "read", "broken", "kept", "dropped",
               "waiting", "answered", "failed", "validated", "written"}

CacheInit ==
  /\ world = 0
  /\ entries = [k \in Keys |-> Nothing]
  /\ inFlight = {}
  /\ floor = 0
  /\ stage = [t \in Threads |-> "idle"]
  /\ key = [t \in Threads |-> Nothing]
  /\ current = [t \in Threads |-> FALSE]
  /\ joined = [t \in Threads |-> Nothing]
  /\ value = [t \in Threads |-> 0]
  /\ due = [t \in Threads |-> 0]
  /\ changing = [t \in Threads |-> FALSE]

-----------------------------------------------------------------------------
(* ReadCache.get *)

\* A caller asks for a read, by itself or to validate a change it is making.
Ask(t, k) ==
  /\ stage[t] = "idle"
  /\ stage' = [stage EXCEPT ![t] = "asked"]
  /\ key' = [key EXCEPT ![t] = k]
  /\ due' = [due EXCEPT ![t] = floor]
  /\ UNCHANGED <<world, cacheVars, joined, value, changing>>

\* Under the lock: an entry that has not expired answers at once.
Hit(t) ==
  /\ stage[t] = "asked"
  /\ entries[key[t]] # Nothing
  /\ stage' = [stage EXCEPT ![t] = "answered"]
  /\ value' = [value EXCEPT ![t] = entries[key[t]]]
  /\ UNCHANGED <<world, cacheVars, key, joined, due, changing>>

Joinable(t) == {u \in inFlight : current[u] /\ key[u] = key[t]}

\* Under the lock: no request of this generation to join, so this caller
\* makes one that others may join.
Own(t) ==
  /\ stage[t] = "asked"
  /\ entries[key[t]] = Nothing
  /\ Joinable(t) = {}
  /\ inFlight' = inFlight \cup {t}
  /\ current' = [current EXCEPT ![t] = TRUE]
  /\ stage' = [stage EXCEPT ![t] = "reading"]
  /\ UNCHANGED <<world, entries, floor, callVars, changing>>

\* Under the lock: a request of this generation is out; wait for its answer.
Join(t) ==
  /\ stage[t] = "asked"
  /\ entries[key[t]] = Nothing
  /\ \E u \in Joinable(t) : joined' = [joined EXCEPT ![t] = u]
  /\ stage' = [stage EXCEPT ![t] = "waiting"]
  /\ UNCHANGED <<world, cacheVars, key, value, due, changing>>

\* Router answers the request with what it holds now, or the request fails.
Fetch(t) ==
  /\ stage[t] = "reading"
  /\ \/ /\ stage' = [stage EXCEPT ![t] = "read"]
        /\ value' = [value EXCEPT ![t] = world]
     \/ /\ stage' = [stage EXCEPT ![t] = "broken"]
        /\ UNCHANGED value
  /\ UNCHANGED <<world, cacheVars, key, joined, due, changing>>

\* Under the lock: no one joins this request any more.
Pop(t) ==
  /\ inFlight' = inFlight \ {t}
  /\ current' = [current EXCEPT ![t] = FALSE]

\* (mutant) the answer is kept although a write overlapped the request.
StoreAlways(t) ==
  /\ stage[t] = "read"
  /\ Pop(t)
  /\ entries' = [entries EXCEPT ![key[t]] = value[t]]
  /\ stage' = [stage EXCEPT ![t] = "kept"]
  /\ UNCHANGED <<world, floor, callVars, changing>>

\* Under the lock: the answer is kept unless a write overlapped the request.
StoreAnswer(t) ==
  /\ stage[t] = "read"
  /\ Pop(t)
  /\ entries' = IF current[t]
                THEN [entries EXCEPT ![key[t]] = value[t]]
                ELSE entries
  /\ stage' = [stage EXCEPT ![t] = "kept"]
  /\ UNCHANGED <<world, floor, callVars, changing>>

\* Under the lock: a failure is never kept.
Drop(t) ==
  /\ stage[t] = "broken"
  /\ Pop(t)
  /\ stage' = [stage EXCEPT ![t] = "dropped"]
  /\ UNCHANGED <<world, entries, floor, callVars, changing>>

WaitingFor(t) == {u \in Threads : stage[u] = "waiting" /\ joined[u] = t}

\* set_result: the answer reaches every caller that joined.
Deliver(t) ==
  /\ stage[t] = "kept"
  /\ stage' = [u \in Threads |->
              IF u = t \/ u \in WaitingFor(t) THEN "answered" ELSE stage[u]]
  /\ value' = [u \in Threads |->
                 IF u \in WaitingFor(t) THEN value[t] ELSE value[u]]
  /\ UNCHANGED <<world, cacheVars, key, joined, due, changing>>

\* (mutant) the failure is raised for the caller that made the request only.
RaiseAlone(t) ==
  /\ stage[t] = "dropped"
  /\ stage' = [stage EXCEPT ![t] = "failed"]
  /\ UNCHANGED <<world, cacheVars, callVars, changing>>

\* set_exception: so does the failure.
Raise(t) ==
  /\ stage[t] = "dropped"
  /\ stage' = [u \in Threads |->
              IF u = t \/ u \in WaitingFor(t) THEN "failed" ELSE stage[u]]
  /\ UNCHANGED <<world, cacheVars, callVars, changing>>

\* An entry outlives its time.
Expire(k) ==
  /\ entries[k] # Nothing
  /\ entries' = [entries EXCEPT ![k] = Nothing]
  /\ UNCHANGED <<world, inFlight, current, floor, threadVars>>

-----------------------------------------------------------------------------
(* invalidate and @mutation *)

\* The cache is emptied and a new generation starts.
Invalidate ==
  /\ entries' = [k \in Keys |-> Nothing]
  /\ current' = [t \in Threads |-> FALSE]
  /\ floor' = world
  /\ UNCHANGED inFlight

\* A reload asked for by the person, or an account change the app noticed.
ReloadAll == Invalidate /\ UNCHANGED <<world, threadVars>>

\* A mutation starts by clearing everything, so that what it validates
\* against is fresh.  It first reads k, or writes at once.
BeginChange(t) ==
  /\ stage[t] = "idle" /\ ~changing[t]
  /\ Invalidate
  /\ changing' = [changing EXCEPT ![t] = TRUE]
  /\ stage' = [stage EXCEPT ![t] = "validated"]
  /\ UNCHANGED <<world, callVars>>

Validate(t, k) ==
  /\ stage[t] = "validated"
  /\ stage' = [stage EXCEPT ![t] = "asked"]
  /\ key' = [key EXCEPT ![t] = k]
  /\ due' = [due EXCEPT ![t] = floor]
  /\ UNCHANGED <<world, cacheVars, joined, value, changing>>

\* A caller that has returned holds nothing of its read.
Forget(t) ==
  /\ key' = [key EXCEPT ![t] = Nothing]
  /\ joined' = [joined EXCEPT ![t] = Nothing]
  /\ value' = [value EXCEPT ![t] = 0]
  /\ due' = [due EXCEPT ![t] = 0]

\* The caller has its answer or its failure.  Inside a change the answer lets
\* it write; a failure ends it, through the finally clause.
Return(t) ==
  /\ stage[t] \in {"answered", "failed"}
  /\ stage' = [stage EXCEPT ![t] = IF ~changing[t] THEN "idle"
                             ELSE IF stage[t] = "answered" THEN "validated"
                             ELSE "written"]
  /\ Forget(t)
  /\ UNCHANGED <<world, cacheVars, changing>>

\* The request of the change: Router applies it, or it fails.
Write(t) ==
  /\ stage[t] = "validated"
  /\ \/ world < MaxWorld /\ world' = world + 1
     \/ UNCHANGED world
  /\ stage' = [stage EXCEPT ![t] = "written"]
  /\ UNCHANGED <<cacheVars, callVars, changing>>

\* finally: whatever became of the change, nothing stale stays behind.
EndChange(t) ==
  /\ stage[t] = "written"
  /\ Invalidate
  /\ changing' = [changing EXCEPT ![t] = FALSE]
  /\ stage' = [stage EXCEPT ![t] = "idle"]
  /\ UNCHANGED <<world, callVars>>

\* Another computer, or a request that had timed out here, changes Router.
ChangedElsewhere ==
  /\ world < MaxWorld
  /\ world' = world + 1
  /\ UNCHANGED <<cacheVars, threadVars>>

-----------------------------------------------------------------------------

Step(t) ==
  \/ Hit(t) \/ Own(t) \/ Join(t) \/ Fetch(t) \/ StoreAnswer(t) \/ Drop(t)
  \/ Deliver(t) \/ Raise(t) \/ Return(t)

CacheNext ==
  \/ \E t \in Threads : Step(t) \/ BeginChange(t) \/ Write(t) \/ EndChange(t)
  \/ \E t \in Threads, k \in Keys : Ask(t, k) \/ Validate(t, k)
  \/ \E k \in Keys : Expire(k)
  \/ ReloadAll \/ ChangedElsewhere

CacheSpec == CacheInit /\ [][CacheNext]_readVars

\* A request ends by itself: every request of the service carries a timeout,
\* and a thread that is not waiting for another runs on.
CacheFairSpec == CacheSpec /\ \A t \in Threads : WF_readVars(Step(t))

-----------------------------------------------------------------------------
(* Properties *)

CacheTypeOK ==
  /\ world \in Nat
  /\ entries \in [Keys -> Nat \cup {Nothing}]
  /\ inFlight \subseteq Threads
  /\ current \in [Threads -> BOOLEAN]
  /\ floor \in Nat
  /\ stage \in [Threads -> ReadStages]
  /\ key \in [Threads -> Keys \cup {Nothing}]
  /\ joined \in [Threads -> Threads \cup {Nothing}]
  /\ value \in [Threads -> Nat]
  /\ due \in [Threads -> Nat]
  /\ changing \in [Threads -> BOOLEAN]

\* No caller is answered with less than Router held when the cache was last
\* cleared before it asked: after a change returns, nobody sees the state from
\* before it, and a change validates against what Router held when it began.
ReadsAreFresh ==
  \A t \in Threads : stage[t] = "answered" => value[t] >= due[t]

\* "Concurrent callers asking for the same read share one request": of one read,
\* one request of the present generation is out.
OneRequest ==
  \A t, u \in Threads :
    current[t] /\ current[u] /\ key[t] = key[u] => t = u

\* Nothing kept is older than the last invalidation.
EntriesInv ==
  /\ floor <= world
  /\ \A k \in Keys : entries[k] # Nothing => entries[k] \in floor..world

\* The requests registered are those that are out, each for a key; only they
\* can be of the present generation.
FlightsInv ==
  /\ \A t \in Threads :
       t \in inFlight <=> stage[t] \in {"reading", "read", "broken"}
  /\ \A t \in Threads :
       stage[t] \in {"asked", "reading", "read", "broken"} => key[t] \in Keys
  /\ \A t \in Threads : current[t] => t \in inFlight

\* An answer is as fresh as its reader is owed, and, while its request is of the
\* present generation, as any caller is owed.
ValuesInv ==
  \A t \in Threads :
    /\ due[t] <= floor
    /\ stage[t] \in {"read", "kept", "answered"} => value[t] \in due[t]..world
    /\ stage[t] = "read" /\ current[t] => value[t] >= floor

\* A caller waits for a request that is out and will not answer with less than
\* the caller is owed.
WaitersInv ==
  \A t \in Threads : stage[t] = "waiting" =>
    /\ joined[t] \in Threads
    /\ stage[joined[t]] \in {"reading", "read", "broken", "kept", "dropped"}
    /\ stage[joined[t]] \in {"read", "kept"} => value[joined[t]] >= due[t]

CacheInv ==
  /\ CacheTypeOK /\ EntriesInv /\ FlightsInv /\ ValuesInv /\ WaitersInv /\ OneRequest

\* Every read ends, for its owner and for everyone who joined it.
ReadsEnd ==
  \A t \in Threads : stage[t] = "asked" ~> stage[t] \in {"idle", "validated", "written"}

=============================================================================
