----------------------------- MODULE CodexThreads ------------------------------
(***************************************************************************)
(* The conversations of Codex across a Router setup (ramp_cli/commands/    *)
(* router.py, from _preexisting_codex_router_session_ids on).              *)
(*                                                                         *)
(* Codex hides a thread whose provider is not the active one.  So a        *)
(* configure tags every thread "router", in its transcript and in Codex's  *)
(* index, and keeps in its receipt what they were; an unconfigure gives    *)
(* them back and moves the threads born meanwhile to the restored          *)
(* provider.  Both run under the Codex lock, one step at a time, each of   *)
(* which may fail or be the last before the process is killed, while Codex *)
(* starts, indexes, archives and retags threads.                           *)
(***************************************************************************)
EXTENDS Naturals, FiniteSets

CONSTANTS
  Threads,
  MaxThreadFaults,   \* bound: failing steps
  MaxMoves,          \* bound: threads Codex archives, unarchives or retags
  Impatient          \* whether a configure may follow an unconfigure that failed half way

Providers == {"own", "other", "router"}
\* "unset": a transcript that names no provider; "none": there is no such thing.
Tags == Providers \cup {"unset", "none"}
Places == {"sessions", "archived_sessions"}
Entries == [tag : Tags \ {"router"}, row : Tags, place : Places]
NoEntry == [tag |-> "none", row |-> "none", place |-> "sessions"]
NoReceipt == [entries |-> [t \in Threads |-> NoEntry], preexisting |-> Threads, written |-> FALSE]
Idle == [at |-> "idle"]

ASSUME ThreadBoundsAssumption == MaxThreadFaults \in Nat /\ MaxMoves \in Nat /\ Impatient \in BOOLEAN

VARIABLES
  transcript,      \* the provider each transcript names
  place,           \* the directory it is in
  indexRow,        \* the provider its row in state_5.sqlite names
  activeProvider,  \* model_provider of config.toml
  threadReceipt,   \* the threads' part of ramp-router-state.json
  rewrite,         \* the configure or unconfigure at work
  owed,            \* what the user's threads are without Router (history)
  halfway,         \* an unconfigure has put config.toml back and is to be finished (history)
  spoiled,         \* a rollback has failed (history)
  faults, moves    \* what is left of the bounds

files == <<transcript, place, indexRow, activeProvider, threadReceipt>>
bounds == <<faults, moves>>
history == <<owed, halfway, spoiled>>
threadVars == <<files, rewrite, history, bounds>>

Exists(t) == transcript[t] # "none" \/ indexRow[t] # "none"

ThreadsInit ==
  /\ transcript \in [Threads -> Tags]
  /\ indexRow \in [Threads -> {"own", "router", "none"}]
  /\ \A t \in Threads : {transcript[t], indexRow[t]} \notin {{"other", "router"}, {"unset", "router"}}
  /\ place = [t \in Threads |-> "sessions"]
  /\ activeProvider = "own"
  /\ threadReceipt = NoReceipt
  /\ rewrite = Idle
  /\ owed = [t \in Threads |-> [tag |-> transcript[t], row |-> indexRow[t]]]
  /\ halfway = FALSE /\ spoiled = FALSE
  /\ faults = MaxThreadFaults /\ moves = MaxMoves

-----------------------------------------------------------------------------
(* What a configure finds. *)

\* _codex_transcripts: a transcript not on Router is recorded with its provider.
FromTranscripts ==
  [t \in Threads |-> IF transcript[t] \in {"none", "router"} THEN NoEntry
                     ELSE [tag |-> transcript[t], row |-> "none", place |-> place[t]]]

\* The index adds its provider, and the threads whose transcripts were not seen.
WithIndex(found) ==
  [t \in Threads |->
     IF found[t] # NoEntry THEN [found[t] EXCEPT !.row = indexRow[t]]
     ELSE IF indexRow[t] \in {"none", "router"} THEN NoEntry
     ELSE [tag |-> "none", row |-> indexRow[t], place |-> place[t]]]

OnRouter == {t \in Threads : "router" \in {transcript[t], indexRow[t]}}

\* (mutant) what is found replaces what is recorded
MergedAnew(recorded, found) ==
  [t \in Threads |-> IF found[t] = NoEntry THEN recorded[t] ELSE found[t]]

\* A recorded entry stays, unless it was made from the index alone and the
\* transcript has been found since.
Merged(recorded, found) ==
  [t \in Threads |->
     IF recorded[t] = NoEntry THEN found[t]
     ELSE IF recorded[t].tag = "none" /\ found[t].tag # "none"
          THEN [found[t] EXCEPT !.row = recorded[t].row]
          ELSE recorded[t]]

-----------------------------------------------------------------------------
(* One pass over the transcripts of the entries: first where they were      *)
(* recorded, then by name, then once more for those not found.              *)

ToRouter == {"sync", "redo"}
Passes == ToRouter \cup {"restore", "undo"}
Unread == [t \in Threads |-> "unread"]
Recorded(entries) == {t \in Threads : entries[t] # NoEntry}

Turn(step) == rewrite' = [rewrite EXCEPT !.at = step]
BeginPass(step, entries) ==
  rewrite' = [rewrite EXCEPT !.at = step, !.entries = entries, !.todo = Recorded(entries),
                             !.missed = {}, !.again = FALSE, !.names = Unread]

\* The locator's index of names is read at the first stale path.
Names == IF rewrite.names = Unread THEN place ELSE rewrite.names
Stale(t) == place[t] # rewrite.entries[t].place
Found(t) == ~Stale(t) \/ Names[t] = place[t]

\* Only a tag that is still the one expected is replaced.
Retag(t, from, to) ==
  transcript' = IF transcript[t] = from THEN [transcript EXCEPT ![t] = to] ELSE transcript

\* _rewrite_codex_session_provider for one entry; entries from the index alone
\* have no transcript to rewrite.
Visit(t) ==
  /\ rewrite.at \in Passes /\ t \in rewrite.todo
  /\ LET tag == rewrite.entries[t].tag IN
       /\ IF tag = "none" \/ ~Found(t) THEN UNCHANGED transcript
          ELSE IF rewrite.at \in ToRouter THEN Retag(t, tag, "router")
          ELSE Retag(t, "router", tag)
       /\ rewrite' = [rewrite EXCEPT
            !.todo = @ \ {t},
            !.names = IF tag # "none" /\ Stale(t) THEN Names ELSE @,
            !.missed = IF tag # "none" /\ ~Found(t) THEN @ \cup {t} ELSE @]
  /\ UNCHANGED <<place, indexRow, activeProvider, threadReceipt, history, bounds>>

\* _rewrite_codex_sessions_reconciled: a second round over what was missing.
LookAgain ==
  /\ rewrite.at \in Passes /\ rewrite.todo = {}
  /\ rewrite.missed # {} /\ ~rewrite.again
  /\ rewrite' = [rewrite EXCEPT !.todo = rewrite.missed, !.missed = {}, !.again = TRUE,
                                !.names = place]
  /\ UNCHANGED <<files, history, bounds>>

\* (mutant) what was not found is not looked for again
PassDoneOnce == rewrite.todo = {}

PassDone == rewrite.todo = {} /\ (rewrite.missed = {} \/ rewrite.again)

\* _update_codex_session_index, one transaction over the rows of the entries.
RowsToRouter(entries) ==
  [t \in Threads |->
     LET expected == IF entries[t].row # "none" THEN entries[t].row ELSE entries[t].tag IN
       IF indexRow[t] # "none" /\ indexRow[t] = expected THEN "router" ELSE indexRow[t]]

RowsRestored(entries) ==
  [t \in Threads |-> IF indexRow[t] = "router" /\ entries[t].row # "none"
                     THEN entries[t].row ELSE indexRow[t]]

-----------------------------------------------------------------------------
(* Configure: _configure_codex_in_lock, as far as it concerns threads.      *)

BeginConfigure ==
  /\ rewrite = Idle /\ (halfway => Impatient)
  /\ rewrite' = [at |-> "index", found |-> FromTranscripts, previous |-> threadReceipt,
                 provider |-> activeProvider, entries |-> NoReceipt.entries, todo |-> {},
                 missed |-> {}, again |-> FALSE, names |-> Unread]
  /\ UNCHANGED <<files, history, bounds>>

\* _record_codex_index_providers
ReadIndex ==
  /\ rewrite.at = "index"
  /\ rewrite' = [rewrite EXCEPT !.found = WithIndex(@), !.at = "receipt"]
  /\ UNCHANGED <<files, history, bounds>>

SaveReceipt ==
  /\ rewrite.at = "receipt"
  /\ threadReceipt' = [entries |-> Merged(threadReceipt.entries, rewrite.found), written |-> TRUE,
                       preexisting |-> IF threadReceipt.written THEN threadReceipt.preexisting
                                       ELSE OnRouter]
  /\ Turn("config")
  /\ UNCHANGED <<transcript, place, indexRow, activeProvider, history, bounds>>

PointAtRouter ==
  /\ rewrite.at = "config"
  /\ activeProvider' = "router"
  /\ BeginPass("sync", threadReceipt.entries)
  /\ UNCHANGED <<transcript, place, indexRow, threadReceipt, history, bounds>>

\* The rows of the entries follow their transcripts; the run is over.
SyncRows ==
  /\ rewrite.at \in {"sync", "redo"} /\ PassDone
  /\ indexRow' = RowsToRouter(rewrite.entries)
  /\ rewrite' = Idle
  /\ UNCHANGED <<transcript, place, activeProvider, threadReceipt, history, bounds>>

\* (mutant) the whole receipt is restored, not what this run has found
UndoneEntries == threadReceipt.entries

\* Only the threads this run has found can have changed.
EntriesToUndo == rewrite.found

\* A step fails: restore the threads, then the files, in this order.
FailConfigure ==
  /\ rewrite.at \in {"receipt", "config", "sync"} /\ faults > 0
  /\ faults' = faults - 1
  /\ BeginPass("undo", EntriesToUndo)
  /\ UNCHANGED <<files, history, moves>>

UndoRows ==
  /\ rewrite.at = "undo" /\ PassDone
  /\ indexRow' = RowsRestored(rewrite.entries)
  /\ Turn("undoConfig")
  /\ UNCHANGED <<transcript, place, activeProvider, threadReceipt, history, bounds>>

\* A failed undo does not replace the real cause.
FailUndo ==
  /\ rewrite.at = "undo" /\ faults > 0
  /\ faults' = faults - 1 /\ spoiled' = TRUE
  /\ Turn("undoConfig")
  /\ UNCHANGED <<files, owed, halfway, moves>>

UndoConfig ==
  /\ rewrite.at = "undoConfig"
  /\ activeProvider' = rewrite.provider
  /\ Turn("undoReceipt")
  /\ UNCHANGED <<transcript, place, indexRow, threadReceipt, history, bounds>>

UndoReceipt ==
  /\ rewrite.at = "undoReceipt"
  /\ threadReceipt' = rewrite.previous
  /\ rewrite' = Idle
  /\ UNCHANGED <<transcript, place, indexRow, activeProvider, history, bounds>>

-----------------------------------------------------------------------------
(* Unconfigure: _unconfigure_codex.                                         *)

BeginRestore ==
  /\ rewrite = Idle /\ threadReceipt.written
  /\ rewrite' = [at |-> "restore", entries |-> threadReceipt.entries,
                 todo |-> Recorded(threadReceipt.entries),
                 missed |-> {}, again |-> FALSE, names |-> Unread]
  /\ UNCHANGED <<files, history, bounds>>

RestoreRows ==
  /\ rewrite.at = "restore" /\ PassDone
  /\ indexRow' = RowsRestored(rewrite.entries)
  /\ Turn("own")
  /\ UNCHANGED <<transcript, place, activeProvider, threadReceipt, history, bounds>>

\* Until config.toml is back, a failure tags the threads for Router again ...
FailRestore ==
  /\ rewrite.at \in {"restore", "own"} /\ faults > 0
  /\ faults' = faults - 1
  /\ BeginPass("redo", rewrite.entries)
  /\ UNCHANGED <<files, history, moves>>

\* ... and one of that is ignored.
FailRedo ==
  /\ rewrite.at = "redo" /\ faults > 0
  /\ faults' = faults - 1
  /\ rewrite' = Idle
  /\ UNCHANGED <<files, history, moves>>

PointAtOwn ==
  /\ rewrite.at = "own"
  /\ activeProvider' = "own" /\ halfway' = TRUE
  /\ rewrite' = [rewrite EXCEPT !.at = "reclaim", !.todo = Threads]
  /\ UNCHANGED <<transcript, place, indexRow, threadReceipt, owed, spoiled, bounds>>

\* (mutant) every thread left on Router is reclaimed
RestoredOnly == {t \in Threads : threadReceipt.entries[t].tag # "none"}

\* Threads whose tag on Router is not the setup's to change.
Protected == threadReceipt.preexisting \cup {t \in Threads : threadReceipt.entries[t].tag # "none"}

\* _reclaim_codex_router_sessions: a thread born on Router moves to the restored
\* provider, or with its row, if the receipt has one.
Reclaim(t) ==
  /\ rewrite.at = "reclaim" /\ t \in rewrite.todo
  /\ LET row == rewrite.entries[t].row IN
       IF t \in Protected THEN UNCHANGED transcript
       ELSE Retag(t, "router", IF row = "none" THEN "own" ELSE row)
  /\ rewrite' = [rewrite EXCEPT !.todo = @ \ {t}]
  /\ UNCHANGED <<place, indexRow, activeProvider, threadReceipt, history, bounds>>

\* _reclaim_codex_index_rows
ReclaimRows ==
  /\ rewrite.at = "reclaim" /\ rewrite.todo = {}
  /\ indexRow' = [t \in Threads |-> IF indexRow[t] = "router" /\ t \notin Protected
                                    THEN "own" ELSE indexRow[t]]
  /\ Turn("remove")
  /\ UNCHANGED <<transcript, place, activeProvider, threadReceipt, history, bounds>>

\* The receipt goes last: what fails here can be tried again.
FailReclaim ==
  /\ rewrite.at \in {"reclaim", "remove"} /\ faults > 0
  /\ faults' = faults - 1
  /\ rewrite' = Idle
  /\ UNCHANGED <<files, history, moves>>

RemoveReceipt ==
  /\ rewrite.at = "remove"
  /\ threadReceipt' = NoReceipt /\ halfway' = FALSE
  /\ rewrite' = Idle
  /\ UNCHANGED <<transcript, place, indexRow, activeProvider, owed, spoiled, bounds>>

KillRewrite ==
  /\ rewrite # Idle
  /\ rewrite' = Idle
  /\ UNCHANGED <<files, history, bounds>>

-----------------------------------------------------------------------------
(* Codex and its user.                                                      *)

\* A thread begins under the active provider; without Router it is one's own.
\* (Not in the moment of a configure that may yet be undone: see the README.)
StartThread(t) ==
  /\ ~Exists(t) /\ rewrite.at \notin {"sync", "undo", "undoConfig"}
  /\ transcript' = [transcript EXCEPT ![t] = activeProvider]
  /\ \E row \in {activeProvider, "none"} :
       /\ indexRow' = [indexRow EXCEPT ![t] = row]
       /\ owed' = [owed EXCEPT ![t] = [tag |-> "own", row |-> IF row = "none" THEN row ELSE "own"]]
  /\ UNCHANGED <<place, activeProvider, threadReceipt, rewrite, halfway, spoiled, bounds>>

\* Codex archives a thread, or takes it out of the archive.
Archive(t) ==
  /\ transcript[t] # "none" /\ moves > 0
  /\ moves' = moves - 1
  /\ \E p \in Places \ {place[t]} : place' = [place EXCEPT ![t] = p]
  /\ UNCHANGED <<transcript, indexRow, activeProvider, threadReceipt, rewrite, history, faults>>

\* A thread is continued with another provider, which is the user's choice
\* (bound: once, and not where a thread is archived).
ChooseProvider(t) ==
  /\ "none" \notin {transcript[t], indexRow[t]} /\ moves = MaxMoves
  /\ moves' = 0
  /\ transcript' = [transcript EXCEPT ![t] = "other"]
  /\ indexRow' = [indexRow EXCEPT ![t] = "other"]
  /\ owed' = [owed EXCEPT ![t] = [tag |-> "other", row |-> "other"]]
  /\ UNCHANGED <<place, activeProvider, threadReceipt, rewrite, halfway, spoiled, faults>>

ThreadsNext ==
  \/ BeginConfigure \/ ReadIndex \/ SaveReceipt \/ PointAtRouter \/ SyncRows
  \/ FailConfigure \/ UndoRows \/ FailUndo \/ UndoConfig \/ UndoReceipt
  \/ BeginRestore \/ RestoreRows \/ FailRestore \/ FailRedo \/ PointAtOwn
  \/ ReclaimRows \/ FailReclaim \/ RemoveReceipt \/ KillRewrite \/ LookAgain
  \/ \E t \in Threads : Visit(t) \/ Reclaim(t) \/ StartThread(t) \/ Archive(t) \/ ChooseProvider(t)

ThreadsSpec == ThreadsInit /\ [][ThreadsNext]_threadVars

-----------------------------------------------------------------------------

ThreadTypes ==
  /\ transcript \in [Threads -> Tags] /\ indexRow \in [Threads -> Tags]
  /\ threadReceipt.entries \in [Threads -> Entries]
  /\ activeProvider \in Providers

\* Once no receipt is left, by an unconfigure or by a configure undone, every
\* thread is what it is without Router: those of before have their own provider
\* back, those born on Router the restored one, and one the user has moved
\* stays where it was put.  (_unconfigure_codex, _configure_codex_in_lock)
ThreadsComeBack ==
  rewrite = Idle /\ ~threadReceipt.written /\ ~spoiled =>
    \A t \in Threads : transcript[t] = owed[t].tag /\ indexRow[t] = owed[t].row

Shown(t) == owed[t].tag = "other" \/ {transcript'[t], indexRow'[t]} \subseteq {"router", "none"}

\* Codex hides a thread that is not on the active provider.  A configure that ends
\* has put every thread whose transcript it knows on Router, though Codex may have
\* archived one meanwhile; one that is undone over an earlier setup leaves the
\* threads of that setup there.  The user's own choices stand.
\* (_sync_codex_sessions, and the except branch of _configure_codex_in_lock)
ThreadsAreShown ==
  [][/\ rewrite.at = "sync" /\ SyncRows =>
          \A t \in Threads : threadReceipt.entries[t].tag # "none" => Shown(t)
     /\ UndoReceipt /\ rewrite.previous.written /\ ~spoiled =>
          \A t \in Threads : rewrite.previous.entries[t].tag # "none"
                              /\ rewrite.found[t] = NoEntry => Shown(t)]_threadVars
=============================================================================
