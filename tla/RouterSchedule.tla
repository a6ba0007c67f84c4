---------------------------- MODULE RouterSchedule ----------------------------
(***************************************************************************)
(* Background sync of one user on macOS: the saved choice (two marker      *)
(* files), the service that runs it (the native agent, or the plain        *)
(* scheduled job of installs without it), and the processes that install,  *)
(* remove and run it under two file locks.  Translated from                *)
(* commands/router_schedule.py and its callers in commands/router.py.      *)
(***************************************************************************)
EXTENDS Naturals, FiniteSets

CONSTANTS
  Terminals,   \* commands a person runs
  Runs,        \* background runs: of the job, of the agent, of a session hook
  Ops,         \* what the terminals do, a subset of Commands
  Killed,      \* whether their commands may be killed
  None

Commands == {"enable", "disable", "uninstall", "refresh", "optout",
             "tag", "untag", "tagoptout"}

BackgroundRuns == {"job", "agent", "hook"}

ASSUME RunsAssumption == Runs \subseteq BackgroundRuns
ASSUME OpsAssumption == Ops \subseteq Commands
ASSUME KilledAssumption == Killed \in BOOLEAN
ASSUME ProcsAssumption ==
  Terminals \cap BackgroundRuns = {} /\ None \notin Terminals \cup BackgroundRuns

VARIABLES
  enabled,     \* router-background-enabled: the person's choice
  optedOut,    \* router-sync-opted-out: stops ticks that find it
  listening,   \* the saved tagging settings ask the agent to listen
  bundled,     \* this install ships the agent
  agent, job,  \* the two services, as launchd has them
  sync,        \* holder of router-sync.lock, held by a whole refresh
  sched,       \* holder of router-schedule.lock, held to install and remove
  pc, op       \* where each process is, and in what command

markers == <<enabled, optedOut>>
vars == <<markers, listening, bundled, agent, job, sync, sched, pc, op>>

Procs == Terminals \cup Runs

PC == {"idle", "mark", "install", "installWait", "service", "migrate", "bootstrap",
       "remove", "removeFree", "removeBusy", "uninstall", "uninstallAgent",
       "update", "tick", "tickRemove", "sync", "write"}

TypeOK ==
  /\ enabled \in BOOLEAN /\ optedOut \in BOOLEAN
  /\ listening \in BOOLEAN /\ bundled \in BOOLEAN
  /\ agent \in {"none", "stopped", "running"}
  /\ job \in {"none", "unloaded", "loaded"}
  /\ sync \in Procs \cup {None} /\ sched \in Procs \cup {None}
  /\ pc \in [Procs -> PC]
  /\ op \in [Procs -> Ops \cup {"none", "sync"}]

Init ==
  /\ enabled = FALSE /\ optedOut = FALSE /\ listening = FALSE
  /\ bundled \in BOOLEAN
  /\ agent = "none" /\ job = "none"
  /\ sync = None /\ sched = None
  /\ pc = [p \in Procs |-> "idle"]
  /\ op = [p \in Procs |-> "none"]

Background == enabled /\ ~optedOut

\* RAMP_ROUTER_SYNC_SCHEDULED is set: a background run, not a person's command.
Scheduled(p) == p \in Runs

\* _remove's arguments, by the command that led to it.
OptsOut(p) == op[p] # "uninstall"
OnlyIfDisabled(p) == op[p] \in {"refresh", "enable", "sync"}

-----------------------------------------------------------------------------
(* Process steps: GoTo moves on, Finish ends the command and its locks.    *)

GoTo(p, where) == pc' = [pc EXCEPT ![p] = where] /\ UNCHANGED op

Unlocked(holder, gone) == IF holder \in gone THEN None ELSE holder

\* The processes in gone end now; the kernel drops the locks they hold.
End(gone) ==
  /\ pc' = [p \in Procs |-> IF p \in gone THEN "idle" ELSE pc[p]]
  /\ op' = [p \in Procs |-> IF p \in gone THEN "none" ELSE op[p]]
  /\ sync' = Unlocked(sync, gone)
  /\ sched' = Unlocked(sched, gone)

Finish(p) == End({p})

\* launchctl bootout of the scheduled job ends its running process.
JobRun == IF job = "loaded" THEN Runs \cap {"job"} ELSE {}

-----------------------------------------------------------------------------
(* The commands of a person.  "refresh" stands for configure and refresh,  *)
(* which end in install(); "optout" for the same with RAMP_NO_SESSION_SYNC *)
(* set; tag and untag save the listener's settings, then call update_agent.*)

Begin(p, o) ==
  /\ pc[p] = "idle"
  /\ op' = [op EXCEPT ![p] = o]
  /\ pc' = [pc EXCEPT ![p] =
              CASE o = "enable" -> "mark"
                [] o = "refresh" -> "install"
                [] o \in {"disable", "uninstall", "optout"} -> "remove"
                [] o \in {"tag", "untag", "tagoptout"} -> "update"]
  /\ listening' = IF o \in {"tag", "tagoptout"} THEN TRUE
                  ELSE IF o = "untag" THEN FALSE ELSE listening
  /\ UNCHANGED <<markers, bundled, agent, job, sync, sched>>

EnableBackground(p) ==
  /\ pc[p] = "mark" /\ sched = None
  /\ enabled' = TRUE /\ optedOut' = FALSE
  /\ GoTo(p, "install")
  /\ UNCHANGED <<listening, bundled, agent, job, sync, sched>>

\* install(): the choice is read before any lock is taken.
Install(p) ==
  /\ pc[p] = "install"
  /\ \/ Background /\ GoTo(p, "installWait") /\ UNCHANGED <<sync, sched>>
     \/ /\ ~Background /\ (agent # "none" \/ job # "none" \/ listening)
        /\ GoTo(p, "remove") /\ UNCHANGED <<sync, sched>>
     \/ /\ ~Background /\ ~(agent # "none" \/ job # "none" \/ listening)
        /\ Finish(p)
  /\ UNCHANGED <<markers, listening, bundled, agent, job>>

\* ... and again under the schedule lock: a disable may have won.
InstallLocked(p) ==
  /\ pc[p] = "installWait" /\ sched = None
  /\ \/ Background /\ sched' = p /\ GoTo(p, "service") /\ UNCHANGED sync
     \/ ~Background /\ Finish(p)
  /\ UNCHANGED <<markers, listening, bundled, agent, job>>

\* _install_service with the agent: installed, or first migrated from the job
\* under the sync lock, by a person's command only.
InstallAgent(p) ==
  /\ pc[p] = "service" /\ bundled
  /\ \/ /\ job = "none"
        /\ agent' \in {"stopped", "running"}
        /\ Finish(p)
     \/ /\ job # "none"
        /\ Scheduled(p) \/ sync # None
        /\ Finish(p) /\ UNCHANGED agent
     \/ /\ job # "none" /\ ~Scheduled(p) /\ sync = None
        /\ agent' \in {"stopped", "running"}
        /\ sync' = p /\ GoTo(p, "migrate") /\ UNCHANGED sched
  /\ UNCHANGED <<markers, listening, bundled, job>>

\* The job goes only once the agent is seen running.
Migrate(p) ==
  /\ pc[p] = "migrate"
  /\ IF agent = "running" THEN job' = "none" /\ End({p} \cup JobRun)
                          ELSE UNCHANGED job /\ Finish(p)
  /\ UNCHANGED <<markers, listening, bundled, agent>>

\* (mutant) reloads the job without looking at the sync lock
InstallJobUnlocked(p) ==
  /\ pc[p] = "service" /\ ~bundled
  /\ agent' = "none"
  /\ \/ ~Background /\ Finish(p)
     \/ Background /\ GoTo(p, "bootstrap") /\ UNCHANGED <<sync, sched>>
  /\ UNCHANGED <<markers, listening, bundled, job>>

\* _install_service without the agent: the plain job, reloaded when its definition
\* changed, unless that would end a refresh that is writing.
InstallJob(p) ==
  /\ pc[p] = "service" /\ ~bundled
  /\ agent' = "none"
  /\ \/ (~Background \/ job = "loaded") /\ Finish(p)
     \/ /\ Background /\ job # "loaded"
        /\ GoTo(p, "bootstrap") /\ UNCHANGED <<sync, sched>>
     \/ /\ Background /\ job = "loaded"
        /\ ~Scheduled(p) /\ sync = None
        /\ sync' = p /\ GoTo(p, "bootstrap") /\ UNCHANGED sched
  /\ UNCHANGED <<markers, listening, bundled, job>>

\* launchctl takes its time, and may fail.
Bootstrap(p) ==
  /\ pc[p] = "bootstrap"
  /\ job' \in {"unloaded", "loaded"}
  /\ End({p} \cup JobRun)
  /\ UNCHANGED <<markers, listening, bundled, agent>>

-----------------------------------------------------------------------------
(* _remove: the sync lock first (a person's command waits 120 s for it, a  *)
(* background run not at all), then the schedule lock.                     *)

TakeSync(p) ==
  /\ pc[p] = "remove" /\ sync = None
  /\ sync' = p /\ GoTo(p, "removeFree")
  /\ UNCHANGED <<markers, listening, bundled, agent, job, sched>>

GiveUpSync(p) ==
  /\ pc[p] = "remove" /\ sync # None
  /\ GoTo(p, "removeBusy")
  /\ UNCHANGED <<markers, listening, bundled, agent, job, sync, sched>>

\* (mutant) does not wait for a process that is installing
RemoveUnlocked(p) ==
  /\ pc[p] \in {"removeFree", "removeBusy"}
  /\ ~(OnlyIfDisabled(p) /\ Background)
  /\ enabled' = (enabled /\ ~OptsOut(p))
  /\ optedOut' = (optedOut \/ OptsOut(p) \/ pc[p] = "removeBusy")
  /\ IF pc[p] = "removeBusy" THEN Finish(p)
     ELSE GoTo(p, "uninstall") /\ UNCHANGED <<sync, sched>>
  /\ UNCHANGED <<listening, bundled, agent, job>>

Remove(p) ==
  /\ pc[p] \in {"removeFree", "removeBusy"} /\ sched = None
  /\ \/ /\ OnlyIfDisabled(p) /\ Background
        /\ Finish(p) /\ UNCHANGED markers
     \/ /\ ~(OnlyIfDisabled(p) /\ Background)
        /\ enabled' = (enabled /\ ~OptsOut(p))
        /\ optedOut' = (optedOut \/ OptsOut(p) \/ pc[p] = "removeBusy")
        /\ IF pc[p] = "removeBusy" THEN Finish(p)
           ELSE sched' = p /\ GoTo(p, "uninstall") /\ UNCHANGED sync
  /\ UNCHANGED <<listening, bundled, agent, job>>

\* The files go first, then bootout: a tick of the job itself ends here.
UninstallJob(p) ==
  /\ pc[p] = "uninstall"
  /\ job' = "none"
  /\ LET ended == JobRun IN
     IF p \in ended THEN End(ended)
     ELSE /\ pc' = [q \in Procs |-> IF q = p THEN "uninstallAgent"
                                    ELSE IF q \in ended THEN "idle" ELSE pc[q]]
          /\ op' = [q \in Procs |-> IF q \in ended THEN "none" ELSE op[q]]
          /\ sync' = Unlocked(sync, ended)
          /\ sched' = Unlocked(sched, ended)
  /\ UNCHANGED <<markers, listening, bundled, agent>>

\* An opt-out keeps an agent that must still listen; uninstall() does not.
UninstallAgent(p) ==
  /\ pc[p] = "uninstallAgent"
  /\ IF OptsOut(p) /\ listening
     THEN GoTo(p, "service") /\ UNCHANGED <<agent, sync, sched>>
     ELSE agent' = "none" /\ Finish(p)
  /\ UNCHANGED <<markers, listening, bundled, job>>

\* (mutant) forgets to give the schedule lock up
UpdateKeepsLock(p) ==
  /\ pc[p] = "update" /\ sched = None
  /\ optedOut' = (optedOut \/ op[p] = "tagoptout" \/ ~Background)
  /\ IF optedOut' /\ ~listening
     THEN agent' = "none" /\ sched' = p
          /\ pc' = [pc EXCEPT ![p] = "idle"] /\ UNCHANGED <<sync, op>>
     ELSE sched' = p /\ GoTo(p, "service") /\ UNCHANGED <<agent, sync>>
  /\ UNCHANGED <<enabled, listening, bundled, job>>

\* update_agent, after a change of the tagging settings.
UpdateAgent(p) ==
  /\ pc[p] = "update" /\ sched = None
  /\ optedOut' = (optedOut \/ op[p] = "tagoptout" \/ ~Background)
  /\ IF optedOut' /\ ~listening
     THEN agent' = "none" /\ Finish(p)
     ELSE sched' = p /\ GoTo(p, "service") /\ UNCHANGED <<agent, sync>>
  /\ UNCHANGED <<enabled, listening, bundled, job>>

-----------------------------------------------------------------------------
(* The background runs.                                                    *)

\* The timer starts the job; the agent decides to start a run, unless it sees the
\* opt-out; a session hook starts a detached refresh, whatever the choice is.
Start(r) ==
  /\ pc[r] = "idle"
  /\ \/ r = "job" /\ job = "loaded"
     \/ r = "agent" /\ agent = "running" /\ ~optedOut
     \/ r = "hook"
  /\ op' = [op EXCEPT ![r] = "sync"]
  /\ pc' = [pc EXCEPT ![r] = IF r = "hook" THEN "sync" ELSE "tick"]
  /\ UNCHANGED <<markers, listening, bundled, agent, job, sync, sched>>

\* (mutant) a tick that finds sync off only stops
TickQuits(r) ==
  /\ pc[r] = "tick"
  /\ IF Background THEN GoTo(r, "sync") /\ UNCHANGED <<sync, sched>> ELSE Finish(r)
  /\ UNCHANGED <<markers, listening, bundled, agent, job>>

Tick(r) ==
  /\ pc[r] = "tick"
  /\ GoTo(r, IF Background THEN "sync" ELSE "tickRemove")
  /\ UNCHANGED <<markers, listening, bundled, agent, job, sync, sched>>

RemoveAfterOptOut(r) ==
  /\ pc[r] = "tickRemove" /\ sched = None
  /\ \/ Background /\ Finish(r)
     \/ ~Background /\ sched' = r /\ GoTo(r, "uninstall") /\ UNCHANGED sync
  /\ UNCHANGED <<markers, listening, bundled, agent, job>>

StartRefresh(r) ==
  /\ pc[r] = "sync"
  /\ IF sync = None THEN sync' = r /\ GoTo(r, "write") /\ UNCHANGED sched
                    ELSE Finish(r)
  /\ UNCHANGED <<markers, listening, bundled, agent, job>>

\* A refresh that updated a setup ends in install(); a tick may have none due.
EndRefresh(r) ==
  /\ pc[r] = "write"
  /\ \/ GoTo(r, "install") /\ UNCHANGED <<sync, sched>>
     \/ Finish(r)
  /\ UNCHANGED <<markers, listening, bundled, agent, job>>

-----------------------------------------------------------------------------
(* Around them: an upgrade ships the agent, launchd starts and loses it, a *)
(* person's command is killed.                                             *)

Upgrade ==
  /\ ~bundled /\ bundled' = TRUE
  /\ UNCHANGED <<markers, listening, agent, job, sync, sched, pc, op>>

AgentTurns ==
  /\ agent # "none"
  /\ agent' = IF agent = "running" THEN "stopped" ELSE "running"
  /\ UNCHANGED <<markers, listening, bundled, job, sync, sched, pc, op>>

Kill(p) ==
  /\ Killed /\ pc[p] # "idle"
  /\ Finish(p)
  /\ UNCHANGED <<markers, listening, bundled, agent, job>>

-----------------------------------------------------------------------------
Step(p) ==
  \/ EnableBackground(p) \/ Install(p) \/ InstallLocked(p)
  \/ InstallAgent(p) \/ Migrate(p) \/ InstallJob(p) \/ Bootstrap(p)
  \/ TakeSync(p) \/ GiveUpSync(p) \/ Remove(p)
  \/ UninstallJob(p) \/ UninstallAgent(p) \/ UpdateAgent(p)

RunStep(r) ==
  \/ Tick(r) \/ RemoveAfterOptOut(r) \/ StartRefresh(r) \/ EndRefresh(r)

Next ==
  \/ \E p \in Terminals : (\E o \in Ops : Begin(p, o)) \/ Kill(p)
  \/ \E p \in Procs : Step(p)
  \/ \E r \in Runs : Start(r) \/ RunStep(r)
  \/ Upgrade
  \/ AgentTurns

Spec == Init /\ [][Next]_vars

\* Every process runs on while it can, waiting for a lock included (flock queues
\* are fair enough that a free lock is taken), and the timer and the agent keep
\* starting runs; a person owes nothing.
Fairness ==
  /\ \A p \in Terminals : SF_vars(Step(p))
  /\ \A r \in Runs : SF_vars(Step(r) \/ RunStep(r))
  /\ \A r \in Runs \ {"hook"} : WF_vars(Start(r))

FairSpec == Spec /\ Fairness
-----------------------------------------------------------------------------
(* Properties.                                                             *)

\* "Booting out the launchd job kills a running scheduled refresh, which could stop
\* it between two writes": a refresh of the job that holds the sync lock gives it up
\* in a step of its own, never in the bootout of a person's command or of a session
\* hook.  (A tick the agent started before an opt-out still boots it out while a
\* migration has left both services installed.)
NeverKilledMidWrite ==
  [][sync = "job" /\ sync' # "job"
       => \A p \in Procs \ {"job", "agent"} : pc'[p] = pc[p]]_vars

\* "An opt-out landing in between is undone": whoever installs the job found the
\* choice on under the lock it still holds, so no install outlives an opt-out.
NothingUndoesOptOut ==
  [][job = "none" /\ job' # "none" => Background]_vars

\* The inductive invariant behind them.  Installing and removing is done by one
\* process at a time, and the choice stays what it was when that process read it.
Critical == {"service", "migrate", "bootstrap", "uninstall", "uninstallAgent"}

SchedInv ==
  /\ \A p \in Procs : pc[p] \in Critical <=> sched = p
  /\ \A p \in Procs : pc[p] = "bootstrap" => Background

\* Whoever may end the job's run holds the sync lock itself, is a tick that has not
\* taken it, or finds no job loaded.
SyncInv ==
  /\ \A p \in Procs : pc[p] \in {"removeFree", "migrate", "write"} => sync = p
  /\ \A p \in Procs : pc[p] \in {"tick", "tickRemove"} => p \in {"job", "agent"}
  /\ \A p \in Procs : pc[p] = "uninstall" => sync = p \/ p \in {"job", "agent"}
  /\ \A p \in Procs : pc[p] = "bootstrap" => sync = p \/ job # "loaded"

IInv == TypeOK /\ SchedInv /\ SyncInv

\* A removal that found a refresh running is carried out by the job's next tick.
DeferredRemoval ==
  job = "loaded" /\ ~Background ~> job # "loaded" \/ Background

\* The two locks never hold each other up: every command of a person ends.
CommandsEnd == \A p \in Terminals : pc[p] # "idle" ~> pc[p] = "idle"
=============================================================================
