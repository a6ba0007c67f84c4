------------------------ MODULE RouterScheduleProofs ------------------------
(***************************************************************************)
(* Proofs about RouterSchedule for every set of terminals and operations:  *)
(* IInv is inductive, and the three action properties follow from it.      *)
(***************************************************************************)
EXTENDS RouterSchedule, TLAPS

\* Commands and background runs are told apart.
LEMMA ProcsApart ==
  /\ Terminals \cap Runs = {}
  /\ None \notin Terminals \cup Runs
  /\ Runs \subseteq {"job", "agent", "hook"}
  /\ None # "job" /\ "job" \notin Terminals /\ "agent" \notin Terminals
BY ProcsAssumption, RunsAssumption DEF BackgroundRuns

\* Where a command of a person begins.
LEMMA BeginsWhere ==
  ASSUME NEW p \in Terminals, NEW o \in Ops, Begin(p, o)
  PROVE  \E w \in {"mark", "install", "remove", "update"} : pc' = [pc EXCEPT ![p] = w]
<1>1. CASE o = "enable"
  BY <1>1 DEF Begin
<1>2. CASE o = "refresh"
  BY <1>2 DEF Begin
<1>3. CASE o \in {"disable", "uninstall", "optout"}
  BY <1>3 DEF Begin
<1>4. CASE o \in {"tag", "untag", "tagoptout"}
  BY <1>4 DEF Begin
<1> QED
  BY <1>1, <1>2, <1>3, <1>4, OpsAssumption DEF Commands

\* Every step keeps the types.
LEMMA TypeStep ==
  IInv /\ [Next]_vars => TypeOK'
<1> SUFFICES ASSUME IInv, [Next]_vars PROVE TypeOK'
  OBVIOUS
<1> USE ProcsApart, OpsAssumption DEF IInv, TypeOK, PC, Procs, Commands
<1>1. ASSUME NEW p \in Terminals, NEW o \in Ops, Begin(p, o) PROVE TypeOK'
  BY <1>1, ZenonT(40) DEF Begin, markers
<1>2. ASSUME NEW p \in Procs, EnableBackground(p) PROVE TypeOK'
  BY <1>2 DEF EnableBackground, GoTo, Finish, End, Unlocked, JobRun, markers
<1>3. ASSUME NEW p \in Procs, Install(p) PROVE TypeOK'
  BY <1>3 DEF Install, GoTo, Finish, End, Unlocked, JobRun, markers
<1>4. ASSUME NEW p \in Procs, InstallLocked(p) PROVE TypeOK'
  BY <1>4 DEF InstallLocked, GoTo, Finish, End, Unlocked, JobRun, markers
<1>5. ASSUME NEW p \in Procs, InstallAgent(p) PROVE TypeOK'
  BY <1>5 DEF InstallAgent, GoTo, Finish, End, Unlocked, JobRun, markers
<1>6. ASSUME NEW p \in Procs, Migrate(p) PROVE TypeOK'
  BY <1>6 DEF Migrate, GoTo, Finish, End, Unlocked, JobRun, markers
<1>7. ASSUME NEW p \in Procs, InstallJob(p) PROVE TypeOK'
  BY <1>7 DEF InstallJob, GoTo, Finish, End, Unlocked, JobRun, markers
<1>8. ASSUME NEW p \in Procs, Bootstrap(p) PROVE TypeOK'
  BY <1>8 DEF Bootstrap, GoTo, Finish, End, Unlocked, JobRun, markers
<1>9. ASSUME NEW p \in Procs, TakeSync(p) PROVE TypeOK'
  BY <1>9 DEF TakeSync, GoTo, Finish, End, Unlocked, JobRun, markers
<1>10. ASSUME NEW p \in Procs, GiveUpSync(p) PROVE TypeOK'
  BY <1>10 DEF GiveUpSync, GoTo, Finish, End, Unlocked, JobRun, markers
<1>11. ASSUME NEW p \in Procs, Remove(p) PROVE TypeOK'
  <2>1. enabled' \in BOOLEAN /\ optedOut' \in BOOLEAN
    BY <1>11, Zenon DEF Remove, markers
  <2>2. UNCHANGED <<listening, bundled, agent, job>>
    BY <1>11 DEF Remove
  <2>3. CASE Finish(p)
    BY <2>1, <2>2, <2>3 DEF Finish, End, Unlocked
  <2>4. CASE sched' = p /\ GoTo(p, "uninstall") /\ UNCHANGED sync
    BY <2>1, <2>2, <2>4 DEF GoTo
  <2> QED
    BY <1>11, <2>3, <2>4 DEF Remove
<1>12. ASSUME NEW p \in Procs, UninstallJob(p) PROVE TypeOK'
  BY <1>12 DEF UninstallJob, GoTo, Finish, End, Unlocked, JobRun, markers
<1>13. ASSUME NEW p \in Procs, UninstallAgent(p) PROVE TypeOK'
  BY <1>13 DEF UninstallAgent, GoTo, Finish, End, Unlocked, JobRun, markers
<1>14. ASSUME NEW p \in Procs, UpdateAgent(p) PROVE TypeOK'
  BY <1>14 DEF UpdateAgent, GoTo, Finish, End, Unlocked, JobRun, markers
<1>15. ASSUME NEW p \in Runs, Start(p) PROVE TypeOK'
  BY <1>15 DEF Start, GoTo, Finish, End, Unlocked, JobRun, markers
<1>16. ASSUME NEW p \in Runs, Tick(p) PROVE TypeOK'
  BY <1>16 DEF Tick, GoTo, Finish, End, Unlocked, JobRun, markers
<1>17. ASSUME NEW p \in Runs, RemoveAfterOptOut(p) PROVE TypeOK'
  BY <1>17 DEF RemoveAfterOptOut, GoTo, Finish, End, Unlocked, JobRun, markers
<1>18. ASSUME NEW p \in Runs, StartRefresh(p) PROVE TypeOK'
  BY <1>18 DEF StartRefresh, GoTo, Finish, End, Unlocked, JobRun, markers
<1>19. ASSUME NEW p \in Runs, EndRefresh(p) PROVE TypeOK'
  BY <1>19 DEF EndRefresh, GoTo, Finish, End, Unlocked, JobRun, markers
<1>20. ASSUME NEW p \in Terminals, Kill(p) PROVE TypeOK'
  BY <1>20 DEF Kill, GoTo, Finish, End, Unlocked, JobRun, markers
<1>21. CASE Upgrade
  BY <1>21 DEF Upgrade, markers
<1>22. CASE AgentTurns
  BY <1>22 DEF AgentTurns, markers
<1>23. CASE UNCHANGED vars
  BY <1>23 DEF vars, markers
<1> QED
  BY <1>1, <1>2, <1>3, <1>4, <1>5, <1>6, <1>7, <1>8, <1>9, <1>10, <1>11, <1>12, <1>13, <1>14, <1>15, <1>16, <1>17, <1>18, <1>19, <1>20, <1>21, <1>22, <1>23 DEF Next, Step, RunStep

\* Every step keeps the schedule lock exclusive, and the choice as its holder read it.
LEMMA SchedStep ==
  IInv /\ [Next]_vars => SchedInv'
<1> SUFFICES ASSUME IInv, [Next]_vars PROVE SchedInv'
  OBVIOUS
<1> USE ProcsApart, OpsAssumption DEF IInv, TypeOK, SchedInv, Critical, Procs, Background
<1>1. ASSUME NEW p \in Terminals, NEW o \in Ops, Begin(p, o) PROVE SchedInv'
  <2>1. PICK w \in {"mark", "install", "remove", "update"} : pc' = [pc EXCEPT ![p] = w]
    BY <1>1, BeginsWhere
  <2>2. pc[p] = "idle" /\ UNCHANGED <<enabled, optedOut, job, sync, sched>>
    BY <1>1 DEF Begin, markers
  <2> QED
    BY <1>1, <2>1, <2>2
<1>2. ASSUME NEW p \in Procs, EnableBackground(p) PROVE SchedInv'
  BY <1>2 DEF EnableBackground, GoTo, Finish, End, Unlocked, JobRun, markers
<1>3. ASSUME NEW p \in Procs, Install(p) PROVE SchedInv'
  BY <1>3 DEF Install, GoTo, Finish, End, Unlocked, JobRun, markers
<1>4. ASSUME NEW p \in Procs, InstallLocked(p) PROVE SchedInv'
  BY <1>4 DEF InstallLocked, GoTo, Finish, End, Unlocked, JobRun, markers
<1>5. ASSUME NEW p \in Procs, InstallAgent(p) PROVE SchedInv'
  BY <1>5 DEF InstallAgent, GoTo, Finish, End, Unlocked, JobRun, markers
<1>6. ASSUME NEW p \in Procs, Migrate(p) PROVE SchedInv'
  BY <1>6 DEF Migrate, GoTo, Finish, End, Unlocked, JobRun, markers
<1>7. ASSUME NEW p \in Procs, InstallJob(p) PROVE SchedInv'
  BY <1>7 DEF InstallJob, GoTo, Finish, End, Unlocked, JobRun, markers
<1>8. ASSUME NEW p \in Procs, Bootstrap(p) PROVE SchedInv'
  BY <1>8 DEF Bootstrap, GoTo, Finish, End, Unlocked, JobRun, markers
<1>9. ASSUME NEW p \in Procs, TakeSync(p) PROVE SchedInv'
  BY <1>9 DEF TakeSync, GoTo, Finish, End, Unlocked, JobRun, markers
<1>10. ASSUME NEW p \in Procs, GiveUpSync(p) PROVE SchedInv'
  BY <1>10 DEF GiveUpSync, GoTo, Finish, End, Unlocked, JobRun, markers
<1>11. ASSUME NEW p \in Procs, Remove(p) PROVE SchedInv'
  BY <1>11 DEF Remove, GoTo, Finish, End, Unlocked, JobRun, markers
<1>12. ASSUME NEW p \in Procs, UninstallJob(p) PROVE SchedInv'
  BY <1>12 DEF UninstallJob, GoTo, Finish, End, Unlocked, JobRun, markers
<1>13. ASSUME NEW p \in Procs, UninstallAgent(p) PROVE SchedInv'
  BY <1>13 DEF UninstallAgent, GoTo, Finish, End, Unlocked, JobRun, markers
<1>14. ASSUME NEW p \in Procs, UpdateAgent(p) PROVE SchedInv'
  BY <1>14 DEF UpdateAgent, GoTo, Finish, End, Unlocked, JobRun, markers
<1>15. ASSUME NEW p \in Runs, Start(p) PROVE SchedInv'
  BY <1>15 DEF Start, GoTo, Finish, End, Unlocked, JobRun, markers
<1>16. ASSUME NEW p \in Runs, Tick(p) PROVE SchedInv'
  BY <1>16 DEF Tick, GoTo, Finish, End, Unlocked, JobRun, markers
<1>17. ASSUME NEW p \in Runs, RemoveAfterOptOut(p) PROVE SchedInv'
  BY <1>17 DEF RemoveAfterOptOut, GoTo, Finish, End, Unlocked, JobRun, markers
<1>18. ASSUME NEW p \in Runs, StartRefresh(p) PROVE SchedInv'
  BY <1>18 DEF StartRefresh, GoTo, Finish, End, Unlocked, JobRun, markers
<1>19. ASSUME NEW p \in Runs, EndRefresh(p) PROVE SchedInv'
  BY <1>19 DEF EndRefresh, GoTo, Finish, End, Unlocked, JobRun, markers
<1>20. ASSUME NEW p \in Terminals, Kill(p) PROVE SchedInv'
  BY <1>20 DEF Kill, GoTo, Finish, End, Unlocked, JobRun, markers
<1>21. CASE Upgrade
  BY <1>21 DEF Upgrade, markers
<1>22. CASE AgentTurns
  BY <1>22 DEF AgentTurns, markers
<1>23. CASE UNCHANGED vars
  BY <1>23 DEF vars, markers
<1> QED
  BY <1>1, <1>2, <1>3, <1>4, <1>5, <1>6, <1>7, <1>8, <1>9, <1>10, <1>11, <1>12, <1>13, <1>14, <1>15, <1>16, <1>17, <1>18, <1>19, <1>20, <1>21, <1>22, <1>23 DEF Next, Step, RunStep

\* Every step keeps what protects a refresh that is writing.
LEMMA SyncStep ==
  IInv /\ [Next]_vars => SyncInv'
<1> SUFFICES ASSUME IInv, [Next]_vars PROVE SyncInv'
  OBVIOUS
<1> USE ProcsApart, OpsAssumption DEF IInv, TypeOK, SyncInv, SchedInv, Critical, Procs
<1>1. ASSUME NEW p \in Terminals, NEW o \in Ops, Begin(p, o) PROVE SyncInv'
  <2>1. PICK w \in {"mark", "install", "remove", "update"} : pc' = [pc EXCEPT ![p] = w]
    BY <1>1, BeginsWhere
  <2>2. pc[p] = "idle" /\ UNCHANGED <<enabled, optedOut, job, sync, sched>>
    BY <1>1 DEF Begin, markers
  <2> QED
    BY <1>1, <2>1, <2>2
<1>2. ASSUME NEW p \in Procs, EnableBackground(p) PROVE SyncInv'
  BY <1>2 DEF EnableBackground, GoTo, Finish, End, Unlocked, JobRun, markers, Scheduled
<1>3. ASSUME NEW p \in Procs, Install(p) PROVE SyncInv'
  BY <1>3 DEF Install, GoTo, Finish, End, Unlocked, JobRun, markers, Scheduled
<1>4. ASSUME NEW p \in Procs, InstallLocked(p) PROVE SyncInv'
  BY <1>4 DEF InstallLocked, GoTo, Finish, End, Unlocked, JobRun, markers, Scheduled
<1>5. ASSUME NEW p \in Procs, InstallAgent(p) PROVE SyncInv'
  BY <1>5 DEF InstallAgent, GoTo, Finish, End, Unlocked, JobRun, markers, Scheduled
<1>6. ASSUME NEW p \in Procs, Migrate(p) PROVE SyncInv'
  BY <1>6 DEF Migrate, GoTo, Finish, End, Unlocked, JobRun, markers, Scheduled
<1>7. ASSUME NEW p \in Procs, InstallJob(p) PROVE SyncInv'
  BY <1>7 DEF InstallJob, GoTo, Finish, End, Unlocked, JobRun, markers, Scheduled
<1>8. ASSUME NEW p \in Procs, Bootstrap(p) PROVE SyncInv'
  BY <1>8 DEF Bootstrap, GoTo, Finish, End, Unlocked, JobRun, markers, Scheduled
<1>9. ASSUME NEW p \in Procs, TakeSync(p) PROVE SyncInv'
  BY <1>9 DEF TakeSync, GoTo, Finish, End, Unlocked, JobRun, markers, Scheduled
<1>10. ASSUME NEW p \in Procs, GiveUpSync(p) PROVE SyncInv'
  BY <1>10 DEF GiveUpSync, GoTo, Finish, End, Unlocked, JobRun, markers, Scheduled
<1>11. ASSUME NEW p \in Procs, Remove(p) PROVE SyncInv'
  BY <1>11 DEF Remove, GoTo, Finish, End, Unlocked, JobRun, markers, Scheduled
<1>12. ASSUME NEW p \in Procs, UninstallJob(p) PROVE SyncInv'
  BY <1>12 DEF UninstallJob, GoTo, Finish, End, Unlocked, JobRun, markers, Scheduled
<1>13. ASSUME NEW p \in Procs, UninstallAgent(p) PROVE SyncInv'
  BY <1>13 DEF UninstallAgent, GoTo, Finish, End, Unlocked, JobRun, markers, Scheduled
<1>14. ASSUME NEW p \in Procs, UpdateAgent(p) PROVE SyncInv'
  BY <1>14 DEF UpdateAgent, GoTo, Finish, End, Unlocked, JobRun, markers, Scheduled
<1>15. ASSUME NEW p \in Runs, Start(p) PROVE SyncInv'
  BY <1>15 DEF Start, GoTo, Finish, End, Unlocked, JobRun, markers, Scheduled
<1>16. ASSUME NEW p \in Runs, Tick(p) PROVE SyncInv'
  BY <1>16 DEF Tick, GoTo, Finish, End, Unlocked, JobRun, markers, Scheduled
<1>17. ASSUME NEW p \in Runs, RemoveAfterOptOut(p) PROVE SyncInv'
  BY <1>17 DEF RemoveAfterOptOut, GoTo, Finish, End, Unlocked, JobRun, markers, Scheduled
<1>18. ASSUME NEW p \in Runs, StartRefresh(p) PROVE SyncInv'
  BY <1>18 DEF StartRefresh, GoTo, Finish, End, Unlocked, JobRun, markers, Scheduled
<1>19. ASSUME NEW p \in Runs, EndRefresh(p) PROVE SyncInv'
  BY <1>19 DEF EndRefresh, GoTo, Finish, End, Unlocked, JobRun, markers, Scheduled
<1>20. ASSUME NEW p \in Terminals, Kill(p) PROVE SyncInv'
  BY <1>20 DEF Kill, GoTo, Finish, End, Unlocked, JobRun, markers, Scheduled
<1>21. CASE Upgrade
  BY <1>21 DEF Upgrade, markers
<1>22. CASE AgentTurns
  BY <1>22 DEF AgentTurns, markers
<1>23. CASE UNCHANGED vars
  BY <1>23 DEF vars, markers
<1> QED
  BY <1>1, <1>2, <1>3, <1>4, <1>5, <1>6, <1>7, <1>8, <1>9, <1>10, <1>11, <1>12, <1>13, <1>14, <1>15, <1>16, <1>17, <1>18, <1>19, <1>20, <1>21, <1>22, <1>23 DEF Next, Step, RunStep

\* The invariant is inductive.
THEOREM Inductive == Spec => []IInv
<1>1. Init => IInv
  BY ProcsApart, ZenonT(40) DEF Init, IInv, TypeOK, SchedInv, SyncInv, Critical, PC, Procs
<1>2. IInv /\ [Next]_vars => IInv'
  BY TypeStep, SchedStep, SyncStep DEF IInv
<1> QED
  BY <1>1, <1>2, PTL DEF Spec

\* Whatever the terminals do, no install outlives an opt-out.
THEOREM OptOutsStick == Spec => NothingUndoesOptOut
<1>1. IInv /\ [Next]_vars => [job = "none" /\ job' # "none" => Background]_vars
  <2> SUFFICES ASSUME IInv, Next, job = "none", job' # "none" PROVE Background
    OBVIOUS
  <2>1. ASSUME NEW p \in Procs, Bootstrap(p) PROVE Background
    BY <2>1 DEF IInv, SchedInv, Bootstrap
  <2>2. ASSUME NEW p \in Procs, Step(p) PROVE Background
    BY <2>1, <2>2 DEF Step, EnableBackground, Install, InstallLocked, InstallAgent,
      Migrate, InstallJob, TakeSync, GiveUpSync, Remove, UninstallJob,
      UninstallAgent, UpdateAgent
  <2>3. ASSUME NEW r \in Runs, Start(r) \/ RunStep(r) PROVE Background
    BY <2>3 DEF RunStep, Start, Tick, RemoveAfterOptOut, StartRefresh, EndRefresh
  <2>4. ASSUME NEW p \in Terminals, (\E o \in Ops : Begin(p, o)) \/ Kill(p)
        PROVE Background
    BY <2>4 DEF Begin, Kill
  <2> QED
    BY <2>2, <2>3, <2>4 DEF Next, Upgrade, AgentTurns
<1> QED
  BY Inductive, <1>1, PTL DEF Spec, NothingUndoesOptOut

\* No command of a person and no session hook ends a refresh of the job that writes.
THEOREM WritesAreSafe == Spec => NeverKilledMidWrite
<1> DEFINE Own == sync = "job" /\ sync' # "job"
                    => \A p \in Procs \ {"job", "agent"} : pc'[p] = pc[p]
<1>1. IInv /\ [Next]_vars => [Own]_vars
  <2> SUFFICES ASSUME IInv, Next, sync = "job", sync' # "job",
                      NEW q \in Procs \ {"job", "agent"}
               PROVE pc'[q] = pc[q]
    OBVIOUS
  <2> USE ProcsApart DEF IInv, TypeOK, SyncInv, Procs, Finish,
      End, Unlocked, GoTo, JobRun
  <2>1. ASSUME NEW p \in Procs, Migrate(p) PROVE pc'[q] = pc[q]
    BY <2>1 DEF Migrate
  <2>2. ASSUME NEW p \in Procs, Bootstrap(p) PROVE pc'[q] = pc[q]
    BY <2>2 DEF Bootstrap
  <2>3. ASSUME NEW p \in Procs, UninstallJob(p) PROVE pc'[q] = pc[q]
    <3>1. p \in {"job", "agent"} /\ q # p /\ q \notin JobRun
      BY <2>3 DEF UninstallJob
    <3>2. CASE p \in JobRun
      BY <2>3, <3>1, <3>2 DEF UninstallJob
    <3>3. CASE p \notin JobRun
      BY <2>3, <3>1, <3>3 DEF UninstallJob
    <3> QED
      BY <3>2, <3>3
  <2>4. ASSUME NEW p \in Procs, Step(p) PROVE pc'[q] = pc[q]
    <3>1. CASE EnableBackground(p) \/ GiveUpSync(p) \/ TakeSync(p)
      BY <3>1 DEF EnableBackground, GiveUpSync, TakeSync
    <3>2. CASE Install(p) \/ InstallLocked(p)
      BY <3>2 DEF Install, InstallLocked
    <3>3. CASE InstallAgent(p) \/ InstallJob(p)
      BY <3>3 DEF InstallAgent, InstallJob
    <3>4. CASE Remove(p)
      BY <3>4 DEF Remove
    <3>5. CASE UninstallAgent(p) \/ UpdateAgent(p)
      BY <3>5 DEF UninstallAgent, UpdateAgent
    <3> QED
      BY <2>1, <2>2, <2>3, <2>4, <3>1, <3>2, <3>3, <3>4, <3>5 DEF Step
  <2>5. ASSUME NEW r \in Runs, Start(r) \/ RunStep(r) PROVE pc'[q] = pc[q]
    BY <2>5 DEF RunStep, Start, Tick, RemoveAfterOptOut, StartRefresh, EndRefresh
  <2>6. ASSUME NEW p \in Terminals, (\E o \in Ops : Begin(p, o)) \/ Kill(p)
        PROVE pc'[q] = pc[q]
    BY <2>6 DEF Begin, Kill
  <2> QED
    BY <2>4, <2>5, <2>6 DEF Next, Upgrade, AgentTurns
<1> QED
  BY Inductive, <1>1, PTL DEF Spec, NeverKilledMidWrite

=============================================================================
