------------------------------- MODULE MCSetups -------------------------------
(***************************************************************************)
(* Instances for TLC of what installs and sets up: the npm packages, the   *)
(* repository listener, Codex's threads, Claude Code's settings, Claude    *)
(* Desktop and the Switchyard push.  They share no state, so a behaviour   *)
(* moves one of them, which the initial state chooses, and the others rest *)
(* in one initial state each.                                              *)
(***************************************************************************)
EXTENDS NpmInstaller, RepoListener, CodexThreads, ClaudeSettings, DesktopSetup, SwitchyardPush

VARIABLE subject   \* the part of the system that moves

Symmetry == Permutations(Installers)
\* What one user edits in Claude Code's settings.
EditedAlone == {{k} : k \in Keys \ {"gateway"}} \cup {{"hooks"}}
SetupSelections == {{"codex"}, {"opencode"}}

setupVars == <<installerVars, vars, threadVars, claudeVars, desktopVars, pushVars, subject>>

SetupInit ==
  /\ subject \in {"npm", "listener", "codex", "claude", "desktop", "push"}
  /\ InstallerInit
  /\ Init /\ (subject # "listener" => listener = None /\ settings = CHOOSE s \in {Off(port) : port \in Ports} : TRUE)
  /\ ThreadsInit /\ (subject # "codex" => \A t \in Threads : transcript[t] = "none" /\ indexRow[t] = "none")
  /\ ClaudeInit
  /\ subject # "claude" => editable = {"hooks"} /\ hooks = {}
  /\ DesktopInit
  /\ subject # "desktop" =>
       /\ desk.library = [listed |-> {}, applied |-> "absent"]
       /\ desk.mode = [deployment |-> "absent", awaiting |-> FALSE]
       /\ ~running
  /\ PushInit /\ (subject # "push" => connected = {})

SetupNext ==
  \/ /\ subject = "npm" /\ UNCHANGED <<vars, threadVars, claudeVars, desktopVars, pushVars, subject>>
     /\ InstallerNext
  \/ /\ subject = "listener" /\ UNCHANGED <<installerVars, threadVars, claudeVars, desktopVars, pushVars, subject>>
     /\ Next
  \/ /\ subject = "codex" /\ UNCHANGED <<installerVars, vars, claudeVars, desktopVars, pushVars, subject>>
     /\ ThreadsNext
  \/ /\ subject = "claude" /\ UNCHANGED <<installerVars, vars, threadVars, desktopVars, pushVars, subject>>
     /\ ClaudeNext
  \/ /\ subject = "desktop" /\ UNCHANGED <<installerVars, vars, threadVars, claudeVars, pushVars, subject>>
     /\ DesktopNext
  \/ /\ subject = "push" /\ UNCHANGED <<installerVars, vars, threadVars, claudeVars, desktopVars, subject>>
     /\ PushNext

SetupSpec == SetupInit /\ [][SetupNext]_setupVars

=============================================================================
