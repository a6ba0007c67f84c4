----------------------------- MODULE RepoListener -----------------------------
(***************************************************************************)
(* Repository tagging: local setups are pointed at the agent's listener on *)
(* a local port, or directly at Router, and the commands that switch the   *)
(* listener on, off and to another port rewrite every setup.  Translated   *)
(* from commands/router_repo.py and the places in commands/router.py and   *)
(* claude_cowork.py that choose and write a setup's endpoint.              *)
(*                                                                         *)
(* A setup that names a port on which nothing listens has lost Router.     *)
(***************************************************************************)
EXTENDS Naturals, FiniteSets

CONSTANTS
  Procs,        \* commands a person runs
  Locked,       \* clients that choose and write their endpoint in one lock
  Unlocked,     \* clients that do so without a lock (OpenCode, Pi)
  Desktop,      \* Claude Desktop, whose lock disable() takes too; or None
  Ports,        \* ports a listener may be asked to use
  Overlapping,  \* clients that may be set up while disable() runs
  Killed,       \* whether commands may be killed
  None

Clients == Locked \cup Unlocked \cup ({Desktop} \ {None})

ASSUME ClientsAssumption ==
  None \notin Procs \cup Locked \cup Unlocked \cup Ports /\ Desktop \notin Unlocked
ASSUME OverlappingAssumption == Overlapping \subseteq Clients
ASSUME PortsAssumption == Ports # {} /\ {"direct", "none"} \cap Ports = {}
ASSUME KilledAssumption == Killed \in BOOLEAN

VARIABLES
  settings,  \* router-repo-helper.json
  listener,  \* the port the agent listens on, or None
  endpoint,  \* what each client's configuration file names
  lock,      \* holder of each client's configuration lock
  pc, op,    \* where each command is, and which command it is
  todo,      \* the clients a command still has to rewrite
  choice,    \* the client and endpoint it is about to write, or None
  saved,     \* the settings it keeps in memory
  target,    \* the port it was asked for
  failed     \* whether one of its rewrites failed

local == <<pc, op, todo, choice, saved, target, failed>>
vars == <<settings, listener, endpoint, lock, local>>

Settings == [enabled : BOOLEAN, keep : BOOLEAN, port : Ports]
Endpoint == Ports \cup {"direct"}
Choice == [client : Clients, endpoint : Endpoint]

Ops == {"setup", "refresh", "unconfigure", "enable", "move", "disable"}

PC == {"idle", "clients", "write", "remove", "tail", "drained", "save", "ensure",
       "rollback", "update", "note", "noted", "scan", "unlisten"}

TypeOK ==
  /\ settings \in Settings
  /\ listener \in Ports \cup {None}
  /\ endpoint \in [Clients -> Endpoint \cup {"none"}]
  /\ lock \in [Clients -> Procs \cup {None}]
  /\ pc \in [Procs -> PC]
  /\ op \in [Procs -> Ops \cup {"none"}]
  /\ todo \in [Procs -> SUBSET Clients]
  /\ choice \in [Procs -> Choice \cup {None}]
  /\ saved \in [Procs -> Settings]
  /\ target \in [Procs -> Ports]
  /\ failed \in [Procs -> BOOLEAN]

Off(port) == [enabled |-> FALSE, keep |-> FALSE, port |-> port]

Init ==
  /\ \E port \in Ports :
       /\ settings = Off(port)
       /\ saved = [p \in Procs |-> Off(port)]
       /\ target = [p \in Procs |-> port]
  /\ listener = None
  /\ endpoint = [c \in Clients |-> "none"]
  /\ lock = [c \in Clients |-> None]
  /\ pc = [p \in Procs |-> "idle"]
  /\ op = [p \in Procs |-> "none"]
  /\ todo = [p \in Procs |-> {}]
  /\ choice = [p \in Procs |-> None]
  /\ failed = [p \in Procs |-> FALSE]

-----------------------------------------------------------------------------
(* The settings file, the agent and the setups that need its listener.     *)

ListenerPort(s) == IF s.enabled \/ s.keep THEN s.port ELSE None

UsingHelper == {c \in Clients : endpoint[c] \in Ports}

Configured == {c \in Clients : endpoint[c] # "none"}

\* update_agent() installs the agent with the listener the settings ask for; the
\* service manager may fail to start one that is not there yet.
UpdateService ==
  /\ listener' \in {ListenerPort(settings), None}
  /\ listener = ListenerPort(settings) => listener' = listener

\* ensure_running(): an answering listener is left alone; one that does not answer
\* in time, or whose port another program holds, is not started.
EnsureRunning(up) ==
  \/ UpdateService /\ up = (listener' = settings.port)
  \/ UNCHANGED listener /\ ~up

\* attribution_url(): the helper while tagging is on and the helper answers.
AttributionUrl(e) ==
  IF settings.enabled
  THEN \E up \in BOOLEAN :
         EnsureRunning(up) /\ e = IF up THEN settings.port ELSE "direct"
  ELSE UNCHANGED listener /\ e = "direct"

GoTo(p, where) == pc' = [pc EXCEPT ![p] = where]

\* A command ends, or is killed: its locks go, its memory with it.
End(p) ==
  /\ GoTo(p, "idle")
  /\ op' = [op EXCEPT ![p] = "none"]
  /\ todo' = [todo EXCEPT ![p] = {}]
  /\ choice' = [choice EXCEPT ![p] = None]
  /\ saved' = [saved EXCEPT ![p] = Off(settings.port)]
  /\ target' = [target EXCEPT ![p] = settings.port]
  /\ failed' = [failed EXCEPT ![p] = FALSE]
  /\ lock' = [c \in Clients |-> IF lock[c] = p THEN None ELSE lock[c]]

\* Where a command goes once its clients are rewritten.
AfterClients(o) ==
  CASE o = "move" -> "drained" [] o = "enable" -> "note"
    [] o = "disable" -> "scan" [] OTHER -> "idle"

\* _refresh_clients() takes the setups it finds; Desktop is looked at last.
RefreshClients(p) ==
  /\ GoTo(p, "clients")
  /\ todo' = [todo EXCEPT ![p] = Configured \cup ({Desktop} \ {None})]
  /\ failed' = [failed EXCEPT ![p] = FALSE]

-----------------------------------------------------------------------------
(* Setting up, refreshing and removing clients.                            *)

Busy(p) == {q \in Procs \ {p} : pc[q] # "idle"}

\* What a person runs at the same time: setups and refreshes with each other, and a
\* setup of an overlapping client with disable().
MayBegin(p, o, clients) ==
  /\ pc[p] = "idle"
  /\ \A q \in Busy(p) :
       CASE o = "refresh" -> op[q] \in {"setup", "refresh"}
         [] o = "setup" -> \/ op[q] \in {"setup", "refresh"}
                           \/ op[q] = "disable" /\ clients \subseteq Overlapping
         [] o = "disable" -> /\ op[q] = "setup"
                             /\ todo[q] \subseteq Overlapping
         [] OTHER -> FALSE

BeginSetup(p, c) ==
  /\ MayBegin(p, "setup", {c})
  /\ GoTo(p, "clients")
  /\ op' = [op EXCEPT ![p] = "setup"]
  /\ todo' = [todo EXCEPT ![p] = {c}]
  /\ UNCHANGED <<settings, listener, endpoint, lock, choice, saved, target, failed>>

BeginRefresh(p) ==
  /\ MayBegin(p, "refresh", {})
  /\ op' = [op EXCEPT ![p] = "refresh"]
  /\ RefreshClients(p)
  /\ UNCHANGED <<settings, listener, endpoint, lock, choice, saved, target>>

\* client_credentials(), under the client's lock where it has one.
Choose(p, c) ==
  /\ pc[p] = "clients" /\ c \in todo[p]
  /\ c = Desktop /\ op[p] # "setup" => endpoint[c] # "none"
  /\ \/ c \in Unlocked /\ UNCHANGED lock
     \/ c \notin Unlocked /\ lock[c] = None /\ lock' = [lock EXCEPT ![c] = p]
  /\ \E e \in Endpoint :
       /\ AttributionUrl(e)
       /\ choice' = [choice EXCEPT ![p] = [client |-> c, endpoint |-> e]]
  /\ GoTo(p, "write")
  /\ UNCHANGED <<settings, endpoint, op, todo, saved, target, failed>>

WriteSetup(p) ==
  /\ pc[p] = "write"
  /\ LET c == choice[p].client IN
       /\ endpoint' = [endpoint EXCEPT ![c] = choice[p].endpoint]
       /\ lock' = [lock EXCEPT ![c] = IF @ = p THEN None ELSE @]
       /\ todo' = [todo EXCEPT ![p] = @ \ {c}]
  /\ choice' = [choice EXCEPT ![p] = None]
  /\ GoTo(p, "clients")
  /\ UNCHANGED <<settings, listener, op, saved, target, failed>>

\* A setup that cannot be rewritten is left as it is and the others go on.
SkipSetup(p, c) ==
  /\ pc[p] = "clients" /\ c \in todo[p]
  /\ todo' = [todo EXCEPT ![p] = @ \ {c}]
  /\ failed' = [failed EXCEPT ![p] = @ \/ c # Desktop]
  /\ UNCHANGED <<settings, listener, endpoint, lock, pc, op, choice, saved, target>>

ClientsDone(p) ==
  /\ pc[p] = "clients" /\ todo[p] = {}
  /\ IF AfterClients(op[p]) = "idle"
     THEN End(p)
     ELSE /\ GoTo(p, AfterClients(op[p]))
          /\ UNCHANGED <<lock, op, todo, choice, saved, target, failed>>
  /\ UNCHANGED <<settings, listener, endpoint>>

BeginUnconfigure(p, clients) ==
  /\ MayBegin(p, "unconfigure", clients)
  /\ clients # {} /\ clients \subseteq Configured
  /\ op' = [op EXCEPT ![p] = "unconfigure"]
  /\ todo' = [todo EXCEPT ![p] = clients]
  /\ GoTo(p, "remove")
  /\ UNCHANGED <<settings, listener, endpoint, lock, choice, saved, target, failed>>

Unconfigure(p) ==
  /\ pc[p] = "remove"
  /\ IF todo[p] = {}
     THEN GoTo(p, "tail") /\ UNCHANGED <<endpoint, todo>>
     ELSE \E c \in todo[p] :
            /\ lock[c] = None
            /\ endpoint' = [endpoint EXCEPT ![c] = "none"]
            /\ todo' = [todo EXCEPT ![p] = @ \ {c}]
            /\ UNCHANGED pc
  /\ UNCHANGED <<settings, listener, lock, op, choice, saved, target, failed>>

\* The agent leaves with the last setup; the tagging setting stays.
UnconfigureTail(p) ==
  /\ pc[p] = "tail"
  /\ listener' = IF Configured = {} THEN None ELSE listener
  /\ End(p)
  /\ UNCHANGED <<settings, endpoint>>

-----------------------------------------------------------------------------
(* agent enable [--port].                                                  *)

\* (mutant) moves to the new port without moving the setups off the old one
BeginEnableUndrained(p, port) ==
  /\ MayBegin(p, "enable", {}) /\ Configured # {}
  /\ saved' = [saved EXCEPT ![p] = settings]
  /\ target' = [target EXCEPT ![p] = port]
  /\ settings' = [enabled |-> TRUE, keep |-> FALSE, port |-> port]
  /\ op' = [op EXCEPT ![p] = "enable"]
  /\ GoTo(p, "ensure")
  /\ UNCHANGED <<listener, endpoint, lock, todo, choice, failed>>

\* Before the listener changes its port the setups are moved off it; it goes on
\* listening meanwhile.
BeginEnable(p, port) ==
  /\ MayBegin(p, "enable", {}) /\ Configured # {}
  /\ saved' = [saved EXCEPT ![p] = settings]
  /\ target' = [target EXCEPT ![p] = port]
  /\ IF port # settings.port /\ ListenerPort(settings) # None
     THEN /\ settings' = [settings EXCEPT !.enabled = FALSE, !.keep = TRUE]
          /\ op' = [op EXCEPT ![p] = "move"]
          /\ RefreshClients(p)
     ELSE /\ settings' = [enabled |-> TRUE, keep |-> FALSE, port |-> port]
          /\ op' = [op EXCEPT ![p] = "enable"]
          /\ GoTo(p, "ensure")
          /\ UNCHANGED <<todo, failed>>
  /\ UNCHANGED <<listener, endpoint, lock, choice>>

\* The old settings come back; the move goes on only if nothing needs the old port.
Drained(p) ==
  /\ pc[p] = "drained"
  /\ settings' = saved[p]
  /\ IF failed[p] \/ UsingHelper # {}
     THEN End(p)
     ELSE /\ GoTo(p, "save")
          /\ UNCHANGED <<lock, op, todo, choice, saved, target, failed>>
  /\ UNCHANGED <<listener, endpoint>>

SavePort(p) ==
  /\ pc[p] = "save"
  /\ settings' = [enabled |-> TRUE, keep |-> FALSE, port |-> target[p]]
  /\ op' = [op EXCEPT ![p] = "enable"]
  /\ GoTo(p, "ensure")
  /\ UNCHANGED <<listener, endpoint, lock, todo, choice, saved, target, failed>>

\* The setups are rewritten only once the listener answers.
Ensure(p) ==
  /\ pc[p] = "ensure"
  /\ \/ EnsureRunning(TRUE) /\ RefreshClients(p)
     \/ EnsureRunning(FALSE) /\ GoTo(p, "rollback") /\ UNCHANGED <<todo, failed>>
  /\ UNCHANGED <<settings, endpoint, lock, op, choice, saved, target>>

Rollback(p) ==
  /\ pc[p] = "rollback"
  /\ settings' = saved[p]
  /\ GoTo(p, "update")
  /\ UNCHANGED <<listener, endpoint, lock, op, todo, choice, saved, target, failed>>

UpdateAgent(p) ==
  /\ pc[p] \in {"update", "unlisten"}
  /\ UpdateService
  /\ End(p)
  /\ UNCHANGED <<settings, endpoint>>

\* The failures of the refresh are noted in the settings file, read anew and
\* written back whole.
NoteFailures(p) ==
  /\ pc[p] = "note"
  /\ saved' = [saved EXCEPT ![p] = settings]
  /\ GoTo(p, "noted")
  /\ UNCHANGED <<settings, listener, endpoint, lock, op, todo, choice, target, failed>>

FailuresNoted(p) ==
  /\ pc[p] = "noted"
  /\ settings' = saved[p]
  /\ End(p)
  /\ UNCHANGED <<listener, endpoint>>

-----------------------------------------------------------------------------
(* agent disable.                                                          *)

BeginDisable(p) ==
  /\ MayBegin(p, "disable", {})
  /\ settings.enabled \/ ListenerPort(settings) # None \/ UsingHelper # {}
  /\ settings' = [settings EXCEPT !.enabled = FALSE, !.keep = TRUE]
  /\ saved' = [saved EXCEPT ![p] = settings']
  /\ op' = [op EXCEPT ![p] = "disable"]
  /\ RefreshClients(p)
  /\ UNCHANGED <<listener, endpoint, lock, choice, target>>

\* "the listener stays until none is left": the setups are scanned, the outcome
\* saved and the agent updated under Desktop's lock.
Scan(p) ==
  /\ pc[p] = "scan"
  /\ \/ Desktop = None /\ UNCHANGED lock
     \/ /\ Desktop # None /\ lock[Desktop] = None
        /\ lock' = [lock EXCEPT ![Desktop] = p]
  /\ settings' = [saved[p] EXCEPT !.keep = UsingHelper # {}]
  /\ GoTo(p, "unlisten")
  /\ UNCHANGED <<listener, endpoint, op, todo, choice, saved, target, failed>>

-----------------------------------------------------------------------------
(* At any time a background refresh re-renders the agent from the settings *)
(* (install), and a command may be killed.                                 *)

Reinstall ==
  /\ Configured # {}
  /\ UpdateService
  /\ UNCHANGED <<settings, endpoint, lock, local>>

Kill(p) ==
  /\ Killed /\ pc[p] # "idle"
  /\ End(p)
  /\ UNCHANGED <<settings, listener, endpoint>>

Begin(p) ==
  \/ \E c \in Clients : BeginSetup(p, c)
  \/ BeginRefresh(p)
  \/ \E clients \in SUBSET Clients : BeginUnconfigure(p, clients)
  \/ \E port \in Ports : BeginEnable(p, port)
  \/ BeginDisable(p)

Step(p) ==
  \/ \E c \in Clients : Choose(p, c) \/ SkipSetup(p, c)
  \/ WriteSetup(p) \/ ClientsDone(p)
  \/ Unconfigure(p) \/ UnconfigureTail(p)
  \/ Drained(p) \/ SavePort(p) \/ Ensure(p) \/ Rollback(p) \/ UpdateAgent(p)
  \/ NoteFailures(p) \/ FailuresNoted(p) \/ Scan(p)

Next == Reinstall \/ \E p \in Procs : Begin(p) \/ Step(p) \/ Kill(p)

Spec == Init /\ [][Next]_vars
-----------------------------------------------------------------------------
(* Properties.                                                             *)

\* enable(): a failed or partial refresh leaves the setups "on either direct Router
\* or the still-live old port ... or the live new port", and disable(): "the listener
\* stays until none is left".  No setup names a port on which nothing listens.
NoneStranded == \A c \in Clients : endpoint[c] \in Ports => listener = endpoint[c]

\* The inductive invariant behind NoneStranded.  The listener that setups use is the one the
\* settings ask for, and so it is for a setup chosen and not yet written.
InUse(port) == port = listener /\ port = ListenerPort(settings)

UseInv ==
  /\ \A c \in Clients : endpoint[c] \in Ports => InUse(endpoint[c])
  /\ \A p \in Procs :
       pc[p] = "write" /\ choice[p].endpoint \in Ports => InUse(choice[p].endpoint)

\* What a command rests on: that no setup needs the port it is about to leave, that
\* what it will restore asks for the same listener, or that it saves what is there.
Settles(p) ==
  /\ pc[p] = "save" => UsingHelper = {}
  /\ pc[p] \in {"ensure", "rollback"} /\ UsingHelper # {} =>
       ListenerPort(saved[p]) = ListenerPort(settings)
  /\ op[p] = "move" /\ pc[p] \in {"clients", "write", "drained"} =>
       ListenerPort(saved[p]) = ListenerPort(settings)
  /\ pc[p] = "noted" => saved[p] = settings
  /\ op[p] = "disable" => ~saved[p].enabled /\ saved[p].port = settings.port

SettleInv == \A p \in Procs : Settles(p)

\* What runs beside what, and who holds which lock.
StageOf(o) ==
  CASE o = "none" -> {"idle"}
    [] o \in {"setup", "refresh"} -> {"clients", "write"}
    [] o = "unconfigure" -> {"remove", "tail"}
    [] o = "move" -> {"clients", "write", "drained", "save"}
    [] o = "enable" -> {"clients", "write", "ensure", "rollback", "update", "note", "noted"}
    [] o = "disable" -> {"clients", "write", "scan", "unlisten"}

BesideInv ==
  \A p, q \in Procs : p # q =>
    /\ op[p] \in {"enable", "move", "unconfigure"} => op[q] = "none"
    /\ op[p] = "disable" =>
         op[q] = "none" \/ (op[q] = "setup" /\ todo[q] \subseteq Overlapping)

WriteInv ==
  \A p \in Procs :
    /\ pc[p] \in StageOf(op[p])
    /\ pc[p] = "write" =>
         /\ choice[p] \in Choice
         /\ choice[p].client \in todo[p]
         /\ choice[p].client \notin Unlocked => lock[choice[p].client] = p

IInv == TypeOK /\ UseInv /\ SettleInv /\ BesideInv /\ WriteInv
=============================================================================
