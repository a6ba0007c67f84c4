----------------------------- MODULE DesktopSetup ------------------------------
(***************************************************************************)
(* Claude Desktop's setup (ramp_cli/claude_cowork.py): a profile, the      *)
(* library that lists and applies it, the app's deployment mode, and the   *)
(* receipt that restores them.  Four files are written one after another   *)
(* while the app is closed; a write may fail, which takes back the others, *)
(* the process may be killed, and the user may open the app at any moment. *)
(***************************************************************************)
EXTENDS Naturals, Sequences

CONSTANTS
  Theirs,          \* the user's own profile
  Ours,            \* the profile of the setup
  MaxFailures,     \* bound: writes that fail
  MaxEdits         \* bound: changes the user makes in the app

Profiles == {Theirs, Ours}
Modes == {"absent", "1p", "3p"}
Endpoints == {"direct", "helper"}
Documents == {"receipt", "profile", "library", "mode"}
NoSetup == [at |-> "none"]
AtRest == [kind |-> "none"]

ASSUME DesktopAssumption ==
  /\ Theirs # Ours /\ "absent" \notin Profiles
  /\ MaxFailures \in Nat /\ MaxEdits \in Nat

VARIABLES
  desk,            \* the four documents
  running,         \* whether the app is open
  command,         \* the command that holds the transaction lock
  own,             \* the user's settings as the setup found them (history)
  untouched,       \* the user has changed nothing since (history)
  failures, edits  \* what is left of the bounds

desktopHistory == <<own, untouched>>
desktopVars == <<desk, running, command, desktopHistory, failures, edits>>

\* _applied_profile_usable
Usable(d) == d.library.applied \in d.library.listed
Stranded(d) ==
  d.mode.deployment = "3p" /\ ~(Usable(d) /\ (d.library.applied = Ours => d.profile # "none"))

DesktopInit ==
  /\ desk \in [receipt : {NoSetup}, profile : {"none"},
               library : [listed : {{}, {Theirs}}, applied : {"absent", Theirs}],
               mode : [deployment : Modes, awaiting : BOOLEAN]]
  /\ running \in BOOLEAN
  /\ command = AtRest
  /\ own = [library |-> desk.library, mode |-> desk.mode]
  /\ untouched = TRUE
  /\ failures = MaxFailures /\ edits = MaxEdits

-----------------------------------------------------------------------------
(* What the commands mean to write.                                         *)

\* _new_state: a mode that points at nothing is not a setting to restore.
Snapshot(d) ==
  [at |-> "set", mode |-> [d.mode EXCEPT !.deployment =
                             IF @ = "3p" /\ ~Usable(d) THEN "absent" ELSE @],
   applied |-> d.library.applied, endpoint |-> "direct"]

\* (mutant) each configure takes a new snapshot
LastSnapshot(d) == Snapshot(d)

\* The first snapshot is kept across configures.
FirstSnapshot(d) == IF d.receipt = NoSetup THEN Snapshot(d) ELSE d.receipt

\* _configure_stopped
ConfiguredDocs(d, endpoint) ==
  [receipt |-> [FirstSnapshot(d) EXCEPT !.endpoint = endpoint],
   profile |-> endpoint,
   library |-> [listed |-> d.library.listed \cup {Ours}, applied |-> Ours],
   mode |-> [deployment |-> "3p", awaiting |-> FALSE]]

\* (mutant) the mode is restored whichever profile is applied
WrittenAlways(d) == TRUE

\* The mode and what is applied are restored only while the setup's profile is.
StillApplied(d) == d.library.applied = Ours

\* What was applied before, unless it is gone: then another that is listed.
AppliedBefore(prior, listed) ==
  IF prior = "absent" \/ prior \in listed THEN {prior}
  ELSE IF listed # {} THEN listed ELSE {"absent"}

\* _restore_owned_key, for the two keys: a value the user has set stays.
ModeBefore(d) ==
  IF ~StillApplied(d) THEN d.mode
  ELSE [deployment |-> IF d.mode.deployment = "3p" THEN d.receipt.mode.deployment
                       ELSE d.mode.deployment,
        awaiting |-> d.mode.awaiting \/ d.receipt.mode.awaiting]

\* (mutant) the mode stays, whatever is left to apply
ModeKept(mode, library) == mode

\* Never leave the mode with nothing to apply.
ModeWith(mode, library) ==
  IF mode.deployment = "3p" /\ ~(library.applied \in library.listed)
  THEN [mode EXCEPT !.deployment = "absent"] ELSE mode

\* _unconfigure_stopped
Unconfigured(d) ==
  LET listed == d.library.listed \ {Ours} IN
    {[receipt |-> NoSetup, profile |-> "none", library |-> library,
      mode |-> ModeWith(ModeBefore(d), library)] :
       library \in [listed : {listed},
                    applied : IF StillApplied(d) THEN AppliedBefore(d.receipt.applied, listed)
                              ELSE {d.library.applied}]}

\* _owned_profile: an endpoint edited in the app is the user's choice.
Owned(d) == d.receipt # NoSetup /\ d.profile = d.receipt.endpoint

Migrated(d, endpoint) ==
  [d EXCEPT !.profile = endpoint, !.receipt.endpoint = endpoint]

-----------------------------------------------------------------------------
(* The transaction: documents written in order, or restored in order.       *)

\* (mutant) the mode is written first
ModeFirst == <<"mode", "receipt", "profile", "library">>

\* The receipt is first, so that an interrupted run can be undone, the mode last.
ConfigureOrder == <<"receipt", "profile", "library", "mode">>
RestoreOrder == <<"mode", "library", "profile", "receipt">>
MigrateOrder == <<"profile", "receipt">>

\* The app is quit and the lock taken; the steps follow.
BeginCommand(kind, order, target) ==
  /\ command = AtRest
  /\ running' = FALSE
  /\ command' = [kind |-> kind, left |-> order, to |-> target, from |-> desk, undoing |-> FALSE]
  /\ UNCHANGED <<desk, failures, edits>>

Configure(endpoint) ==
  /\ BeginCommand("configure", ConfigureOrder, ConfiguredDocs(desk, endpoint))
  /\ IF desk.receipt # NoSetup THEN UNCHANGED desktopHistory
     ELSE /\ own' = [library |-> desk.library, mode |-> desk.mode]
          /\ untouched' = TRUE

UnconfigureDesktop ==
  /\ desk.receipt # NoSetup
  /\ \E target \in Unconfigured(desk) : BeginCommand("unconfigure", RestoreOrder, target)
  /\ UNCHANGED desktopHistory

\* refresh_agent_routing: only an owned profile, and only a closed app unless the
\* user asked for its restart.
Migrate(endpoint) ==
  /\ Owned(desk) /\ endpoint # desk.profile
  /\ BeginCommand("migrate", MigrateOrder, Migrated(desk, endpoint))
  /\ UNCHANGED desktopHistory

Write ==
  /\ command # AtRest /\ command.left # <<>>
  /\ desk' = [desk EXCEPT ![Head(command.left)] = command.to[Head(command.left)]]
  /\ command' = [command EXCEPT !.left = Tail(@)]
  /\ UNCHANGED <<running, desktopHistory, failures, edits>>

\* A write fails: every document of the command is put back; one that cannot be is left.
Fail ==
  /\ command # AtRest /\ command.left # <<>> /\ failures > 0
  /\ failures' = failures - 1
  /\ command' = IF command.undoing THEN [command EXCEPT !.left = Tail(@)]
                ELSE [command EXCEPT !.left = IF command.kind = "migrate" THEN MigrateOrder
                                              ELSE RestoreOrder,
                                     !.to = command.from, !.undoing = TRUE]
  /\ UNCHANGED <<desk, running, desktopHistory, edits>>

\* The app is opened again, which may fail too.
EndCommand ==
  /\ command # AtRest /\ command.left = <<>>
  /\ command' = AtRest
  /\ running' \in {running, TRUE}
  /\ UNCHANGED <<desk, desktopHistory, failures, edits>>

\* Bound: no second fault while a failed write is taken back.
KillCommand ==
  /\ command # AtRest /\ ~command.undoing
  /\ command' = AtRest
  /\ UNCHANGED <<desk, running, desktopHistory, failures, edits>>

-----------------------------------------------------------------------------
(* The user, in the app or by opening and closing it.                       *)

OpenOrQuit ==
  /\ running' = ~running
  /\ UNCHANGED <<desk, command, desktopHistory, failures, edits>>

Edit(d) ==
  /\ running /\ command = AtRest /\ edits > 0
  /\ desk' = d /\ desk' # desk
  /\ edits' = edits - 1
  /\ untouched' = FALSE
  /\ UNCHANGED <<running, command, own, failures>>

\* Another profile is applied or removed, the mode left, the endpoint edited.
Apply == Edit([desk EXCEPT !.library = [listed |-> @.listed \cup {Theirs}, applied |-> Theirs]])
Remove ==
  /\ desk.library.applied # Theirs
  /\ Edit([desk EXCEPT !.library.listed = @ \ {Theirs}])
LeaveMode == Edit([desk EXCEPT !.mode.deployment = "1p"])
EditEndpoint == desk.profile # "none" /\ Edit([desk EXCEPT !.profile = "edited"])

DesktopNext ==
  \/ \E endpoint \in Endpoints : Configure(endpoint) \/ Migrate(endpoint)
  \/ UnconfigureDesktop \/ Write \/ Fail \/ EndCommand \/ KillCommand
  \/ OpenOrQuit \/ Apply \/ Remove \/ LeaveMode \/ EditEndpoint

DesktopSpec == DesktopInit /\ [][DesktopNext]_desktopVars

-----------------------------------------------------------------------------

\* No step of a command, the one after which it is killed included, leaves the app
\* in a mode with no listed profile that is there: opened then, it would drop to a
\* first-party sign-in while it looks configured.  Only what was so before may be
\* put back, and the undo of a failed removal is left out: it restores the mode
\* first.  (The order of the writes in _configure_stopped, _unconfigure_stopped.)
NeverStranded ==
  [][Stranded(desk') =>
       \/ Stranded(desk)
       \/ command.undoing /\ (Stranded(command.from) \/ command.kind = "unconfigure")]_desktopVars

\* When no receipt is left and the user has changed nothing, the settings are what
\* they were, less a mode or an applied profile that pointed at nothing; what a failed
\* or killed command left half done has a receipt to undo it by.
\* (_configure_stopped, _unconfigure_stopped, _restore_owned_key)
SettingsComeBack ==
  command = AtRest /\ desk.receipt = NoSetup /\ untouched =>
    /\ desk.profile = "none" /\ desk.library.listed = own.library.listed
    /\ \/ desk.library.applied = own.library.applied
       \/ own.library.applied \notin own.library.listed
    /\ \/ desk.mode = own.mode
       \/ /\ own.mode.deployment = "3p" /\ ~Usable(own)
          /\ desk.mode = [own.mode EXCEPT !.deployment = "absent"]

\* What the user has chosen in the app since the setup stands but for a configure: a
\* refresh leaves an edited endpoint, and a removal a mode that was left or another
\* profile that was applied.  (_validate_owned_profile_fields, _restore_owned_key)
ChoicesStand ==
  [][(command # AtRest /\ command.kind # "configure" /\ ~command.undoing) =>
       /\ desk.profile = "edited" /\ command.kind = "migrate" => desk'.profile = "edited"
       /\ desk.library.applied = Theirs => desk'.library.applied = Theirs
       /\ desk.mode.deployment = "1p" => desk'.mode.deployment = "1p"]_desktopVars

-----------------------------------------------------------------------------
(* Why they hold: an invariant that every step keeps while what is taken    *)
(* back is taken back without a second failure.                             *)

Libraries == [listed : SUBSET Profiles, applied : Profiles \cup {"absent"}]
ModeDocs == [deployment : Modes, awaiting : BOOLEAN]
DeskReceipts == {NoSetup} \cup [at : {"set"}, mode : ModeDocs, applied : Profiles \cup {"absent"},
                            endpoint : Endpoints]
DeskDocs == [receipt : DeskReceipts, profile : {"none", "edited"} \cup Endpoints,
             library : Libraries, mode : ModeDocs]
DeskCommands == [kind : {"configure", "unconfigure", "migrate"}, left : Seq(Documents),
            to : DeskDocs, from : DeskDocs, undoing : BOOLEAN]

DesktopTypeOK ==
  /\ desk \in DeskDocs
  /\ command \in DeskCommands \cup {AtRest}
  /\ own \in [library : Libraries, mode : ModeDocs]
  /\ untouched \in BOOLEAN /\ failures \in Nat

SecondFault == command # AtRest /\ command.undoing /\ failures' # failures

\* What is left of an order as the documents are written, or put back.
LeftOf(c) ==
  IF c.kind = "migrate" THEN {<<"profile", "receipt">>, <<"receipt">>, <<>>}
  ELSE IF c.kind = "unconfigure" \/ c.undoing
  THEN {<<"mode", "library", "profile", "receipt">>, <<"library", "profile", "receipt">>,
        <<"profile", "receipt">>, <<"receipt">>, <<>>}
  ELSE {<<"receipt", "profile", "library", "mode">>, <<"profile", "library", "mode">>,
        <<"library", "mode">>, <<"mode">>, <<>>}

Pending(c) == {c.left[i] : i \in 1 .. Len(c.left)}

\* What is not left is written or put back; what is left to write is not yet touched.
InTurn(c) ==
  /\ c.left \in LeftOf(c)
  /\ \A doc \in Documents \ Pending(c) : desk[doc] = c.to[doc]
  /\ ~c.undoing => \A doc \in Pending(c) : desk[doc] = c.from[doc]

\* What a command means to write.
Meant(c) ==
  IF c.undoing THEN c.to = c.from
  ELSE /\ c.kind = "configure" =>
            /\ \E e \in Endpoints : c.to = ConfiguredDocs(c.from, e)
            /\ c.from.receipt = NoSetup =>
                 own = [library |-> c.from.library, mode |-> c.from.mode] /\ untouched
       /\ c.kind = "unconfigure" => c.from.receipt # NoSetup /\ c.to \in Unconfigured(c.from)
       /\ c.kind = "migrate" => Owned(c.from) /\ \E e \in Endpoints : c.to = Migrated(c.from, e)

BackLibrary(l) ==
  /\ l.listed = own.library.listed
  /\ l.applied = own.library.applied \/ own.library.applied \notin own.library.listed

BackMode(m) ==
  \/ m = own.mode
  \/ /\ own.mode.deployment = "3p" /\ ~Usable(own)
     /\ m = [own.mode EXCEPT !.deployment = "absent"]

\* The setup's profile is listed and applied only under a receipt, which holds what was
\* found; what the user has not touched is as it was or as the setup has made it.
Kept(d) ==
  /\ d.receipt = NoSetup =>
       /\ d.profile = "none" /\ Ours \notin d.library.listed /\ d.library.applied # Ours
       /\ untouched => BackLibrary(d.library) /\ BackMode(d.mode)
  /\ d.receipt # NoSetup =>
       /\ Ours \notin own.library.listed /\ own.library.applied # Ours
       /\ d.receipt.applied = own.library.applied /\ d.receipt.mode = Snapshot(own).mode
       /\ untouched =>
            /\ d.library.listed \ {Ours} = own.library.listed
            /\ IF StillApplied(d)
               THEN /\ d.mode.deployment \in {"3p", d.receipt.mode.deployment}
                    /\ d.mode.awaiting => own.mode.awaiting
               ELSE /\ BackMode(d.mode)
                    /\ \/ d.library.applied = own.library.applied
                       \/ own.library.applied \notin own.library.listed

DeskKept ==
  /\ command = AtRest \/ ~command.undoing => Kept(desk)
  /\ command # AtRest => Kept(command.from)

\* A configure or a migrate that is taken back has written no mode, and no library
\* without the profile.
TakingBack ==
  command # AtRest /\ command.undoing /\ command.kind # "unconfigure" =>
    /\ desk.mode = command.from.mode
    /\ desk.profile \in {command.from.profile} \cup Endpoints
    /\ \/ desk.library = command.from.library
       \/ Usable(desk) /\ desk.profile \in Endpoints

DesktopInv ==
  /\ DesktopTypeOK /\ DeskKept /\ TakingBack
  /\ command # AtRest => InTurn(command) /\ Meant(command)
=============================================================================
