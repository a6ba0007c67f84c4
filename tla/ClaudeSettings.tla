---------------------------- MODULE ClaudeSettings -----------------------------
(***************************************************************************)
(* Claude Code's settings while it is set up for Router (ramp_cli/commands/*)
(* claude_code.py, and its callers in router.py).                          *)
(*                                                                         *)
(* Router writes some keys of settings.json and keeps a receipt: what each *)
(* key was, and what it wrote there.  Who owns a key is told by its value: *)
(* one that still holds what the receipt says Router wrote is Router's and *)
(* is put back when the setup is removed, any other is the user's.  Every  *)
(* command reads and writes both files under one lock, the receipt first;  *)
(* a refresh asks Router before it takes the lock.                         *)
(***************************************************************************)
EXTENDS Naturals, FiniteSets

CONSTANTS
  Connections,     \* Router endpoints with a key
  RouterModels,    \* the ids of Router's Claude Code view
  Preferred,       \* the one a setup starts on
  Edited,          \* the sets of keys one user handEdits, by hand or by a command for them
  MaxHandEdits,    \* bound: edits by the user
  MaxKills,        \* bound: commands killed between two files
  Beside           \* whether a setup is changed beside a refresh of everything

\* The headers, the connectors' switch and what feeds the status line go with
\* the gateway; a tier stands for each tier of sub-agents.
Env == {"gateway", "apiKey", "cap", "tier"}
ClaimedKeys == Env \cup {"model"}
Keys == ClaimedKeys \cup {"bar"}

\* What a user may have: "tight" is a window under Router's cap, "wide" is not.
Native == [gateway |-> {"absent", "theirs"}, apiKey |-> {"absent", "sk"},
           cap |-> {"absent", "tight", "wide"}, tier |-> {"absent", "mine"},
           model |-> {"absent", "native"}, bar |-> {"absent", "mine"}]
Unclaimed == "unclaimed"
NoDefault == [default |-> "none", displaced |-> "none", of |-> "none"]
NoClaudeSetup == [set |-> FALSE]
Waiting == [at |-> "idle"]

ASSUME ModelsAssumption == Preferred \in RouterModels /\ Edited \subseteq SUBSET (Keys \cup {"hooks"})
\* Nothing of Router's has the name of something of a user's.
ASSUME NamesAssumption ==
  (Connections \cup RouterModels) \cap ((UNION {Native[k] : k \in Keys}) \cup {"ours", Unclaimed}) = {}
ASSUME EditBoundsAssumption == MaxHandEdits \in Nat /\ MaxKills \in Nat /\ Beside \in BOOLEAN

VARIABLES
  claude,        \* the keys of settings.json
  hooks,         \* the entries of its session hooks
  setup,         \* the receipt, ramp-router-state.json
  widget,        \* whether Router's status line is wanted
  shell,         \* the compact window Claude Code has beneath its settings
  refresh,       \* a refresh between its answers and the lock
  editable,      \* the keys this user edits
  yours,         \* what the user last made of each key (history)
  origin,        \* what would have come back when Router first claimed it (history)
  replaced,      \* keys where a command wrote over, or the user gave up, that edit (history)
  torn,          \* keys and hooks with Router's, which the receipt lost to a kill (history)
  stranded,      \* those where a removal then left Router's (history)
  handEdits, fileKills   \* what is left of the bounds

claudeFiles == <<claude, hooks, setup>>
claudeHistory == <<yours, origin, replaced, torn, stranded>>
claudeVars == <<claudeFiles, widget, shell, refresh, editable, claudeHistory, handEdits, fileKills>>

ClaudeInit ==
  /\ editable \in Edited
  /\ \E own \in [editable \cap Keys -> UNION {Native[k] : k \in Keys}] :
       /\ \A k \in DOMAIN own : own[k] \in Native[k]
       /\ claude = [k \in Keys |-> IF k \in editable THEN own[k] ELSE "absent"]
  /\ hooks \in IF "hooks" \in editable THEN SUBSET {"mine", "wrap"} ELSE {{}}
  /\ shell \in IF "cap" \in editable THEN {"absent", "tight"} ELSE {"absent"}
  /\ setup = NoClaudeSetup
  /\ widget = TRUE
  /\ refresh = Waiting
  /\ yours = claude /\ origin = claude /\ replaced = {} /\ torn = {} /\ stranded = {}
  /\ handEdits = MaxHandEdits /\ fileKills = MaxKills

-----------------------------------------------------------------------------
(* What a configure writes, and its receipt.                                *)

\* _apply_auto_compact_cap: a window the user has under the cap is left alone,
\* and so is the cap itself.
ClaimsCap(s) == (IF s.cap # "absent" THEN s.cap ELSE shell) \notin {"tight", "ours"}

\* _statusline_slot_is_ours
SlotIsOurs(s) == s.bar \in {"absent", "ours"}

\* plan_configuration: the settings ...
ClaudeConfigured(s, connection, model) ==
  [s EXCEPT !.gateway = connection, !.apiKey = "absent", !.model = model,
            !.cap = IF ClaimsCap(s) THEN "ours" ELSE @,
            !.bar = IF ~SlotIsOurs(s) THEN @ ELSE IF widget THEN "ours" ELSE "absent"]

\* ... and what undoes them.
FreshSetup(s, connection, model) ==
  [set |-> TRUE,
   was |-> [k \in ClaimedKeys |-> IF k = "model" /\ s.model \in RouterModels THEN "absent" ELSE s[k]],
   claims |-> [gateway |-> connection, apiKey |-> "absent", model |-> model, tier |-> Unclaimed,
               cap |-> IF ClaimsCap(s) THEN "ours" ELSE Unclaimed],
   bar |-> IF SlotIsOurs(s) THEN s.bar ELSE "none",
   hook |-> "none",
   workspace |-> NoDefault]

\* (mutant) what was captured first is kept, whoever owned the key since
FirstCapture(previous, fresh, k) == previous.was[k]

\* A key claimed only now takes the value from just before this write.
Captured(previous, fresh, k) ==
  IF k \in Env /\ fresh.claims[k] # Unclaimed /\ previous.claims[k] = Unclaimed
  THEN fresh.was[k] ELSE previous.was[k]

\* A claim this configure left alone is released when the user has changed it.
Claims(previous, fresh, k) ==
  IF fresh.claims[k] # Unclaimed THEN fresh.claims[k]
  ELSE IF k = "cap" /\ fresh.was[k] # previous.claims[k] THEN Unclaimed
  ELSE previous.claims[k]

\* merge_states
MergedSetup(previous, fresh) ==
  IF ~previous.set THEN fresh
  ELSE [previous EXCEPT
          !.was = [k \in ClaimedKeys |-> Captured(previous, fresh, k)],
          !.claims = [k \in ClaimedKeys |-> Claims(previous, fresh, k)],
          !.bar = IF @ # "none" THEN @ ELSE fresh.bar]

\* _plan_hook: a hook of the user's that runs the sync supersedes Router's.
OwnedHook(r) == IF r.hook = "ours" THEN hooks \cap {"ours"} ELSE {}
Superseded(r) == (hooks \ OwnedHook(r)) \cap {"wrap", "ours"} # {}
HooksWith(r) == IF Superseded(r) THEN hooks \ OwnedHook(r) ELSE hooks \cup {"ours"}
HookRecord(r) == IF Superseded(r) THEN "user" ELSE "ours"

-----------------------------------------------------------------------------
(* The workspace's default model: _resolve_claude_code_model.               *)

\* What the receipt caches, if it was read under this connection.
RecordedDefault(r, connection) ==
  IF r.set /\ r.workspace.of = connection THEN r.workspace ELSE NoDefault

\* Router's answer, or the cached default when it was not heard.
AdminDefault(r, connection, answer) ==
  IF answer = "silent" THEN RecordedDefault(r, connection).default ELSE answer

Served(model) == IF model \in RouterModels THEN model ELSE Preferred

\* The model a default displaces is the one before the first of them.
Displaced(s, r, connection) ==
  IF RecordedDefault(r, connection).default = "none" THEN s.model ELSE RecordedDefault(r, connection).displaced

Resolved(s, r, connection, answer, selected) ==
  LET admin == AdminDefault(r, connection, answer) IN
    IF admin # "none" THEN admin
    ELSE IF RecordedDefault(r, connection).default # "none" THEN Served(RecordedDefault(r, connection).displaced)
    ELSE Served(selected)

DefaultRecords(s, r, connection, answer) ==
  LET admin == AdminDefault(r, connection, answer) IN
    IF admin = "none" THEN NoDefault
    ELSE [default |-> admin, displaced |-> Displaced(s, r, connection), of |-> connection]

-----------------------------------------------------------------------------
(* Both files are written, the receipt first.                               *)

Claimed(r, k) == r.set /\ r.claims[k] # Unclaimed

\* _still_ours; a Router model does not outlive Router, whoever picked it.
StillOursIn(s, r, k) ==
  \/ r.claims[k] # Unclaimed /\ s[k] = r.claims[k]
  \/ k = "model" /\ s.model \in RouterModels
StillOurs(k) == StillOursIn(claude, setup, k)

\* What the user has without Router: the newest edit of a key, unless it was
\* replaced, and then what there was before Router's claim.
ComesBack(k) == IF k \in replaced THEN origin[k] ELSE yours[k]

\* History of settings written with a receipt: a new claim begins, and a write
\* over the user's own value of a key that stays claimed replaces it.
Keep(s2, r2) ==
  /\ origin' = [k \in Keys |-> IF k \in ClaimedKeys /\ Claimed(r2, k) /\ ~Claimed(setup, k)
                               THEN ComesBack(k) ELSE origin[k]]
  /\ replaced' = replaced \cup
       {k \in ClaimedKeys : Claimed(setup, k) /\ Claimed(r2, k)
                             /\ claude[k] # setup.claims[k] /\ s2[k] = r2.claims[k]}
  /\ UNCHANGED <<yours, stranded>>

\* Keys that go on holding a value of Router's which the receipt does not know.
Torn(s2, r2) ==
  {k \in ClaimedKeys : /\ s2[k] = claude[k] /\ ~StillOursIn(s2, r2, k)
                       /\ k \in torn \/ (setup.set /\ StillOurs(k))}

WriteBoth(s2, h2, r2) ==
  /\ setup' = r2
  /\ \/ /\ claude' = s2 /\ hooks' = h2 /\ UNCHANGED fileKills
        /\ torn' = Torn(s2, r2) \cup (torn \cap {"hooks"})
        /\ Keep(s2, r2)
     \/ /\ fileKills > 0 /\ fileKills' = fileKills - 1 /\ UNCHANGED <<claude, hooks>>
        /\ torn' = Torn(claude, r2) \cup (torn \cap {"hooks"})
             \cup {h \in {"hooks"} : /\ "ours" \in hooks /\ setup.set
                                    /\ setup.hook = "ours" /\ r2.hook = "user"}
        /\ Keep(claude, r2)

\* _configure_claude_code in the lock, with the default's records.
Rewrite(connection, model, records) ==
  LET merged == MergedSetup(setup, FreshSetup(claude, connection, model)) IN
    WriteBoth(ClaudeConfigured(claude, connection, model), HooksWith(merged),
          [merged EXCEPT !.workspace = records, !.hook = HookRecord(merged)])

Answers == {"none", "silent"} \cup RouterModels

ConfigureClaude ==
  /\ Beside \/ refresh.at # "everything"
  /\ \E connection \in Connections, answer \in Answers :
       Rewrite(connection, Resolved(claude, setup, connection, answer, Preferred),
               DefaultRecords(claude, setup, connection, answer))
  /\ UNCHANGED <<widget, shell, refresh, editable, handEdits>>

\* A model named by the user is written as asked, and is what a default displaces.
PickModel ==
  /\ "model" \in editable /\ setup.set /\ claude.gateway \in Connections
  /\ \E model \in RouterModels, answer \in Answers :
       LET admin == AdminDefault(setup, claude.gateway, answer) IN
         Rewrite(claude.gateway, model,
                 IF admin = "none" THEN NoDefault
                 ELSE [default |-> admin, displaced |-> model, of |-> claude.gateway])
  /\ UNCHANGED <<widget, shell, refresh, editable, handEdits>>

\* plan_subagent_update: a tier is captured when it is first written.
WriteTier ==
  /\ "tier" \in editable /\ setup.set
  /\ \E tier \in RouterModels \cup {"absent"} :
       WriteBoth([claude EXCEPT !.tier = tier], hooks,
             [setup EXCEPT !.was.tier = IF setup.claims.tier = Unclaimed THEN claude.tier ELSE @,
                           !.claims.tier = tier])
  /\ UNCHANGED <<widget, shell, refresh, editable, handEdits>>

\* _set_claude_code_statusline; what hides it leaves the receipt alone.
ShowWidget ==
  /\ "bar" \in editable /\ setup.set /\ SlotIsOurs(claude)
  /\ widget' = TRUE
  /\ WriteBoth([claude EXCEPT !.bar = "ours"], hooks,
           [setup EXCEPT !.bar = IF @ = "none" THEN claude.bar ELSE @])
  /\ UNCHANGED <<shell, refresh, editable, handEdits>>

HideWidget ==
  /\ "bar" \in editable /\ widget /\ widget' = FALSE
  /\ claude' = IF claude.bar = "ours" THEN [claude EXCEPT !.bar = "absent"] ELSE claude
  /\ UNCHANGED <<hooks, setup, shell, refresh, editable, claudeHistory, handEdits, fileKills>>

-----------------------------------------------------------------------------
(* Refreshes, which ask Router before they take the lock, and the hooks.    *)

\* `ramp router refresh` writes everything, the background the model alone.
AskRouter ==
  /\ refresh = Waiting /\ setup.set /\ claude.gateway \in Connections
  /\ \E kind \in {"everything", "model"} :
       refresh' = [at |-> kind, of |-> claude.gateway, selected |-> claude.model]
  /\ UNCHANGED <<claudeFiles, widget, shell, editable, claudeHistory, handEdits, fileKills>>

RefreshEverything ==
  /\ refresh.at = "everything"
  /\ \E answer \in Answers :
       Rewrite(refresh.of, Resolved(claude, setup, refresh.of, answer, refresh.selected),
               DefaultRecords(claude, setup, refresh.of, answer))
  /\ refresh' = Waiting
  /\ UNCHANGED <<widget, shell, editable, handEdits>>

\* A model the user picked outside Router's list is theirs.
TheirsToKeep(records, recorded) ==
  /\ records = NoDefault /\ recorded = "none"
  /\ claude.model \notin RouterModels \cup {"absent", setup.claims.model}

\* Unconfigured while Router was asked: nothing is written.
StillConfigured == setup.set

\* _refresh_claude_code_model
RefreshModel ==
  /\ refresh.at = "model"
  /\ \/ ~StillConfigured /\ UNCHANGED <<claudeFiles, claudeHistory, fileKills>>
     \/ /\ StillConfigured
        /\ \E answer \in Answers :
             LET model == Resolved(claude, setup, refresh.of, answer, refresh.selected)
                 records == DefaultRecords(claude, setup, refresh.of, answer)
                 shown == IF widget \/ claude.bar # "ours" THEN claude ELSE [claude EXCEPT !.bar = "absent"]
             IN IF TheirsToKeep(records, RecordedDefault(setup, refresh.of).default)
                THEN WriteBoth(shown, hooks, [setup EXCEPT !.workspace = NoDefault])
                ELSE WriteBoth([shown EXCEPT !.model = model], hooks,
                           [setup EXCEPT !.claims.model = model, !.workspace = records])
  /\ refresh' = Waiting
  /\ UNCHANGED <<widget, shell, editable, handEdits>>

\* _apply_claude_code_admin_default, in the hooks, while the settings use the
\* connection the default was read under.
EnforceDefault ==
  /\ setup.set /\ setup.workspace # NoDefault
  /\ claude.gateway = setup.claims.gateway /\ claude.gateway = setup.workspace.of
  /\ claude.model # setup.workspace.default
  /\ WriteBoth([claude EXCEPT !.model = setup.workspace.default], hooks,
           [setup EXCEPT !.claims.model = setup.workspace.default])
  /\ UNCHANGED <<widget, shell, refresh, editable, handEdits>>

-----------------------------------------------------------------------------
(* Removal, and the user.                                                   *)

\* plan_restoration
Restored ==
  [k \in Keys |->
     IF k = "bar" THEN IF setup.bar # "none" /\ claude.bar = "ours" THEN setup.bar ELSE claude.bar
     ELSE IF StillOurs(k) THEN setup.was[k] ELSE claude[k]]

\* _unconfigure_claude_code; what the receipt lost to a kill passes for the user's.
UnconfigureClaude ==
  /\ setup.set /\ (Beside \/ refresh.at # "everything")
  /\ claude' = Restored
  /\ hooks' = IF setup.hook = "ours" THEN hooks \ {"ours"} ELSE hooks
  /\ \/ /\ setup' = NoClaudeSetup /\ UNCHANGED fileKills
        /\ stranded' = stranded \cup torn /\ torn' = {}
     \/ fileKills > 0 /\ fileKills' = fileKills - 1 /\ UNCHANGED <<setup, stranded, torn>>
  /\ UNCHANGED <<widget, shell, refresh, editable, yours, origin, replaced, handEdits>>

\* The user gives a key another value, though not the very one Router wrote:
\* that cannot be told from Router's.  To pick a Router model is no choice for
\* the time without Router: it gives up the one before.  An edit takes away what
\* a kill left, though where a setup claims the key its receipt still has it.
EditByHand ==
  /\ handEdits > 0 /\ handEdits' = handEdits - 1
  /\ \/ \E k \in editable \cap Keys :
          \E v \in Native[k] \cup (IF k = "model" /\ setup.set THEN RouterModels ELSE {}) :
            /\ v # claude[k]
            /\ setup.set /\ k \in ClaimedKeys => v # setup.claims[k]
            /\ claude' = [claude EXCEPT ![k] = v]
            /\ yours' = [yours EXCEPT ![k] = IF v \in RouterModels THEN @ ELSE v]
            /\ replaced' = IF v \in RouterModels THEN replaced \cup {k} ELSE replaced \ {k}
            /\ torn' = torn \ {k}
            /\ stranded' = IF k \in ClaimedKeys /\ Claimed(setup, k) THEN stranded ELSE stranded \ {k}
            /\ UNCHANGED hooks
     \/ /\ "hooks" \in editable
        /\ \E h \in SUBSET {"mine", "wrap", "ours"} :
             /\ h # hooks /\ ("ours" \in h => "ours" \in hooks)
             /\ hooks' = h
             /\ torn' = IF "ours" \in h THEN torn ELSE torn \ {"hooks"}
             /\ stranded' = IF "ours" \in h THEN stranded ELSE stranded \ {"hooks"}
        /\ UNCHANGED <<claude, yours, replaced>>
  /\ UNCHANGED <<setup, widget, shell, refresh, editable, origin, fileKills>>

ClaudeNext ==
  \/ ConfigureClaude \/ PickModel \/ WriteTier \/ ShowWidget \/ HideWidget
  \/ AskRouter \/ RefreshEverything \/ RefreshModel \/ EnforceDefault
  \/ UnconfigureClaude \/ EditByHand

ClaudeSpec == ClaudeInit /\ [][ClaudeNext]_claudeVars

-----------------------------------------------------------------------------
(* Properties. *)

\* When the setup has been removed, every key of settings.json is what the user
\* last made of it, and no hook of Router's is left: the receipt's comparison of
\* values finds out who owns what, however configures, refreshes, tier and widget
\* changes, edits by hand and removals have alternated, killed half way or not.
\* Two things do not come back.  An edit that a command of Router has written over
\* since gives way to what was there before the claim (ComesBack).  And where a
\* command was killed with a new receipt written over one that knew the value or
\* the hook in the settings, a removal before the next write takes Router's for
\* the user's: what was torn so is left out (stranded) until the user has
\* edited it without Router.
YoursComesBack ==
  ~setup.set => /\ \A k \in Keys \ stranded : claude[k] = ComesBack(k)
                /\ "hooks" \notin stranded => "ours" \notin hooks

=============================================================================
