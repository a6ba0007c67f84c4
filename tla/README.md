# Formal models of the Ramp CLI

TLA+ models of the parts of this repository in which several actors share
state, or in which one step of several may fail: CLI processes on one login,
commands and background services on one choice, threads on one cache, installers
on one directory, a scheduler with its agent on one manifest, setups written into
the files of clients that their user edits too, a bridge between an agent and
Router, and memories of what was seen before. TLC checks each module on small
instances; TLAPS proves the safety properties of all of them but `Attribution`,
for every size.

Paths below are relative to `src/src/ramp_cli/` unless they say otherwise
(`npm/` and `router-agent/` stand for `src/npm/` and `src/router-agent/`).

1. [The system](#the-system)
2. [The modules](#the-modules)
3. [What the runs check](#what-the-runs-check)
4. [Fairness](#fairness)
5. [What is proved](#what-is-proved)
6. [Findings](#findings)
7. [Observations](#observations)
8. [What is not modelled](#what-is-not-modelled)
9. [Plan](#plan)

## The system

`ramp` is a command-line client. It signs in to Ramp's developer API and,
separately, to Router, a gateway for language models. For Router it writes the
configuration of coding agents (Claude Code, Codex, Hermes, OpenCode, ...: the
*setups* of this computer), keeps them current in the background, and has a
terminal app. A native agent written in Rust and an npm package come with it.

Nothing coordinates the processes except files: logins, markers, receipts,
manifests, and the locks beside them.

| Component | State it keeps | Operations | What is hard | What makes it correct |
|---|---|---|---|---|
| **Router login** `client/router_user.py` | the login file (refresh secret, a pending successor, access token), the refresh lock, a 30 s session check per process | `access_token`, `login`, `logout`, `recover_login` | a refresh secret can be used once; answers get lost; processes die between the request and the write; others sign in or out meanwhile | the login is never stranded, never signs itself out, never comes back once replaced |
| **Background sync schedule** `commands/router_schedule.py` | two marker files (the choice), the services in launchd, two locks | enable, disable, install, migrate, remove, a background tick | removing the job kills the refresh it runs; two locks; deferred removal | an opt-out sticks, no write is cut in two, every removal happens |
| **Repository tagging** `commands/router_repo.py` | helper settings, the agent's listener, the endpoint in every setup | enable, move to another port, disable, setup, refresh, unconfigure | many files rewritten one by one, any of which may fail; a setup chooses its endpoint before it writes it | no setup names a port nobody listens on |
| **Scheduled tick** `commands/router.py` | `router-sync.json`: versions seen, retries and their backoff, revocations, a pending pass over Claude Desktop | `_scheduled_tick`, `_retry_pending_cowork`, `_write_agent_manifest` | one setup fails, others succeed; five outcomes per connection; four timers | no change is recorded as applied and forgotten |
| **Native agent: scheduler** `router-agent/src/sync.rs` | the changes it acted on within the hour; reads the manifest | `decide` every few minutes | judges by a manifest an earlier run wrote | starts a run exactly when the run would find something to do |
| **App: read cache** `router_ui/cache.py` | answers by read, requests in flight, a generation | `get`, `invalidate`, `@mutation` | reads that began before an invalidation; callers who join a request; requests that fail | no answer is older than the last invalidation before its call |
| **App: event loop** `router_ui/app.py` | the account on screen, the rows of each screen, a generation of changes | open, reload, change, preload, `perform`, `account_changed` | results land late, after a change or for another account | no screen shows rows from before a change or of another account |
| **Developer API login** `auth/refresh.py`, `auth/store.py`, `config/` | slots in `profiles.toml` and `config.toml`, a lock per slot | silent refresh, sign-in, sign-out | rotation by several processes; two files with different guards | a sign-in stands; no token is used twice |
| **npm launcher: installation** `npm/cli/lib/installer.js` | the distribution, its backup, the receipt, a lock that goes stale | install, recover, claim the receipt, refresh Router | crashes between renames, stolen locks | a CLI once installed stays; a refresh owed is remembered |
| **Codex threads** `commands/router.py` (11595-12663) | the provider each transcript and each row of Codex's index names, the receipt | configure, its undo, unconfigure, reclaim | steps fail or are the last; Codex starts, archives and retags threads meanwhile | no thread is hidden, each comes back as it was |
| **Claude Code settings** `commands/claude_code.py`, `commands/router.py` | `settings.json`, the receipt | configure, model, tiers, status line, two refreshes, hook, unconfigure | ownership of a key is told by its value; two files, written one after the other; a user who edits | what was the user's comes back |
| **Claude Desktop setup** `claude_cowork.py` | profile, library, mode, receipt | configure, unconfigure, migrate | four files change as one, are rolled back, the app may be opened at any moment | never a mode that points at nothing; what the user chose stands |
| **Switchyard push** `commands/router.py` | who is owed the one-time push, the saved model of each harness | claim, write, settle, hand back | overlapping refreshes; a write that failed after it took effect; a user who picks | pushed once, owed until then, never over a later choice |
| **Connectors** `router_connectors/{auth,bridge}.py` | a cached token, two locks, a pool, a pinned session | issue a token, bridge stdio to HTTP | the login changes between the check and the renewal; cancellations behind busy workers; one retry | nothing is sent for another account; one answer each |
| **Pi's provider** `router_integrations/packages/pi-provider` | a private cache of models, the live catalog, a generation | launch, background refresh, the host's refreshes, a new key | refreshes overtake each other while the key changes | the catalog is of the present key and never older |
| **Native agent: attribution** `router-agent/src/attr.rs` | states remembered per session key | read a request in full or continue from a state | conversations share a key, go back, fork, are summed up | continuing gives what reading all of it would |
| **Strategies** `commands/router_user_strategies.py` | a draft of a routing profile | open, edit, save in several requests, rebase, delete | requests fail before or after the server acted; others change the account | edits land, keys not touched stay |
| Native agent: proxy `router-agent/src/{proxy,git}.rs` | connections, a cache of repository names | forward requests, name the repository | concurrent lookups of one repository | not modelled |
| npm launcher: the rest `npm/cli/lib/*.js` | a marker and a lock for the daily update of a CLI installed otherwise | `existing-cli.js`, `launch.js`, `download.js` | the same lock idiom | planned |
| Harness setups: other clients | Hermes' two files; the others one file each | configure, refresh, unconfigure | as Claude Code's | planned |
| Editor plugins: the rest `router_integrations/packages/` | a workspace default, a usage widget | per session | stale sessions | planned |
| Browser sign-in `auth/oauth.py` | a pending callback | browser and pasted address race | which one wins | planned |
| Skills `skills/` | receipts saved whole | install, remove | lost updates | planned |
| Tool schemas `specs/sync.py` | a schema and its hash | sync | written apart | planned |
| The rest | none that changes | request and print | | not modelled |

They interact through state only:

* *setups* use the **Router login** to get keys, and **tagging** decides the
  endpoint written into them; a refresh of the setups ends in
  `router_schedule.install`;
* the **schedule** runs the **tick**, under the sync lock that a refresh and a
  removal also take; the tick leaves the manifest for the **agent**, which
  starts ticks; a configure clears the manifest;
* **disable** of tagging keeps the listener while a setup uses it, and the
  schedule keeps the agent while the listener is wanted;
* the **app** reads and changes Router through the **read cache**, and a
  sign-in in another process changes its account under it;
* the **installer** refreshes the setups after it replaced the CLI;
* a **refresh** of the setups asks Router first and then writes each client under
  that client's lock: **Claude Code's settings**, **Codex' threads**, **Claude
  Desktop's** documents, and the **Switchyard push** among the defaults it writes;
* the **connectors' bridge** takes its tokens from the **Router login**;
* the **agent** attributes requests that reach its **listener**.

`PROJECT.json` lists every component with its files, what is left out of it, and
the hazards of the code at the lines where they bite.

## The modules

Each component has one module with its state as variables and one action per
operation or step between two points where another actor can come in. An `MC`
module names the symmetry and the sets a run uses; a `Proofs` module holds the
theorems. Definitions marked `(mutant)` are plausible bugs: with one in place of
the definition that follows it, the run named in `PROJECT.json` finds the
property violated.

```
RotatingLogin  <--refines--  RouterSession  <-- RouterSessionProofs
                             RouterSchedule <-- RouterScheduleProofs
                             ScheduledTick  <-- ScheduledTickProofs
RouterScreens  --extends-->  ReadCache
                             RouterScreens  <-- RouterAppProofs (of both)
             TokenRefresh, ProfileDrafts    <-- AccountProofs
               RepoListener, NpmInstaller   <-- InstallProofs
            SwitchyardPush, DesktopSetup,
             CodexThreads, ClaudeSettings   <-- SetupProofs
            ConnectorBridge, PiCatalog      <-- TransportProofs

MCSetups      NpmInstaller, RepoListener, CodexThreads, ClaudeSettings,
              DesktopSetup, SwitchyardPush
MCAccount     TokenRefresh, Attribution (through MCAttribution), RouterScreens
MCAnswers     ReadCache, ConnectorBridge, ScheduledTick
MCBackground  RouterSchedule, PiCatalog, ProfileDrafts (through MCProfileDrafts)
```

The four modules at the end are instances that several components share. The
components of one share no state and wait for nothing of each other, so
interleaving them would only multiply states: the variable `subject`, chosen by
the initial state, says which of them moves, and the behaviours of the run are
the union of theirs. In `MCRouterSession` it says what the clients of one login
are called for.

### RouterSession, RotatingLogin (`client/router_user.py`)

A login is a *grant* (one browser sign-in) with numbered secrets. `file` is the
login file with the secret, the successor a rotation has offered (`pending`)
and the clock of the access token; `lock` the refresh lock; `pc`, `asked`,
`reply` a client's call. The network is `sent`, the set of all requests ever
posted: the server may serve any of them, in any order, again and again, and the
client may see an answer or time out. `live`, `cur`, `prev` are the server's
grants and accepted secrets.

`access_token` is split where the code writes the file, posts or reads an
answer: `ReturnCached`, `Refuse`, `CheckSession` (posting /session),
`PrepareRotation` (the successor is saved before the request) and
`PostRotation`, then `CommitRotation`, `PassCheck`, `RejectGarbled`, `Expire`,
`Reauthorize`, `Fail`, `Timeout`. `login` is `ExchangeCode`, `StoreLogin`,
`RevokeOld`; `logout` is `Logout`, `CompleteLogout`. `Crash` may happen
anywhere.

`RotatingLogin` is what the protocol promises: one credential is held, it moves
with the server in one step, and a login given up never comes back. `RouterSession`
refines it: the machine holds the pending successor from the moment the server
accepts it (`HeldCredential`).

### RouterSchedule (`commands/router_schedule.py`)

The two markers (`enabled`, `optedOut`), the two services as launchd has them,
the sync lock and the schedule lock, and processes: a person's commands and the
runs of the job, the agent and a session hook. macOS is modelled, where job and
agent coexist. Actions are the steps of `install`, `_install_service`, `_remove`,
`_uninstall_service`, `update_agent`, `remove_after_opt_out` and of a run,
separated at every lock. A boot-out of a loaded job ends the job's run
(`End`), whatever it was doing.

Whether a service manager call succeeds is a free choice. The environment file
and the manifest's content are left out.

### ScheduledTick (`commands/router.py`, `router-agent/src/sync.rs`)

What a run knows is relative: a recorded part of a version is `"now"` (what
Router would answer), `"old"` or `"?"`; times are ages or time left, in hours.
`Judged` is `_scheduled_tick` up to the refresh: from the answers, whether a
refresh is due, whom it leaves out, and the three states it may save (nothing
due, refreshed, failed). `Check`, `Refresh`, `Save`, `WriteManifest` are the
steps of a run; a run may die between any two. What is written into the setups is
`fresh`, by connection and part: a refresh applies the models it was asked for, and
the defaults only if it can read them (`Body`). `Decides` is the agent's
`decide`, `AgentStartsOn` and `AgentIdles` keep its `ChangeRetries`. `Tick` is
an hour in which no run is out. The history `unread` says whose last refresh went
without the defaults.

### RepoListener (`commands/router_repo.py`, and the writers of setups)

`settings` is the helper's file, `listener` the port the agent listens on,
`endpoint` what each setup names. Clients with a configuration lock choose and
write their endpoint under it; OpenCode and Pi without. `enable` first moves the
setups off the old port (`BeginEnable`, `Drained`, `SavePort`), then starts
the listener (`Ensure`, `Rollback`), then rewrites the setups and notes the
failures; `disable` rewrites them, scans under Desktop's lock (`Scan`) and
stops the listener or keeps it (`UpdateAgent`).

*Environment:* a person runs one settings command at a time and nothing beside
it, except that the clients in `Overlapping` may be set up while a disable runs.

### ReadCache, RouterScreens (`router_ui/cache.py`, `router_ui/app.py`)

`ReadCache` has one action per region between two acquisitions of the cache's
lock. `world` counts the changes at Router, an answer is the world it was
computed from; `floor` (history) is the world at the last invalidation and
`due[t]` what a caller is owed. A generation is modelled by `current`: the
requests that began since the last invalidation.

`RouterScreens` extends it with the event loop: screens, worker threads, the
account on screen, and `FinishJob`, the whole of `perform`'s continuation. Another
program may sign in or out at any time.

### TokenRefresh (`auth/`, `config/`)

A token is a login (one sign-in to a slot) and a turn (its rotations). Slots of
`profiles.toml` are updated by comparison under a lock (`Update`); the default
slot lives in `config.toml`, which every command loads and saves whole
(`Load`, `Keep`, `Store`). The server honours the newest turn of a login until
`End`. `LoseAnswer` and `Crash` are the faults; a failed write is a crash to
everyone else.

### NpmInstaller (`npm/cli/lib/installer.js`)

The distribution, its backup and receipt, the lock, and processes that install
(`Request` ... `Promote`, `Refresh`) or claim the receipt without a lock
(`ReadReceipt`, `ClaimReceipt`). `Crash` leaves the lock; `Steal` takes a dead
holder's: the heartbeat keeps a live one from going stale.

### CodexThreads (`commands/router.py`, from `_preexisting_codex_router_session_ids`)

Codex hides a thread whose provider is not the active one. A configure tags every
thread in its transcript (`Visit`) and in the index (`SyncRows`) after it has
written down what they were (`ReadIndex`, `SaveReceipt`); `FailConfigure`
and the `Undo` steps are its except branch. An unconfigure gives the threads back
(`RestoreRows`), returns to the user's provider (`PointAtOwn`), moves the threads
born on Router there (`Reclaim`, `ReclaimRows`) and only then drops the receipt.
`Archive` moves a transcript to another directory while the loop over
directories is on its way; `LookAgain` is the second look the code takes for it.
The histories `owed` and `spoiled` say what a thread is without Router, and
whether a rollback failed, after which nothing is promised.

### ClaudeSettings (`commands/claude_code.py`, `commands/router.py`)

`claude` is `settings.json` key by key, `setup` the receipt: for each key what it
was and what Router wrote. `MergedSetup` is how a configure keeps the receipt of
an earlier one, `StillOurs` the comparison by which a removal tells whose a key
is: one that still holds what Router wrote is Router's.
`ConfigureClaude`, `PickModel`, `WriteTier`, `ShowWidget`, `HideWidget` and
`UnconfigureClaude` hold the lock throughout and are one step each; a refresh is
two, `AskRouter` and then `RefreshEverything` or `RefreshModel` with answers that
may be outdated. `WriteBoth` saves the receipt, then the settings; a kill may
come between. `EditByHand` is the user. `EnforceDefault` is the hook that puts a
workspace's default into force.

Histories state the property: `yours` is the newest edit of each key, `origin` what
there was when Router claimed it, and `replaced` the keys whose edit a command of
Router has written over since, so that `ComesBack` says what a removal should leave.
`torn` are the keys that hold a value of Router's which a kill kept the receipt from
knowing; a removal is tried there as anywhere, and what it takes for the user's then
is `stranded`, until the user has edited it without Router.

### DesktopSetup (`claude_cowork.py`)

The four documents are written in an order, `Write` by `Write`, that differs
between `Configure`, `UnconfigureDesktop` and `Migrate`. `Fail` turns the
command to its undo, which writes too; `KillCommand` stops it. Between commands
the user opens and quits the app and changes things there.

### SwitchyardPush (`commands/router.py`, `_SwitchyardPush`)

A run claims the push of a harness (`Claim`) from a record edited under a lock,
reads the harness' selection (`ReadSelection`), writes the setup (`WriteClient`,
`WriteFails`) and settles (`Settle`) or hands it back (`Release`). Codex' writer
compares the selection with what was read and keeps a later one; OpenCode's
setup spans files and may fail with the model in place. `Pick` is the user.

### ConnectorBridge (`router_connectors/auth.py`, `router_connectors/bridge.py`)

One thread reads the agent's messages (`ReadMessage`): calls go to workers, control
messages it sends itself, and a call for which no worker is free is refused at
once. `issue` is split at its locks: the cache's, then the login's, which the check and the
renewal take one after the other. `SignIn`, `SignOut` may come anywhere between. A
rejected token is retried once with a new one; a response opens or ends the pinned session.
The agent's `Script` is fixed per run; answers are counted per message.

### PiCatalog (`router_integrations/packages/pi-provider/src/index.ts`)

JavaScript runs one step at a time; a step is what happens between two awaits.
`Launch...` is `registerRouterProvider` with and without a cache, `Background...`
the refresh that follows, `BeginRefresh` ... `PublishRefresh` a refresh of the
host, `RefreshOffline` how Pi tells the provider of a changed credential. The
generation counter is modelled as the refresh that bumped it last. What the host
does behind `publish` (it drops all but its newest refresh) is external.

### Attribution (`router-agent/src/attr.rs`)

A conversation is a sequence of messages, each with its length; the agent's state
is what it made of a prefix and the tool call that ends it. `Arrive` is
`analyze_incremental` or the full analysis and `Finish` the store of the state;
requests of two conversations under one key overlap. `Rewind`, `Fork`,
`Compact`, `Retop` and `Exchange` are what the harness does to a conversation:
going back, a side conversation, a summary, another directory above the messages,
and a rewrite in place. The histories `unseen` and `takenBack` note a rewrite of the
same length, and a directory stated behind the newest call that was gone back behind
or that a side conversation does not have.

### ProfileDrafts (`commands/router_user_strategies.py`)

The editor is a loop over a draft: `Open`, `ListKeys`, `PickKeys`, `SetSetting`,
`Save`, then one request for the settings and one for each batch of keys
(`WriteSettings`, `AssignKeys`, `ReturnKeys`). `RequestFails` leaves open whether
the server acted; `Reload` rebases the draft on what the server has. The other
actors (`MoveElsewhere`, `SwitchElsewhere`, `DeleteElsewhere`, `MakeKey`) are
other commands on the same account.

## What the runs check

| Run | Instance | Shows |
|---|---|---|
| `session` | logins: 2 clients, 2 grants, 3 secrets; plain calls, sign-ins, sign-outs | the login is never stranded (`CredentialSurvives`), never signs itself out (`NoSelfInflictedSignOut`), never returns (`NoResurrection`); the refinement of `RotatingLogin` |
| | reads: 2 clients, 1 grant, 3 secrets; reads, writes, passive calls, retries | one successor per secret (`OneSuccessor`), no session check with a secret already offered (`NoSessionWithOfferedSecret`), every holder leaves the lock (`LockIsLeft`); all seven properties are checked of both |
| `background` | services: 1 terminal with all its commands, which may be killed, and the runs of job, agent and hook | opt-outs stick (`NothingUndoesOptOut`), no write is cut (`NeverKilledMidWrite`), deferred removals happen (`DeferredRemoval`), every command ends (`CommandsEnd`) |
| | Pi: 2 keys, 2 refreshes of the host, 2 versions of the catalog, 1 quit, 1 change of the credential | `CatalogsAreCurrent` |
| | drafts: 2 keys, 2 profiles, 2 settings that exclude each other, 1 failing request, 2 edits, 1 change elsewhere | `EditsLand`, `UntouchedKeysStand` |
| `setups` | npm: 2 processes, 2 packages, 2 versions | a CLI is never lost (`NeverLost`), owed refreshes are remembered (`RefreshIsOwed`), the receipt's owner stands (`OwnerStands`) |
| | tagging: 2 processes, a client with a lock, one without, Desktop; 2 ports; kills | no setup is stranded (`NoneStranded`) |
| | Codex: 2 threads, 2 moves by its user, 1 failing step, a kill | threads come back (`ThreadsComeBack`) and are shown (`ThreadsAreShown`) |
| | Claude Code: 2 connections, 2 models, 1 key the user edits, 1 edit, 1 kill | `YoursComesBack` |
| | Desktop: 2 profiles, 1 failing write, 1 change in the app, a kill | `NeverStranded`, `ChoicesStand`, `SettingsComeBack` |
| | push: Codex and OpenCode, 2 runs, 1 pick, 1 fault | `NeverPushedOver`, `PushIsOwed` |
| `account` | tokens: 2 processes, a profile and the default slot, 2 sign-ins to the profile, 1 rotation each | sign-ins stand (`LatestLoginStands`), no self sign-out (`NeverSignsItselfOut`), one rotation per token (`RotationsOnce`) |
| | attribution: 2 conversations, 2 directories, 3 messages, 3 requests, 1 rewrite; read in full every third time | `ContinuesTruly` |
| | screens: 2 threads, Home and a tab, 1 change in the app, 1 elsewhere | no tab shows foreign rows (`TabRowsAreOwn`), no change is covered by an older read (`ChangesStayShown`) |
| `answers` | cache: 2 threads, 2 reads, 1 change | answers are fresh (`ReadsAreFresh`), every read ends (`ReadsEnd`) |
| | bridge: initialize, two calls, a cancellation; 1 worker; 2 changes of the login, 1 fault | `SentAsBound`, `OneAnswerEach` |
| | sync: 2 connections, one with an administrator's defaults, one of Claude Desktop; a day of 2 retry units; 3 troubles | nothing recorded is forgotten (`NothingForgotten`), agent and run agree (`AgentAgrees`), a run settles what started it (`RunsSettle`), `Recovers` |
| `listener_overlap` | 2 clients with locks, 1 port; one of them set up during a disable | finding 1 |
| `screens_home` | the screens without a change in the app | finding 2 |
| `token_default` | 2 processes, the default slot alone | finding 3 |
| `drafts_late` | the draft's instance, with keys that another command makes after the editor listed them | finding 4 |
| `attribution_often` | 1 conversation, 2 directories, 4 messages, 5 requests, 1 rewrite; 2 states remembered, each continued once | finding 5 |
| `attribution_taken_back` | 1 conversation, 2 directories, 4 messages, 3 requests, 1 rewrite | finding 6 |
| `tick_defaults` | the instance of the background sync | finding 7 |

**Why the bounds are enough.** The hazards are between two actors: two clients,
processes or threads reach every pair of steps, and symmetric further ones repeat
them (the proofs cover any number). Beyond that:

* *session*: three secrets are a sign-in, a rotation and either a second rotation
  or a second sign-in, so that a rotation of one grant meets a sign-in to another.
  A secret that stays in the file is offered at most one successor, so more
  secrets repeat the same pair. Everything a client may be called for, with two
  grants at once, is out of TLC's reach; the theorems cover it.
* *services*: one terminal acts beside three background runs. Two terminals
  were checked for the invariants alone; the theorems hold for any set.
* *sync*: three troubles are, for instance, a change, an outage of one connection
  and a failed refresh of the other. The invariants and `RunsSettle` were checked with four as well. A
  day of two units lets the backoff reach its ceiling.
* *tagging*: two ports are an old and a new one; one client of each kind of
  locking covers their differences.
* *npm*: two versions give an older, an equal and a newer one. Three were checked
  as well.
* *Codex*: of two threads one is born before the setup and one on Router, or one is
  tagged and the other not yet. Its user changes a thread's provider only while no
  thread is archived.
* *Claude Code*: keys do not affect each other but for the model and its
  connection, so a user edits one of them at a time (`EditedAlone`); one edit has every
  place between the commands, and two were checked as well.
* *Desktop*: one failure starts an undo; a fault in the undo, for which the code
  reports what it could not put back, is beyond the bound.
* *push*: the pick and the fault are what two overlapping runs can miss of each other.
* *tokens*: the second sign-in and the first rotation are what a late update could
  undo.
* *drafts*: after one failure, a draft is rebased and saved again; a second repeats it.
  Keys are alike, so of two that start apart one order is enough (`OneOrder`).
* *attribution*: the calls of the passing run are `run`, which works where the shell
  is and may have it put back; `{"cd"}` and `{"cd", "edit"}` were checked apart.
  `FULL_EVERY` is 3 here and 16 in the code, states remembered 2 and 4.
  `ContinuesTruly` was checked in the instance of `attribution_often` as well. The
  violation needs four messages and two states; with `FULL_EVERY` 3 it takes one
  request more. The third request is one made after a continued one; four requests
  were checked without the other parts. A conversation is followed until a directory is taken back
  or a rewrite goes unseen (`Followed`), after which the property says nothing of it.
* *cache*, *screens*: a world before and a world after a change. Two threads are
  one reader and one changer, or two readers that share a request. `Accounts`
  is large enough that no account comes back.
* *bridge*: one worker is busy with a call that ends only when cancelled, and
  the cancellation comes behind another call. The code has sixteen.
* *Pi*: two host refreshes and the background's one are three that overtake each
  other. Two changes of the credential were checked as well.

Deadlock is checked except in `session`, `screens_home`, `attribution_often` and
`attribution_taken_back`, where the bounds stop the system: all secrets are used, or
the worlds, or the requests are. In `account`, conversations may rest (`Quiet`).

## Fairness

A run of several parts has the fairness of each, while it is the one that moves.

* `RouterSession`: weak fairness of posting a prepared rotation and of the
  request's timeout (`httpx` is given 30 s), nothing else: neither the server, nor
  the person, nor a caller owes a step. `LockIsLeft` rests on this alone.
* `RouterSchedule`: strong fairness of the steps of each process. A step that
  waits for a lock is enabled again and again; the waits of the code are retried
  (`sync_lock(wait)`) or block in `flock`. The job's timer and the agent start runs
  (weak). A person owes nothing.
* `ScheduledTick`: a run goes on (each request has a timeout of 5 s) and runs are
  started by timer or agent (weak); an hour passes between runs (strong: a run
  lasts minutes).
* `ReadCache`: weak fairness of each thread, whose request carries a timeout; a
  waiting thread has no step of its own until the owner ends.
* `ConnectorBridge`: weak fairness of reading, strong fairness of each sender: the
  two locks are taken again and again by others, who give them up, and every request
  times out. A slow call is *not* answered unless it is cancelled, or its
  cancellation failed and it runs into its timeout.

The other modules state no liveness.

## What is proved

`tlapm` checks every theorem and lemma to the last leaf, for all values of the
constants, from the named assumptions of the modules (`NoneAssumption` and the
like: special values differ from ordinary ones, bounds are numbers). Each
inductive invariant `IInv` was checked by TLC before it was proved; it is a theorem
now, and no run repeats it. So are a few properties that only a theorem states:
`RequestsAreShared` (at most one request of the present generation per read),
`TokensAreCurrent`, `RefusalsDeserved` and
`AnswersAreSingle` (no request of the agent is answered twice).

Some theorems have a hypothesis beside the modules' assumptions. Each one is a
limit of the code, not of the proof: without it the property is false, and the
section says how. All are met by the runs that check the properties.

**RouterSessionProofs.** `CredentialSurvives` is not inductive: it says nothing
of requests still on the wire, which may be served much later. `IInv` adds, in
named parts:

* `LockInv`: a client that prepares or awaits holds the lock, and the login is
  in the file;
* `AskedInv`: it awaits an answer about the file as it is; an `ok` means that the
  server has moved to the pending secret, an `invalid` that the grant ended;
* `FileInv`: file and server are at most one rotation apart, in a known order;
* `SentInv`: of all rotations ever sent for this grant, those with the file's
  secret name its pending successor, all others present an older secret;
* `FreshInv`, `RevokeInv`: a login just granted is known to one client only, and
  the revocation still to be sent concerns one given up.

A served request then either moves the server to the pending successor or is
refused, which is `CredentialsSurvive`; `SentInv` with the lock gives
`RotationsNeverFork`; `AskedInv` gives `NeverSignsItselfOut`; `retired` in
`FileInv` and `FreshInv` gives `LoginsNeverReturn`. `SessionsAfterRotations` and
`TokensAreCurrent` are action properties from the same invariant.
`RotationIsAtomic` shows that every step maps to a step of `RotatingLogin` or
a stutter.

**RouterScheduleProofs.** `SchedInv`: the processes in a critical place are those
that hold the schedule lock, and one about to bootstrap found the choice on
since: a choice changes only under that lock. `OptOutsStick` follows. `SyncInv`: who may
end the job's run holds the sync lock, is a tick that has not taken it, or finds
no job loaded; `WritesAreSafe` follows.

**ScheduledTickProofs.** A run reads, judges, refreshes, saves and writes the
manifest, and may die in between; the properties compare what is recorded with
what has happened. The judgement (`Judged`) is taken apart into named parts first,
and each step into the fields it writes. Then four invariants, each given those
before it:

* `TickTypes`: the types, of the two states a refresh may end in (`run.done`,
  `run.failed`) too;
* `KeepInv`: what is recorded was told by Router, a retry is of a connection not
  revoked and has a date, both outcomes of a refresh record what was just seen and
  say when to go on, and a run that has judged leaves nothing due. `RunsSettleHolds`
  follows;
* `ManifestInv`: a manifest written for a state describes it, date by date, as the
  hours pass (`Describes`). With it, the agent's reasons are those of a run
  (`AgentReasons`), which is `AgentAgreesHolds`;
* `ReachInv`: what is recorded, of the models or of the defaults, has reached the
  setups, is to be retried, is of a revoked connection, or is the defaults of one last
  refreshed without them, in the state saved and in the one a refresh is about to
  save; a failed refresh retries everything it was about. `NothingForgottenHolds`
  follows. The last of these is an exception of the property itself, which finding 7 is
  about.

When the next refresh is due is the least of a set of dates; that a set of numbers
has a least member is taken from the library's theorem that finite sets are well-founded
under inclusion, applied to the intervals up to the members (`LeastMember`).
`ConnsAssumption` has it that there are connections: without any the code returns before
`_scheduled_tick` (`commands/router.py:4318`). `RunsSettleHolds` supposes that `None`
is not a record of a run, which the module does not need otherwise.

**RouterAppProofs.** For the cache, `EntriesInv` (nothing kept is older than the last
invalidation), `FlightsInv` (who is registered), `ValuesInv` (an answer of the
present generation is as fresh as any caller is owed) and `WaitersInv` (who
waits, waits for a request that will do). `AnswersAreFresh` and
`RequestsAreShared` follow. The screens use the cache through the same actions, so
its invariant holds under them too, and they add:

* `ChangersInv`: one change runs at a time, and no read of the present generation
  of the screens is beside it;
* `LandedInv`: a read of the present generation was asked after the last
  change returned, so that it is owed at least that change. With `ValuesInv` this is
  `ChangesStay`, which has no hypothesis;
* `AccountsInv`: a read is owed rows of the account it was started for or of a later
  one. A result that comes for the account on screen is then of that account
  (`TabsAreOwn`).

`TabsAreOwn` supposes that no account comes back (`MaxWorld < Accounts`). The
app compares accounts, not sign-ins: with A, then B, then A again within one
read, the rows of B pass for A's, and TLC finds it.

**AccountProofs.** *The tokens.* `LockInv` (the lock is held for the slot being
refreshed), `RefreshInv` (what is presented is the newest token, what is
saved the next one), `IssuedInv` and `FreshInv` (nobody else knows a login that is about to be saved).
They concern the slots of `profiles.toml`; the default slot has no comparison,
and there `RotationsOnce` fails (finding 3).
*The drafts.* `EditsLand` looks at the end of a save; what it rests on is what the
draft knows of the server on the way. `DraftInv` says that each key and each setting nobody
else has changed is on the server as the draft found it until its request has been
answered, and as the user wants it afterwards; while a save that failed waits to
be rebased it may be either, since nobody knows whether the server has acted
(`KeysInv`, `SettingsInv`). `StageInv` says what a save has still to do, `WantedInv` that the
draft is what its user wants. `SavedEditsLand` has no hypothesis. `UntouchedKeysStay` rests on
`ListedInv` (what is to be moved was touched, for every key there is was listed) and
supposes `~Late`, that no key is made between the list and the save: otherwise it is
false, and finding 4 is the counterexample. `ProfileDraftsAssumption` has it that no
key is a setting.

**InstallProofs.** *The listener.* `NoneStranded` looks at what is on disk; the code goes
wrong by what a process has chosen and not yet written. `UseInv` says of both
that the port is the one the settings ask for and the agent listens on.
`SettleInv` is what a command rests on at each of its stages before it changes
settings or listener (a disable that has scanned Desktop has left nothing on
the port); `BesideInv` who may be beside whom; `WriteInv` who writes under which lock. The
theorems suppose `Overlapping \subseteq {Desktop}`: for other clients finding 1
is the counterexample. `ClientsAssumption` says that Desktop has a lock.
*The npm installation.* `KeptInv`, for `NeverLost`, ties the stage of whoever has
the lock to what is in place (`HolderInv`, `ThereInv`): between the two renames the
backup is there, and whoever steals the lock finds it. It holds for any processes
and versions, claims that overlap included. `ReceiptInv`, for `RefreshIsOwed` and
`OwnerStands`, adds that what a process has read of the receipt is what is there
(`SeenInv`) and that a receipt is of its runtime (`WholeInv`). These two suppose
`~Overlap`; with an overlapping claim they are false (see the observations).

**SetupProofs.** *The push.* `OwedInv`: at most one run carries the push of a
harness (`OneCarrier`), it does so until it has settled (`ClaimInv`), and nothing
lands unrecorded (`LandedInv`). `PushNotLost` follows for any number of runs.
`PushInv` adds `UntakenInv`, that the model is not in place while the push is owed
or carried, but for a failed write that has landed, and `AnsweredInv`, that where the
user has answered it is neither. `NoPushOverAnswer` is for two runs (`TwoRuns`): a
third can write back a model it read before (see the observations).
*Desktop.* `DesktopInv` says, for each command and each place in its order of writes,
that the documents still to be written are untouched, those written are as
meant (`InTurn`, `Meant`), and that the receipt stands for the settings as they were
found (`Kept`). `SettingsRestored`, `AppNotStranded` and `UserChoicesStand`
follow for any profiles, endpoints, kills and changes in the app, with the hypothesis
`[][~SecondFault]`: nothing fails during an undo. The code makes one attempt at it
(`_restore_document`) and reports what it could not put back.
*Codex.* `ThreadsComeBack` looks at the moment when no setup is left. `RewriteInv` has
it for each thread at every step: its tag and its row are what they are without
Router, or Router's with a receipt that tells the way back (`ThreadKnown`); a
configure knows it of the receipt it is about to replace and of what it has found,
and while it is undone, of what it has put back (`ConfigureKnows`); an unconfigure knows how far
it has come (`RestoreKnows`). `ConfigureInv`, `RestoreInv` and `PassInv` tie a run's own
copies to the files. `ThreadsAreShownHolds` needs another invariant, because it
speaks of setups that have failed half way, too: `ShownInv` has it that each entry
agrees with its thread, that of an earlier receipt and what was found with each
other, and `CarriedInv` that what a run carries is the receipt's. Two hypotheses,
both limits of the code (see the observations): `[][Undisturbed]`, that no thread
is archived while a pass looks a second time for threads it has missed, and, for the first,
`~Impatient`, that a configure waits until an unconfigure that failed has been finished.
*Claude Code.* A command touches several keys at once, so the proof goes by what a
write does to one key (`KeyStep`): it leaves it, writes Router's value anew, claims it
from the user, or lets go of one that the user has changed.
`OwnedWriteKeeps` shows that each keeps `KeyInv`: a key not claimed is the user's; one that is claimed holds Router's value over what the receipt has
kept, or the user's own, or is one of the two (`gateway`, `tier`) that a kill between
receipt and settings can leave with an older value of Router's; what is torn is
named in `torn`, and what a removal took for the user's there in `stranded`. `BarInv` and `HooksInv` say the same
of the status line and of the hooks. `YoursComesBackHolds` has no hypothesis, with
overlapping refreshes (`Beside`) included; `NamesAssumption` has it that no model or
endpoint of Router's has the name of a value a user may have.

**TransportProofs.** *The bridge.* `HeldInv` (who is between the locks holds them),
`TokenInv` (a token is of the bound account from the check under the login's lock
on), `RoleInv` (a message has one sender), `SessionInv` and `AnswersInv` (no answer
while its sender owes it). `BoundTokensOnly` and `AnswersAreSingle` follow for
any script, workers and changes of the login; `BridgeAssumption` has it that the agent
does not call before it has initialized, as the protocol requires.
*Pi's provider.* `NothingNewer` and `NotBefore` order the versions of the catalog
shown, of the cache and of each refresh in flight; `TurnsAreCurrent` says that the
refresh whose turn it is asks for the present key and would not publish anything older.
`CatalogsStayCurrent` has no hypothesis.

**Model-checked only.**

* Liveness, which needs `ENABLED`: `LockIsLeft`, `DeferredRemoval`,
  `CommandsEnd`, `Recovers`, `ReadsEnd`, `OneAnswerEach`.
* `Attribution`: what the agent makes of a history is a function defined by recursion
  over its messages, and `ContinuesTruly` an induction over them.

What a recursive definition computes for every input is beyond this prover; the
modules have no recursive operator.

## Findings

A run that ends in a violation states what a text of the repository says and shows
that the code does otherwise.

1. `listener_overlap` (`commands/router_repo.py:532`). `disable()` scans for setups
   left on the helper holding Desktop's lock only. A setup of another client, say
   Codex, that chose the helper before the disable saved its settings and writes
   its file after the scan, is left on a listener that has stopped. The
   comment at :523 has it that the listener stays until none is left. The run
   `setups` shows that Desktop, whose lock the scan takes, is safe.
2. `screens_home` (`router_ui/app.py:1142`). A read of Home that ends under another
   login is dropped as stale, but repeated only if a change has bumped the
   generation, and a change of account does not. Home is the one screen kept
   through it, so it goes on showing the previous account's rows.
3. `token_default` (`onboarding.py:144`). `record_category_used` loads
   `config.toml` and saves it whole, tokens included, without the refresh lock. A
   refresh of the default login that completes in between is undone; the next one
   presents a used token and, refused, clears the login.
4. `drafts_late` (`commands/router_user_strategies.py:413`). Checking keys in the
   editor sets the draft's keys to those checked in a list made when the editor was
   opened. A key that another command made for the profile since then comes into
   the draft by the rebase after a save that failed half way, is not in the list, counts
   as removed, and is moved away by the next save. The comment at :141 has it that
   keys the user did not touch are left alone. The run `background` shows that this
   is so for keys that were listed.
5. `attribution_often` (`router-agent/src/attr.rs:2472`). The comment at :2166 has it
   that a conversation is read in full at least every `FULL_EVERY` requests, which
   bounds how long a rewrite in place goes unnoticed. The requests are counted per
   remembered state (:2503), and a state used up is left out, not the memory: the walk
   goes on to an older state whose directory and offsets fit, and counts anew. A
   conversation alone comes to have two such states when the stated directory
   changes and changes back. Each answer is then wrong for the rewritten part; with
   the four states that are kept it may be for 60 requests in a row. A client whose
   history is never rewritten in place is not affected.
6. `attribution_taken_back` (`router-agent/src/attr.rs:1978`). The comment at :1973 has
   it that a state is continued only if nothing differs from what a full read would
   assume. The directory a message states is remembered for the whole request, while
   the history is compared up to the newest tool call: when the user goes back
   behind such a message and no call follows it, or a side conversation has the
   same newest call, the agent goes on with the directory. The run `account` shows that
   nothing else is missed (`ContinuesTruly`).
7. `tick_defaults` (`commands/router.py:4162`). With a Router whose version does not
   cover the settings, a defaults check that fails keeps the recorded digest, so that, as
   the docstring at :4139 has it, a change is caught once the control plane
   answers again. A change is recorded, its refresh fails, the retry cannot
   read the defaults, keeps the digest, which is that of the change, and succeeds without
   applying any. The retry is dropped, and when the control plane answers, its answer is
   what is recorded: the change waits for the daily refresh. `NothingForgotten`
   leaves this out by name (`unread`), and `Recovers` holds all the same.

## Observations

Behaviour the models reach that no text of the repository forbids.

* *Removing the last setup while a refresh runs* leaves the opt-out marker
  (`commands/router_schedule.py:1187`), as the deferral needs it; the next
  configure takes it for a person's choice and keeps background sync off.
* *The deferred removal* is done by the job's next tick (:1157). A tick of the
  agent that finds sync off does not do it.
* *A tick of the agent that finishes the migration* from the job boots the job
  out (:808) although a run of the job may be writing. `NeverKilledMidWrite`
  leaves this case out by name.
* *The npm receipt* is read and written back without the lock
  (`npm/cli/lib/installer.js:139`, and `syncReceipt`): with `Overlap = TRUE`
  `OwnerStands` fails, and a claim that is late may put the old receipt beside
  the new runtime.
* *A configure clears the agent's manifest* (`commands/router_schedule.py:1140`) under the
  schedule lock only. A scheduled sync that read the connections before may write
  it again without the new one, which the agent then does not check until the
  manifest's `due_at`, a day at most.
* *Desktop closing between the skipped pass and* `claude_pids()`
  (`commands/router.py:4206`) leaves a pending pass nobody watches for; it waits for the
  next run that is due.
* *A run that dies between saving its state and writing the manifest* leaves the
  manifest of an earlier run; the agent's next start, due by that one, mends it.
  `AgentAgrees` is about manifests that were written for the state (`described`).
* *Codex: a configure after an unconfigure that failed in the reclaim*
  (`Impatient = TRUE`) writes down "router" as what a row of the index was before: a
  later unconfigure gives it back, and the thread stays hidden. A thread that is
  started just as a first configure fails, or while a rollback fails itself,
  stays on Router, and one started between the reading of transcripts and index is
  written down with its row alone.
* *Codex: a thread archived or brought back around the second look.*
  `_rewrite_codex_sessions_reconciled` looks once more for the transcripts it has
  missed and ignores those it misses again. With two threads that are each moved
  twice `ThreadsComeBack` is false.
* *Claude Code: a full refresh beside an unconfigure* (`Beside = TRUE`) sets the
  client up again that was removed while Router was asked: `_configure_claude_code`
  does not look at the receipt again in the lock, as `_refresh_claude_code_model`
  does.
* *Claude Code: a command killed between receipt and settings* leaves an old value
  of Router's that the receipt does not name any more. A removal takes it for the
  user's, until a configure or refresh writes the key anew. Where the receipt says
  that the hook is the user's, Router's own stays for good. `YoursComesBack` leaves
  out, by name (`stranded`), what a removal has left so.
* *Claude Code: an edit over a key that Router goes on claiming* is written over by
  the next configure, and a removal brings back what was there before Router, not
  the edit (`ComesBack`).
* *Claude Desktop: the undo of a removal that failed* restores the mode before the
  library and the profile (`claude_cowork.py:1521`); a kill in between leaves a mode
  that points at nothing, which the order of the writes is to prevent (:687).
  `NeverStranded` leaves this undo out by name.
* *Claude Desktop: a second failure, while a command that failed is taken back*, leaves
  documents as the command wrote them (`_restore_document` is one attempt). Then
  `SettingsComeBack` and `NeverStranded` are false; the command reports it.
* *The app: an account that comes back.* A read that is answered under another
  account, and ends after the first has been signed in again, is shown: the app
  compares the account before and after (`router_ui/app.py:1100`), and both agree.
* *Claude Desktop: a kill between profile and receipt of a migration* leaves a setup
  that each refresh refuses as edited, until it is configured again.
* *Switchyard: a pick between a write that failed and its settling* makes the push owed
  again, and a later run pushes over the pick; the guard of `Pick` leaves this
  moment out. A refresh that carries no push writes back the selection it read before
  a push or a pick by someone else. With three runs, one whose push failed after it took effect
  may find the harness set back by the second and hand its part back as owed; the third
  writes back the pushed model it has read, the user answers that, and a later
  run pushes over the answer. `NoPushOverAnswer` is for two runs.
* *Drafts: a create whose answer is lost* leaves the draft without the new id:
  saving again creates a second profile.

## What is not modelled

*Abstractions within the modules.*

* `RouterSession`: edge tokens, the pasted callback, the account comparison of
  `_send`, and the API calls made with a token. The server is external, modelled by
  the answers the client distinguishes.
* `RouterSchedule`: systemd timers and Windows tasks, the environment file, the
  manifest; background runs are not killed but by a boot-out; whether the service
  manager obeys is a free choice.
* `ScheduledTick`: setups that come and go (a configure is the clearing of the
  manifest), the renewal of edge tokens (which can only bring a run forward),
  the opt-out (RouterSchedule has it), several origins of defaults per
  connection, early checks on activity, and a computer without refreshable
  setups. A Router whose version covers the settings is taken never to answer as
  one too old to have a version.
* `RepoListener`: the environment stated above; reading the settings and the
  listener's state is one step; a refresh in the background is a `Reinstall`,
  and one by a person may write back a setup removed since.
* `RouterScreens`: reads nested in reads; a tab left blank when the account
  changes during a change, until its next visit; accounts do not come back.
* `TokenRefresh`: environments, client credentials.
* `NpmInstaller`: download and verification (`Verify` or `Abandon`), old
  runtimes; in the passing run, launchers claim receipts apart from replacements.
* `CodexThreads`: Codex' other files (`config.toml` is its provider alone), rows
  that SQLite refuses.
* `ClaudeSettings`: the escape overlay, automatic tiers, the cached verdict on the
  status line; headers, the connectors' switch and the feed of the status line go
  with `gateway`; one tier stands for all. The user writes no value that is the very one
  Router wrote, which could not be told from it.
* `DesktopSetup`: how the app is stopped and started, the adoption of sessions, the
  listing of models, changes made in the app while a command runs.
* `SwitchyardPush`: the other defaults a refresh writes, an administrator's own
  selection.
* `ConnectorBridge`: when a token expires (the server may reject one at any
  time), how bindings are registered in the harnesses, several events of
  one stream, the size and shape of messages.
* `PiCatalog`: logout, a write of the cache that fails, the identity key shared by processes through `link`, what other
  processes write into the cache, the guards of each request.
* `Attribution`: the other harnesses, repositories and branches, the session memory.
  `ids` gives each tool call of a conversation its own id, as the model does.
* `ProfileDrafts`: names, settings with more than two values, commands without the
  editor.

*Components.* Listed in `PROJECT.json` with the reason. Most of what is left out is
not state: of the 53,000 lines of implementation the greater part is the
terminal interface's pages and widgets, output styles and tables, the generated
commands and the account commands (one request and its rendering), the edits of
JSON, TOML and YAML text, and the proxy's handling of bytes. The map covers about a
tenth of the lines, and a share of a third could not be reached without transcribing
formatting. What keeps state and is left is in the plan.

## Plan

The order is by what a failure would cost: logins and the user's choice first,
then setups, then the app and the installer.

1. `RouterSession`, `RotatingLogin`: modelled, proved.
2. `RouterSchedule`: modelled, its safety proved.
3. `RepoListener`: modelled, proved.
4. `ReadCache`, `RouterScreens`: modelled, their safety proved.
5. `TokenRefresh`, `NpmInstaller`: modelled, proved.
6. `ScheduledTick`: modelled, its safety proved.
7. The files of clients: `SwitchyardPush`, `DesktopSetup`, `CodexThreads`,
   `ClaudeSettings`: modelled, their safety proved.
8. `ConnectorBridge`, `PiCatalog`: modelled, their safety proved.
9. `ProfileDrafts`: modelled, proved. `Attribution`: modelled; its histories are
   beyond the prover.
10. Left to be modelled: the update of a CLI installed otherwise
    (`npm/cli/lib/existing-cli.js`), `SkillReceipts` (receipts saved whole by
    concurrent installations), `SpecSync` (schema and hash), Hermes' two files, the
    browser callback, the workspace default and usage widget of the plugins, the
    agent's repository cache.

Abstract specifications worth stating: the atomic rotation (done); an
all-or-nothing write of several files, which `DesktopSetup` could be shown to
implement but for its kills; a push made once per harness.
