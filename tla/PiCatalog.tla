------------------------------- MODULE PiCatalog -------------------------------
(***************************************************************************)
(* The Router models that Pi offers (router_integrations/packages/         *)
(* pi-provider/src/index.ts).                                              *)
(*                                                                         *)
(* A launch shows the catalog of the private cache and renews it in the    *)
(* background; Pi refreshes the provider when it likes, and tells it of a  *)
(* changed credential by a refresh without the network.  Every catalog is  *)
(* read with one key and is of use with that key alone, and the key may    *)
(* change while Router answers.  A counter of generations decides which    *)
(* answer may still be adopted.  JavaScript runs one step at a time: a     *)
(* step of this module is what happens between two awaits.                 *)
(***************************************************************************)
EXTENDS Naturals

CONSTANTS
  RouterKeys,      \* keys of Router, each of another business
  HostRefreshes,   \* refreshes Pi may have under way
  MaxCatalog,      \* bound: versions of Router's catalog
  MaxQuits,        \* bound: times Pi is quit
  MaxCredentials   \* bound: changes of the credential

ASSUME PiBoundsAssumption ==
  /\ MaxCatalog \in Nat /\ MaxQuits \in Nat /\ MaxCredentials \in Nat /\ "none" \notin RouterKeys
  /\ {"nobody", "background"} \cap HostRefreshes = {}

\* The empty catalog has version 0; an identity may be kept without a catalog.
EmptyCatalog == [of |-> "none", version |-> 0]
NoBackground == [at |-> "none"]
NoRefresh == [at |-> "none"]

VARIABLES
  served,        \* the version of the catalog Router would answer
  storedKey,     \* the key in auth.json
  opaqueKey,     \* whether it is written as a command, which takes a while to run
  runtimeKey,    \* a key given to this process alone, before the stored one
  cacheFile,     \* the private cache on disk
  launch,        \* what registerRouterProvider has come to
  liveCatalog,   \* currentModels with catalogCredentialIdentity
  generation,    \* catalogGeneration, as the refresh that bumped it last and may publish
  background,    \* the refresh of a launch that showed the cache
  hostRefresh,   \* the refreshes of Pi that are under way
  hostTurn,      \* the refresh that Pi itself, behind publish, counts as the newest
  snapshot,      \* whether Pi has been asked to look at the models again
  told,          \* the key Pi named last to the provider (history)
  quits, credentialChanges   \* what is left of the bounds

piProcess == <<launch, liveCatalog, generation, background, hostRefresh, hostTurn, snapshot, told>>
piOutside == <<served, storedKey, opaqueKey, runtimeKey, quits, credentialChanges>>
piVars == <<piProcess, piOutside, cacheFile>>

PiInit ==
  /\ served = 1
  /\ storedKey \in RouterKeys /\ opaqueKey \in BOOLEAN
  /\ runtimeKey = "none" /\ told = "none"
  /\ cacheFile \in {EmptyCatalog} \cup [of : RouterKeys, version : {1}]
  /\ launch = [at |-> "off"]
  /\ liveCatalog = EmptyCatalog
  /\ generation = "nobody" /\ hostTurn = "nobody"
  /\ background = NoBackground
  /\ hostRefresh = [r \in HostRefreshes |-> NoRefresh]
  /\ snapshot = "none"
  /\ quits = MaxQuits /\ credentialChanges = MaxCredentials

Effective == IF runtimeKey # "none" THEN runtimeKey ELSE storedKey

\* readModelCache: a cache of another key counts as empty.
CachedFor(key) == IF cacheFile.of = key THEN cacheFile.version ELSE 0

-----------------------------------------------------------------------------
(* A launch: registerRouterProvider.                                        *)

\* Registered; the refresh in the background is reserved before Pi can begin one.
Register(key, version, renew) ==
  /\ launch' = [at |-> "running"]
  /\ liveCatalog' = [of |-> key, version |-> version]
  /\ generation' = IF renew THEN "background" ELSE "nobody"
  /\ background' = IF renew THEN [at |-> "asking", key |-> key] ELSE NoBackground
  /\ told' = key
  /\ UNCHANGED <<hostRefresh, hostTurn, snapshot>>

\* With models in the cache, or offline, a launch does not wait.
LaunchAtOnce ==
  /\ launch.at = "off"
  /\ \E online \in BOOLEAN :
       LET cached == CachedFor(storedKey) IN
         /\ cached > 0 \/ ~online
         /\ Register(storedKey, cached, online /\ cached > 0)
  /\ UNCHANGED <<piOutside, cacheFile>>

LaunchAsking ==
  /\ launch.at = "off"
  /\ CachedFor(storedKey) = 0
  /\ launch' = [at |-> "asking", key |-> storedKey]
  /\ UNCHANGED <<piOutside, cacheFile, liveCatalog, generation, background, hostRefresh, hostTurn, snapshot, told>>

LaunchAnswered ==
  /\ launch.at = "asking"
  /\ \/ launch' = [at |-> "checking", key |-> launch.key, version |-> served]
        /\ UNCHANGED <<liveCatalog, generation, background, hostRefresh, hostTurn, snapshot, told>>
     \/ Register(launch.key, 0, FALSE)
  /\ UNCHANGED <<piOutside, cacheFile>>

\* routerCredentialIsCurrent: the key may have changed while Router answered.
LaunchChecked ==
  /\ launch.at = "checking"
  /\ \/ /\ storedKey = launch.key
        /\ Register(launch.key, launch.version, FALSE)
        /\ cacheFile' = [of |-> launch.key, version |-> launch.version]
     \/ /\ storedKey # launch.key
        /\ Register(launch.key, 0, FALSE)
        /\ UNCHANGED cacheFile
  /\ UNCHANGED piOutside

Quit ==
  /\ launch.at # "off" /\ quits > 0 /\ quits' = quits - 1
  /\ launch' = [at |-> "off"]
  /\ liveCatalog' = EmptyCatalog /\ generation' = "nobody" /\ hostTurn' = "nobody"
  /\ background' = NoBackground
  /\ hostRefresh' = [r \in HostRefreshes |-> NoRefresh]
  /\ snapshot' = "none" /\ told' = "none" /\ runtimeKey' = "none"
  /\ UNCHANGED <<served, storedKey, opaqueKey, credentialChanges, cacheFile>>

-----------------------------------------------------------------------------
(* The refresh in the background.                                           *)

BackgroundAnswered ==
  /\ background.at = "asking"
  /\ \/ background' = [at |-> "checking", key |-> background.key, version |-> served]
     \/ background' = NoBackground
  /\ UNCHANGED <<piOutside, cacheFile, launch, liveCatalog, generation, hostRefresh, hostTurn, snapshot, told>>

\* routerCredentialIsCurrent, which may wait for a command.
BackgroundChecked ==
  /\ background.at = "checking"
  /\ background' = IF storedKey = background.key THEN [background EXCEPT !.at = "checked"] ELSE NoBackground
  /\ UNCHANGED <<piOutside, cacheFile, launch, liveCatalog, generation, hostRefresh, hostTurn, snapshot, told>>

\* (mutant) whoever asked first, the background's answer is taken
StillItsTurn == TRUE

ItsTurn == generation = "background"

\* publishBackground: in one turn the key is compared again, if it can be read
\* at once; otherwise the cache alone is written.
PublishBackground ==
  /\ background.at = "checked"
  /\ background' = NoBackground
  /\ LET answer == [of |-> background.key, version |-> background.version] IN
       \/ ~ItsTurn /\ UNCHANGED <<liveCatalog, cacheFile, snapshot>>
       \/ ItsTurn /\ opaqueKey
          /\ cacheFile' \in {cacheFile, answer} /\ UNCHANGED <<liveCatalog, snapshot>>
       \/ ItsTurn /\ ~opaqueKey /\ storedKey # background.key
          /\ UNCHANGED <<liveCatalog, cacheFile, snapshot>>
       \/ /\ ItsTurn /\ ~opaqueKey /\ storedKey = background.key
          /\ liveCatalog' = answer
          /\ cacheFile' \in {cacheFile, answer}
          /\ snapshot' = "wanted"
  /\ UNCHANGED <<piOutside, launch, generation, hostRefresh, hostTurn, told>>

-----------------------------------------------------------------------------
(* Pi's refreshes: refreshModels.                                           *)

\* Without the network: another key ends the catalog and whatever is under way.
Invalidated(key) ==
  /\ liveCatalog' = IF liveCatalog.of = key THEN liveCatalog ELSE EmptyCatalog
  /\ generation' = IF liveCatalog.of = key THEN generation ELSE "nobody"

\* Pi begins such a refresh when the credential has changed, and when it is asked
\* for a new snapshot once a session is there; it ends the turn of earlier ones.
RefreshOffline ==
  /\ launch.at = "running"
  /\ told # Effective \/ snapshot = "wanted"
  /\ Invalidated(Effective)
  /\ hostTurn' = "nobody"
  /\ told' = Effective
  /\ snapshot' = "none"
  /\ UNCHANGED <<piOutside, cacheFile, launch, background, hostRefresh>>

BeginRefresh(r) ==
  /\ launch.at = "running" /\ hostRefresh[r] = NoRefresh
  /\ generation' = r /\ hostTurn' = r
  /\ hostRefresh' = [hostRefresh EXCEPT ![r] =
       [at |-> "asking", key |-> Effective]]
  /\ told' = Effective
  /\ UNCHANGED <<piOutside, cacheFile, launch, liveCatalog, background, snapshot>>

\* Router answers, or the refresh fails or is aborted.
RefreshAnswered(r) ==
  /\ hostRefresh[r].at = "asking"
  /\ hostRefresh' = [hostRefresh EXCEPT ![r] =
       IF generation # r THEN NoRefresh
       ELSE [at |-> "publishing", key |-> @.key, version |-> served]]
  /\ UNCHANGED <<piOutside, cacheFile, launch, liveCatalog, generation, background, hostTurn, snapshot, told>>

RefreshFails(r) ==
  /\ hostRefresh[r] # NoRefresh
  /\ hostRefresh' = [hostRefresh EXCEPT ![r] = NoRefresh]
  /\ UNCHANGED <<piOutside, cacheFile, launch, liveCatalog, generation, background, hostTurn, snapshot, told>>

\* publish, whose update runs while it is Pi's newest refresh, and the checks
\* on both sides of it.
PublishRefresh(r) ==
  /\ hostRefresh[r].at = "publishing"
  /\ hostRefresh' = [hostRefresh EXCEPT ![r] = NoRefresh]
  /\ LET answer == [of |-> hostRefresh[r].key, version |-> hostRefresh[r].version] IN
       IF hostTurn = r /\ generation = r
       THEN liveCatalog' = answer /\ cacheFile' \in {cacheFile, answer}
       ELSE UNCHANGED <<liveCatalog, cacheFile>>
  /\ UNCHANGED <<piOutside, launch, generation, background, hostTurn, snapshot, told>>

-----------------------------------------------------------------------------
(* Router, the user, and other processes.                                   *)

NewCatalog ==
  /\ served < MaxCatalog /\ served' = served + 1
  /\ UNCHANGED <<piProcess, storedKey, opaqueKey, runtimeKey, quits, credentialChanges, cacheFile>>

\* /login, or `ramp router setup` in a terminal: the stored key.
StoreKey ==
  /\ credentialChanges > 0 /\ credentialChanges' = credentialChanges - 1
  /\ \E k \in RouterKeys \ {storedKey} : storedKey' = k
  /\ UNCHANGED <<piProcess, served, opaqueKey, runtimeKey, quits, cacheFile>>

\* A key for this process alone.
SetRuntimeKey ==
  /\ launch.at = "running"
  /\ credentialChanges > 0 /\ credentialChanges' = credentialChanges - 1
  /\ \E k \in RouterKeys \cup {"none"} : k # runtimeKey /\ runtimeKey' = k
  /\ UNCHANGED <<piProcess, served, storedKey, opaqueKey, quits, cacheFile>>

PiNext ==
  \/ LaunchAtOnce \/ LaunchAsking \/ LaunchAnswered \/ LaunchChecked \/ Quit
  \/ BackgroundAnswered \/ BackgroundChecked \/ PublishBackground \/ RefreshOffline
  \/ \E r \in HostRefreshes :
       BeginRefresh(r) \/ RefreshAnswered(r) \/ RefreshFails(r) \/ PublishRefresh(r)
  \/ NewCatalog \/ StoreKey \/ SetRuntimeKey

PiSpec == PiInit /\ [][PiNext]_piVars

-----------------------------------------------------------------------------
(* Properties. *)

\* A catalog that appears is one of the key Pi named last, although auth.json may
\* still name another, and while the key stays it is no older than the one it
\* replaces: the refresh in the background, those of Pi and the changes of the
\* credential may overtake each other.  (catalogGeneration in refreshModels)
CatalogsAreCurrent ==
  [][/\ launch.at = "running" /\ liveCatalog' \notin {liveCatalog, EmptyCatalog}
          => liveCatalog'.of = told
     /\ liveCatalog'.of = liveCatalog.of => liveCatalog'.version >= liveCatalog.version]_piVars

-----------------------------------------------------------------------------
(* Why it holds: an invariant that every step keeps.                        *)

Catalogs == {EmptyCatalog} \cup [of : RouterKeys, version : Nat]
Launches ==
  [at : {"off", "running"}] \cup [at : {"asking"}, key : RouterKeys]
    \cup [at : {"checking"}, key : RouterKeys, version : Nat]
Backgrounds ==
  {NoBackground} \cup [at : {"asking"}, key : RouterKeys]
    \cup [at : {"checking", "checked"}, key : RouterKeys, version : Nat]
Refreshes ==
  {NoRefresh} \cup [at : {"asking"}, key : RouterKeys]
    \cup [at : {"publishing"}, key : RouterKeys, version : Nat]
Publishers == HostRefreshes \cup {"nobody", "background"}

PiTypeOK ==
  /\ served \in Nat /\ storedKey \in RouterKeys /\ runtimeKey \in RouterKeys \cup {"none"}
  /\ cacheFile \in Catalogs /\ liveCatalog \in Catalogs
  /\ launch \in Launches /\ background \in Backgrounds
  /\ hostRefresh \in [HostRefreshes -> Refreshes]
  /\ generation \in Publishers /\ hostTurn \in Publishers

\* No catalog is newer than Router's.
NothingNewer ==
  /\ cacheFile.version <= served /\ liveCatalog.version <= served
  /\ launch.at = "checking" => launch.version <= served
  /\ background.at \in {"checking", "checked"} => background.version <= served
  /\ \A r \in HostRefreshes :
       hostRefresh[r].at = "publishing" => hostRefresh[r].version <= served

\* Before a launch is done nothing is shown, and nobody has a turn.
NotBefore ==
  launch.at # "running" =>
    liveCatalog = EmptyCatalog /\ generation = "nobody" /\ hostTurn = "nobody"

\* Who has the turn has asked with the key that was named last, after the catalog
\* on show was answered.
TurnsAreCurrent ==
  /\ generation = "background" /\ background # NoBackground =>
       /\ background.key = told /\ liveCatalog.of = told
       /\ background.at # "asking" => liveCatalog.version <= background.version
  /\ \A r \in HostRefreshes :
       /\ hostTurn = r /\ hostRefresh[r] # NoRefresh => hostRefresh[r].key = told
       /\ generation = r /\ hostRefresh[r].at = "publishing" =>
            liveCatalog.version <= hostRefresh[r].version

PiInv == PiTypeOK /\ NothingNewer /\ NotBefore /\ TurnsAreCurrent

=============================================================================
