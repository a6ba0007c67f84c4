----------------------------- MODULE NpmInstaller ------------------------------
(***************************************************************************)
(* The npm launcher's installation of the native CLI (npm/cli/lib/         *)
(* installer.js): several npm hooks and launchers install, update or claim *)
(* one distribution directory, and may die between any two of their steps. *)
(*                                                                         *)
(* A distribution is its runtime and its receipt (install.json): the       *)
(* version installed, the npm package that owns its updates, and whether   *)
(* Router's clients must still be refreshed for it.  Releases are numbered *)
(* in order.                                                               *)
(***************************************************************************)
EXTENDS Naturals

CONSTANTS
  Installers,            \* processes of the npm packages
  Packages,         \* npm packages
  MaxVersion,       \* bound: releases
  Overlap,          \* whether launchers claim the receipt while it is replaced
  Nothing              \* nothing there

Versions == 1..MaxVersion
UpdateModes == {"default", "pinned", "latest", "forced"}
Receipts == [version : Versions, package : Packages, pending : BOOLEAN]
Dists == [runtime : Versions, receipt : Receipts]
Jobs == [want : Versions, mode : UpdateModes, package : Packages, owns : BOOLEAN]

ASSUME VersionAssumption == MaxVersion \in Nat \ {0}
ASSUME NoneAssumption == Nothing \notin Installers \cup Packages \cup Versions \cup Receipts \cup Dists \cup Jobs
ASSUME OverlapAssumption == Overlap \in BOOLEAN

VARIABLES
  installLock,             \* holder of .install-lock
  dist, backup,     \* the distribution, and previous-<key>
  stage, job,          \* what each process does, and what it was asked for
  seen,             \* the receipt it read
  refreshed,        \* the release Router's clients were last refreshed for (history)
  owner             \* the package that last claimed the receipt (history)

disk == <<dist, backup>>
installerVars == <<installLock, disk, stage, job, seen, refreshed, owner>>

PCs == {"idle", "waiting", "staging", "verified", "retired", "promoted",
        "refreshing", "claiming"}

InstallerInit ==
  /\ installLock = Nothing
  /\ dist = Nothing /\ backup = Nothing
  /\ stage = [p \in Installers |-> "idle"]
  /\ job = [p \in Installers |-> Nothing]
  /\ seen = [p \in Installers |-> Nothing]
  /\ refreshed = Nothing
  /\ owner = Nothing

-----------------------------------------------------------------------------

Goto(p, place) == stage' = [stage EXCEPT ![p] = place]

\* The process is done; a lock it holds is released.
Leave(p) ==
  /\ Goto(p, "idle")
  /\ job' = [job EXCEPT ![p] = Nothing]
  /\ seen' = [seen EXCEPT ![p] = Nothing]
  /\ installLock' = IF installLock = p THEN Nothing ELSE installLock

\* Only a global installation, or the first one, names the package that owns the
\* receipt.
NamesOwner(p, existing) == job[p].owns \/ existing = Nothing

\* (mutant) every installation takes the receipt over
PackageForAny(p, existing) == job[p].package

\* The package a receipt names once this process has written it.
PackageFor(p, existing) ==
  IF NamesOwner(p, existing) THEN job[p].package ELSE existing.package

\* A newer runtime stays put; only a pin or a forced update rolls it back.
Satisfied(p, existing) ==
  /\ existing # Nothing /\ job[p].mode # "forced"
  /\ \/ job[p].mode = "latest"
     \/ job[p].want = existing.version
     \/ job[p].mode = "default" /\ existing.version > job[p].want

-----------------------------------------------------------------------------
(* install *)

Request(p) ==
  /\ stage[p] = "idle"
  /\ \E j \in Jobs : job' = [job EXCEPT ![p] = j]
  /\ Goto(p, "waiting")
  /\ UNCHANGED <<installLock, disk, seen, refreshed, owner>>

\* (mutant) a leftover backup is deleted
RecoveredNot == dist

\* What the directory holds once a backup left by a crash is put back, or is
\* deleted when the distribution had been replaced already.
Recovered == IF dist = Nothing THEN backup ELSE dist

\* The lock is free; the receipt is read after recovery.  A satisfying
\* distribution gets the receipt's new owner, another is staged.
Enter(p) ==
  LET existing == IF Recovered = Nothing THEN Nothing ELSE Recovered.receipt
      receipt == [existing EXCEPT !.package = PackageFor(p, existing)]
  IN  /\ stage[p] = "waiting" /\ installLock = Nothing
      /\ Overlap \/ ~\E q \in Installers : stage[q] = "claiming"
      /\ installLock' = p
      /\ backup' = Nothing
      /\ IF Satisfied(p, existing)
         THEN /\ dist' = [Recovered EXCEPT !.receipt = receipt]
              /\ seen' = [seen EXCEPT ![p] = receipt]
              /\ owner' = IF NamesOwner(p, existing) THEN job[p].package ELSE owner
              /\ Goto(p, "refreshing")
         ELSE /\ dist' = Recovered
              /\ seen' = [seen EXCEPT ![p] = existing]
              /\ Goto(p, "staging")
              /\ UNCHANGED owner
      /\ UNCHANGED <<job, refreshed>>

\* The release is downloaded, verified, extracted, and runs.
Verify(p) ==
  /\ stage[p] = "staging"
  /\ Goto(p, "verified")
  /\ UNCHANGED <<installLock, disk, job, seen, refreshed, owner>>

\* Anything before the distribution is touched may fail: it is preserved.
Abandon(p) ==
  /\ stage[p] \in {"staging", "verified", "waiting"}
  /\ Leave(p)
  /\ UNCHANGED <<disk, refreshed, owner>>

\* A recognized distribution makes way.
Retire(p) ==
  /\ stage[p] = "verified"
  /\ IF seen[p] # Nothing THEN backup' = dist /\ dist' = Nothing ELSE UNCHANGED disk
  /\ Goto(p, "retired")
  /\ UNCHANGED <<installLock, job, seen, refreshed, owner>>

\* (mutant) an update that reinstalls a release forgets what it owed
OwedNow(p) == seen[p] # Nothing /\ seen[p].version # job[p].want

\* Router's clients were configured by another release, or their refresh is
\* still owed.
Owed(p) == seen[p] # Nothing /\ (seen[p].version # job[p].want \/ seen[p].pending)

\* The staged one takes its place.
Promote(p) ==
  /\ stage[p] = "retired"
  /\ dist' = [runtime |-> job[p].want,
              receipt |-> [version |-> job[p].want, package |-> PackageFor(p, seen[p]),
                           pending |-> Owed(p)]]
  /\ owner' = IF NamesOwner(p, seen[p]) THEN job[p].package ELSE owner
  /\ refreshed' = IF seen[p] = Nothing THEN job[p].want ELSE refreshed
  /\ Goto(p, "promoted")
  /\ UNCHANGED <<installLock, backup, job, seen>>

\* It cannot: the backup is put back.
PromoteFails(p) ==
  /\ stage[p] = "retired"
  /\ IF seen[p] # Nothing THEN dist' = backup /\ backup' = Nothing ELSE UNCHANGED disk
  /\ Leave(p)
  /\ UNCHANGED <<refreshed, owner>>

\* The backup is removed; refreshRouter reads the receipt.
Discard(p) ==
  /\ stage[p] = "promoted"
  /\ backup' = Nothing
  /\ seen' = [seen EXCEPT ![p] = dist.receipt]
  /\ Goto(p, "refreshing")
  /\ UNCHANGED <<installLock, dist, job, refreshed, owner>>

-----------------------------------------------------------------------------
(* refreshRouter *)

\* `ramp router refresh` of the installed runtime succeeds, and the receipt read
\* before it is written back without the debt.
Refresh(p) ==
  /\ stage[p] = "refreshing" /\ seen[p].pending
  /\ refreshed' = dist.runtime
  /\ dist' = [dist EXCEPT !.receipt = [seen[p] EXCEPT !.pending = FALSE]]
  /\ Leave(p)
  /\ UNCHANGED <<backup, owner>>

\* There is nothing to refresh, or it fails and stays owed.
SkipRefresh(p) ==
  /\ stage[p] = "refreshing"
  /\ Leave(p)
  /\ UNCHANGED <<disk, refreshed, owner>>

-----------------------------------------------------------------------------
(* syncReceipt, which takes no lock *)

ReadReceipt(p) ==
  /\ Overlap \/ installLock = Nothing
  /\ stage[p] = "idle" /\ dist # Nothing
  /\ \E j \in Jobs : j.owns /\ job' = [job EXCEPT ![p] = j]
  /\ seen' = [seen EXCEPT ![p] = dist.receipt]
  /\ Goto(p, "claiming")
  /\ UNCHANGED <<installLock, disk, refreshed, owner>>

\* The write fails while there is no distribution directory.
ClaimReceipt(p) ==
  /\ stage[p] = "claiming"
  /\ IF dist # Nothing
     THEN /\ dist' = [dist EXCEPT !.receipt = [seen[p] EXCEPT !.package = job[p].package]]
          /\ owner' = job[p].package
     ELSE UNCHANGED <<dist, owner>>
  /\ Leave(p)
  /\ UNCHANGED <<backup, refreshed>>

-----------------------------------------------------------------------------

\* The process dies.  Its lock stays until it is stale.
Crash(p) ==
  /\ stage[p] \notin {"idle", "waiting"}
  /\ Goto(p, "idle")
  /\ job' = [job EXCEPT ![p] = Nothing]
  /\ seen' = [seen EXCEPT ![p] = Nothing]
  /\ UNCHANGED <<installLock, disk, refreshed, owner>>

\* A lock nobody has renewed is removed by a process waiting for it.
Steal(p) ==
  /\ stage[p] = "waiting"
  /\ installLock # Nothing /\ stage[installLock] \in {"idle", "waiting"}
  /\ installLock' = Nothing
  /\ UNCHANGED <<disk, stage, job, seen, refreshed, owner>>

InstallerNext == \E p \in Installers :
  \/ Request(p) \/ Enter(p) \/ Verify(p) \/ Abandon(p)
  \/ Retire(p) \/ Promote(p) \/ PromoteFails(p) \/ Discard(p)
  \/ Refresh(p) \/ SkipRefresh(p)
  \/ ReadReceipt(p) \/ ClaimReceipt(p)
  \/ Crash(p) \/ Steal(p)

InstallerSpec == InstallerInit /\ [][InstallerNext]_installerVars

-----------------------------------------------------------------------------
(* Properties *)

\* Once a CLI is installed it stays on disk, whole, whatever dies or fails:
\* replacing it never leaves the directory with neither the old nor the new one.
NeverLost == refreshed # Nothing => dist # Nothing \/ backup # Nothing

\* Router's clients are configured by the runtime installed, or its receipt says
\* that they must be refreshed (refreshPending).
RefreshIsOwed ==
  LET d == Recovered
  IN  d # Nothing => d.receipt.pending \/ refreshed = d.runtime

\* The receipt names the package that last claimed it, so `ramp update` updates
\* that one.
OwnerStands == Recovered # Nothing => Recovered.receipt.package = owner

-----------------------------------------------------------------------------
(* The inductive invariant behind them.  What follows from the lock alone: *)

\* What holds the lock.
AtWork == {"staging", "verified", "retired", "promoted", "refreshing"}

InstallerTypeOK ==
  /\ installLock \in Installers \cup {Nothing}
  /\ dist \in Dists \cup {Nothing} /\ backup \in Dists \cup {Nothing}
  /\ stage \in [Installers -> PCs]
  /\ job \in [Installers -> Jobs \cup {Nothing}]
  /\ seen \in [Installers -> Receipts \cup {Nothing}]
  /\ refreshed \in Versions \cup {Nothing} /\ owner \in Packages \cup {Nothing}
  /\ \A p \in Installers : stage[p] # "idle" => job[p] # Nothing

HolderInv == \A p \in Installers : stage[p] \in AtWork => installLock = p

\* Who works on the distribution knows whether there is one.
There(p) ==
  /\ stage[p] \in {"staging", "verified"} => (seen[p] # Nothing <=> dist # Nothing)
  /\ stage[p] = "retired" => dist = Nothing /\ (seen[p] # Nothing => backup # Nothing)
  /\ stage[p] \in {"promoted", "refreshing"} => dist # Nothing
  /\ stage[p] \in {"refreshing", "claiming"} => seen[p] # Nothing

ThereInv == \A p \in Installers : There(p)

KeptInv == InstallerTypeOK /\ HolderInv /\ ThereInv /\ NeverLost

(* And what holds only if no launcher claims the receipt while it is replaced: *)

\* A receipt that has been read is the one there is, but for a claim beside another.
Reads(p) ==
  /\ stage[p] \in {"staging", "verified", "retired"} /\ seen[p] # Nothing =>
       seen[p] = Recovered.receipt
  /\ stage[p] = "refreshing" => seen[p] = dist.receipt
  /\ stage[p] = "claiming" =>
       /\ dist # Nothing
       /\ seen[p].version = dist.receipt.version /\ seen[p].pending = dist.receipt.pending
       /\ \A q \in Installers : stage[q] \notin AtWork

SeenInv == \A p \in Installers : Reads(p)

\* A receipt is of the runtime beside it.
WholeInv == \A d \in {dist, backup} : d # Nothing => d.runtime = d.receipt.version

ReceiptInv == KeptInv /\ SeenInv /\ WholeInv /\ RefreshIsOwed /\ OwnerStands
=============================================================================
