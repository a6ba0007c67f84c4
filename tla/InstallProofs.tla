------------------------------ MODULE InstallProofs ------------------------------
(***************************************************************************)
(* What a computer keeps: the installed CLI, and the listener its setups   *)
(* use.                                                                    *)
(*                                                                         *)
(* The npm installer, for any number of processes, packages and releases.  *)
(* That an installed CLI is never lost follows from the lock alone, which  *)
(* a process that has died leaves to whoever steals it: one process works  *)
(* on the distribution and knows what is there (HolderInv, ThereInv).      *)
(* That the refresh stays owed and the owner stands needs that what a      *)
(* process has read is still what is there (SeenInv), which a launcher     *)
(* that claims the receipt without the lock can undo: these two are proved *)
(* for launchers that do not claim while another replaces.                 *)
(*                                                                         *)
(* Repository tagging: no setup is left on a listener that has stopped,    *)
(* for any number of commands, clients and ports, whichever commands are   *)
(* killed.  The hypothesis is that only Claude Desktop is set up beside a  *)
(* disable: its lock is the one the scan for setups takes.  For another    *)
(* client the property is false, as a run shows.  The invariant says that  *)
(* the port of a setup, written or chosen, is the one the settings ask for *)
(* and the agent listens on (UseInv), and what each command rests on       *)
(* before it changes either (SettleInv).                                   *)
(***************************************************************************)
EXTENDS NpmInstaller, RepoListener, TLAPS

USE NoneAssumption, ClientsAssumption, PortsAssumption

-----------------------------------------------------------------------------
(* The installer: receipts and distributions.                               *)

\* A receipt with another package, or without the debt.
LEMMA Rewritten ==
  ASSUME NEW r \in Receipts, NEW x \in Packages
  PROVE  /\ [r EXCEPT !.package = x]
               = [version |-> r.version, package |-> x, pending |-> r.pending]
         /\ [r EXCEPT !.pending = FALSE]
               = [version |-> r.version, package |-> r.package, pending |-> FALSE]
<1>1. ASSUME NEW n, n = [r EXCEPT !.package = x]
      PROVE  n = [version |-> r.version, package |-> x, pending |-> r.pending]
  BY <1>1, Zenon DEF Receipts
<1>2. ASSUME NEW n, n = [r EXCEPT !.pending = FALSE]
      PROVE  n = [version |-> r.version, package |-> r.package, pending |-> FALSE]
  BY <1>2, Zenon DEF Receipts
<1>3. QED BY <1>1, <1>2, Zenon

\* A receipt claimed keeps its version and its debt.
LEMMA Claimed ==
  ASSUME NEW r \in Receipts, NEW x \in Packages, NEW n, n = [r EXCEPT !.package = x]
  PROVE  /\ n \in Receipts /\ n # Nothing
         /\ n.version = r.version /\ n.package = x /\ n.pending = r.pending
<1>1. n = [version |-> r.version, package |-> x, pending |-> r.pending]
  BY Rewritten
<1>2. r.version \in Versions /\ r.pending \in BOOLEAN
  BY Zenon DEF Receipts
<1>3. QED BY <1>1, <1>2, Zenon DEF Receipts

\* A receipt paid keeps its version and its package.
LEMMA Paid ==
  ASSUME NEW r \in Receipts, NEW n, n = [r EXCEPT !.pending = FALSE]
  PROVE  /\ n \in Receipts /\ n # Nothing
         /\ n.version = r.version /\ n.package = r.package /\ n.pending = FALSE
<1>1. r.version \in Versions /\ r.package \in Packages
  BY Zenon DEF Receipts
<1>2. n = [version |-> r.version, package |-> r.package, pending |-> FALSE]
  BY <1>1, Rewritten
<1>3. QED BY <1>1, <1>2, Zenon DEF Receipts

\* A distribution, and one with another receipt.
LEMMA Distribution ==
  ASSUME NEW d \in Dists, NEW r \in Receipts
  PROVE  /\ d # Nothing /\ d.receipt \in Receipts /\ d.runtime \in Versions
         /\ [d EXCEPT !.receipt = r] \in Dists
         /\ [d EXCEPT !.receipt = r].runtime = d.runtime
         /\ [d EXCEPT !.receipt = r].receipt = r
<1>1. d # Nothing /\ d.receipt \in Receipts /\ d.runtime \in Versions
  BY SMT DEF Dists
<1>2. ASSUME NEW n, n = [d EXCEPT !.receipt = r]
      PROVE  n = [runtime |-> d.runtime, receipt |-> r]
  BY <1>2, Zenon DEF Dists
<1>3. [d EXCEPT !.receipt = r] = [runtime |-> d.runtime, receipt |-> r]
  BY <1>2, Zenon
<1>4. QED BY <1>1, <1>3, SMT DEF Dists

\* What a process is asked for.
LEMMA Asked ==
  ASSUME InstallerTypeOK, NEW p \in Installers, stage[p] # "idle"
  PROVE  job[p].want \in Versions /\ job[p].package \in Packages
<1>1. job[p] \in Jobs
  BY DEF InstallerTypeOK
<1>2. QED BY <1>1, Zenon DEF Jobs

\* The distribution after recovery.
LEMMA Recovery ==
  ASSUME InstallerTypeOK
  PROVE  /\ Recovered \in Dists \cup {Nothing}
         /\ Recovered = Nothing <=> dist = Nothing /\ backup = Nothing
         /\ Recovered # Nothing => Recovered.receipt \in Receipts /\ Recovered \in Dists
<1>1. /\ Recovered \in Dists \cup {Nothing}
      /\ Recovered = Nothing <=> dist = Nothing /\ backup = Nothing
  BY DEF Recovered, InstallerTypeOK
<1>2. QED BY <1>1, SMT DEF Dists

-----------------------------------------------------------------------------
(* One process acts, the others rest.                                       *)

Acts(p) ==
  \A q \in Installers : q # p =>
    stage'[q] = stage[q] /\ job'[q] = job[q] /\ seen'[q] = seen[q]

\* Only one process works on the distribution, and none while the lock is free.
LEMMA Sole ==
  ASSUME HolderInv
  PROVE  /\ \A p, q \in Installers : stage[p] \in AtWork /\ stage[q] \in AtWork => p = q
         /\ installLock = Nothing => \A p \in Installers : stage[p] \notin AtWork
BY DEF HolderInv

\* Who works holds the lock, whichever process moves.
LEMMA HolderStays ==
  ASSUME HolderInv, NEW p \in Installers, Acts(p),
         stage'[p] \in AtWork => installLock' = p,
         installLock' = installLock \/ installLock \in {p, Nothing}
  PROVE  HolderInv'
BY DEF HolderInv, Acts

\* One process works on the distribution, and the others leave what is there.
LEMMA ThereStays ==
  ASSUME ThereInv, NEW p \in Installers, Acts(p), There(p)',
         \/ \A q \in Installers : q # p => stage[q] \notin AtWork
         \/ (dist' = Nothing <=> dist = Nothing) /\ (backup' = Nothing <=> backup = Nothing)
  PROVE  ThereInv'
<1>1. ASSUME NEW q \in Installers, q # p PROVE There(q)'
  BY <1>1 DEF ThereInv, There, Acts, AtWork
<1>2. QED BY <1>1 DEF ThereInv

\* The types that stay when one process goes on to a stage with what it has seen.
LEMMA TypesStay ==
  ASSUME InstallerTypeOK, NEW p \in Installers, NEW place \in PCs, Goto(p, place),
         NEW r \in Receipts \cup {Nothing}, seen' = [seen EXCEPT ![p] = r],
         job' = job, stage[p] # "idle",
         installLock' \in Installers \cup {Nothing},
         dist' \in Dists \cup {Nothing}, backup' \in Dists \cup {Nothing},
         refreshed' \in Versions \cup {Nothing}, owner' \in Packages \cup {Nothing}
  PROVE  InstallerTypeOK' /\ Acts(p) /\ stage'[p] = place /\ seen'[p] = r /\ job'[p] = job[p]
<1>1. stage' \in [Installers -> PCs] /\ stage'[p] = place
      /\ \A q \in Installers : q # p => stage'[q] = stage[q]
  BY DEF Goto, InstallerTypeOK
<1>2. seen' \in [Installers -> Receipts \cup {Nothing}] /\ seen'[p] = r
      /\ \A q \in Installers : q # p => seen'[q] = seen[q]
  BY DEF InstallerTypeOK
<1>3. QED BY <1>1, <1>2 DEF InstallerTypeOK, Acts

\* ... or leaves.
LEMMA Leaves ==
  ASSUME InstallerTypeOK, NEW p \in Installers, Leave(p),
         dist' \in Dists \cup {Nothing}, backup' \in Dists \cup {Nothing},
         refreshed' \in Versions \cup {Nothing}, owner' \in Packages \cup {Nothing}
  PROVE  /\ InstallerTypeOK' /\ Acts(p) /\ stage'[p] = "idle" /\ There(p)'
         /\ installLock' = installLock \/ installLock \in {p, Nothing}
<1>1. stage' \in [Installers -> PCs] /\ stage'[p] = "idle"
      /\ \A q \in Installers : q # p => stage'[q] = stage[q]
  BY DEF Leave, Goto, InstallerTypeOK, PCs
<1>2. /\ seen' \in [Installers -> Receipts \cup {Nothing}]
      /\ job' \in [Installers -> Jobs \cup {Nothing}]
      /\ \A q \in Installers : q # p => seen'[q] = seen[q] /\ job'[q] = job[q]
  BY DEF Leave, InstallerTypeOK
<1>3. installLock' \in Installers \cup {Nothing}
      /\ (installLock' = installLock \/ installLock \in {p, Nothing})
  BY DEF Leave, InstallerTypeOK
<1>4. QED BY <1>1, <1>2, <1>3 DEF InstallerTypeOK, Acts, There

-----------------------------------------------------------------------------
(* From the lock alone: KeptInv.                                            *)

\* Nothing is installed or under way at the start.
LEMMA KeptInit == InstallerInit => KeptInv
BY DEF InstallerInit, KeptInv, InstallerTypeOK, HolderInv, AtWork, ThereInv, There, NeverLost, PCs

\* A process that asks to install has touched nothing.
LEMMA RequestKept == ASSUME KeptInv, NEW p \in Installers, Request(p) PROVE KeptInv'
<1> USE DEF KeptInv
<1>1. PICK j \in Jobs : job' = [job EXCEPT ![p] = j]
  BY DEF Request
<1>2. /\ stage' = [stage EXCEPT ![p] = "waiting"]
      /\ UNCHANGED <<installLock, disk, seen, refreshed, owner>>
  BY DEF Request, Goto
<1>3. InstallerTypeOK'
  BY <1>1, <1>2 DEF InstallerTypeOK, PCs, disk
<1>4. Acts(p) /\ stage'[p] = "waiting"
  BY <1>1, <1>2 DEF Acts, InstallerTypeOK
<1>5. HolderInv'
  BY <1>2, <1>4, HolderStays DEF AtWork
<1>6. ThereInv'
  BY <1>2, <1>4, ThereStays DEF There, disk
<1>7. QED BY <1>2, <1>3, <1>5, <1>6 DEF NeverLost, disk

\* The lock is free, and the receipt read after recovery.
LEMMA Enters ==
  ASSUME KeptInv, NEW p \in Installers, Enter(p)
  PROVE  /\ KeptInv' /\ Acts(p) /\ backup' = Nothing
         /\ \A q \in Installers : stage[q] \notin AtWork
         /\ job' = job /\ refreshed' = refreshed
         /\ \/ /\ stage'[p] = "refreshing" /\ Recovered # Nothing
               /\ dist' = [Recovered EXCEPT !.receipt = seen'[p]]
               /\ seen'[p] = [Recovered.receipt EXCEPT !.package = PackageFor(p, Recovered.receipt)]
               /\ owner' = IF NamesOwner(p, Recovered.receipt) THEN job[p].package ELSE owner
               /\ seen'[p] \in Receipts /\ PackageFor(p, Recovered.receipt) \in Packages
            \/ /\ stage'[p] = "staging" /\ dist' = Recovered /\ owner' = owner
               /\ seen'[p] = IF Recovered = Nothing THEN Nothing ELSE Recovered.receipt
<1> USE DEF KeptInv
<1> DEFINE existing == IF Recovered = Nothing THEN Nothing ELSE Recovered.receipt
           receipt == [existing EXCEPT !.package = PackageFor(p, existing)]
<1>1. /\ stage[p] = "waiting" /\ installLock = Nothing /\ installLock' = p
      /\ backup' = Nothing /\ job' = job /\ refreshed' = refreshed
  BY DEF Enter
<1>2. \/ /\ Satisfied(p, existing)
         /\ dist' = [Recovered EXCEPT !.receipt = receipt]
         /\ seen' = [seen EXCEPT ![p] = receipt]
         /\ owner' = IF NamesOwner(p, existing) THEN job[p].package ELSE owner
         /\ Goto(p, "refreshing")
      \/ /\ dist' = Recovered /\ seen' = [seen EXCEPT ![p] = existing]
         /\ Goto(p, "staging") /\ owner' = owner
  BY DEF Enter
<1>3. job[p].package \in Packages
  BY <1>1, Asked
<1>4. \A q \in Installers : stage[q] \notin AtWork
  BY <1>1, Sole
<1>5. CASE /\ Satisfied(p, existing)
           /\ dist' = [Recovered EXCEPT !.receipt = receipt]
           /\ seen' = [seen EXCEPT ![p] = receipt]
           /\ owner' = IF NamesOwner(p, existing) THEN job[p].package ELSE owner
           /\ Goto(p, "refreshing")
  <2>1. /\ Recovered # Nothing /\ existing = Recovered.receipt /\ existing \in Receipts
        /\ Recovered \in Dists
    BY <1>5, Recovery DEF Satisfied
  <2>2. PackageFor(p, existing) \in Packages
    BY <1>3, <2>1, SMT DEF PackageFor, Receipts
  <2>3. receipt \in Receipts /\ receipt # Nothing
    BY <2>1, <2>2, Claimed
  <2>4. dist' \in Dists /\ dist' # Nothing
    BY <1>5, <2>1, <2>3, Distribution
  <2>5. owner' \in Packages \cup {Nothing}
    BY <1>3, <1>5 DEF InstallerTypeOK
  <2> HIDE DEF receipt
  <2>6. InstallerTypeOK' /\ Acts(p) /\ stage'[p] = "refreshing" /\ seen'[p] = receipt
    BY <1>1, <1>5, <2>3, <2>4, <2>5, TypesStay DEF PCs, InstallerTypeOK
  <2>7. HolderInv'
    BY <1>1, <2>6, HolderStays
  <2>8. ThereInv'
    BY <1>4, <2>3, <2>4, <2>6, ThereStays DEF There
  <2>9. NeverLost'
    BY <2>4 DEF NeverLost
  <2>10. seen'[p] = [Recovered.receipt EXCEPT !.package = PackageFor(p, Recovered.receipt)]
    BY <2>1, <2>6 DEF receipt
  <2>11. QED BY <1>1, <1>4, <1>5, <2>1, <2>2, <2>3, <2>6, <2>7, <2>8, <2>9, <2>10
<1>6. CASE /\ dist' = Recovered /\ seen' = [seen EXCEPT ![p] = existing]
           /\ Goto(p, "staging") /\ owner' = owner
  <2>1. existing \in Receipts \cup {Nothing} /\ (existing # Nothing <=> Recovered # Nothing)
        /\ Recovered \in Dists \cup {Nothing}
    BY Recovery
  <2> HIDE DEF existing
  <2>2. InstallerTypeOK' /\ Acts(p) /\ stage'[p] = "staging" /\ seen'[p] = existing
    BY <1>1, <1>6, <2>1, TypesStay DEF PCs, InstallerTypeOK
  <2>3. HolderInv'
    BY <1>1, <2>2, HolderStays
  <2>4. ThereInv'
    BY <1>4, <1>6, <2>1, <2>2, ThereStays DEF There
  <2>5. NeverLost'
    BY <1>1, <1>6, Recovery DEF NeverLost
  <2>6. QED BY <1>1, <1>4, <1>6, <2>2, <2>3, <2>4, <2>5 DEF existing
<1>7. QED BY <1>2, <1>5, <1>6

\* A verified artifact is staged beside what is there.
LEMMA VerifyKept ==
  ASSUME KeptInv, NEW p \in Installers, Verify(p)
  PROVE  KeptInv' /\ Acts(p) /\ stage'[p] = "verified" /\ seen' = seen
<1> USE DEF KeptInv
<1>1. /\ stage[p] = "staging" /\ stage' = [stage EXCEPT ![p] = "verified"]
      /\ UNCHANGED <<installLock, disk, job, seen, refreshed, owner>>
  BY DEF Verify, Goto
<1>2. InstallerTypeOK'
  BY <1>1 DEF InstallerTypeOK, PCs, disk
<1>3. Acts(p) /\ stage'[p] = "verified"
  BY <1>1 DEF Acts, InstallerTypeOK
<1>4. HolderInv'
  BY <1>1, <1>3, HolderStays DEF HolderInv, AtWork
<1>5. ThereInv'
  BY <1>1, <1>3, ThereStays DEF ThereInv, There, disk
<1>6. QED BY <1>1, <1>2, <1>3, <1>4, <1>5 DEF NeverLost, disk

\* Whoever leaves without touching the distribution.
LEMMA LeavesKept ==
  ASSUME KeptInv, NEW p \in Installers, Leave(p), UNCHANGED <<disk, refreshed, owner>>
  PROVE  KeptInv' /\ Acts(p) /\ stage'[p] = "idle"
<1> USE DEF KeptInv, disk
<1>1. /\ InstallerTypeOK' /\ Acts(p) /\ stage'[p] = "idle" /\ There(p)'
      /\ installLock' = installLock \/ installLock \in {p, Nothing}
  BY Leaves DEF InstallerTypeOK
<1>2. HolderInv' /\ ThereInv'
  BY <1>1, HolderStays, ThereStays DEF AtWork
<1>3. QED BY <1>1, <1>2 DEF NeverLost

\* The distribution moves to its backup.
LEMMA RetireKept ==
  ASSUME KeptInv, NEW p \in Installers, Retire(p)
  PROVE  /\ KeptInv' /\ Acts(p) /\ stage'[p] = "retired" /\ seen' = seen /\ dist' = Nothing
         /\ seen[p] # Nothing => backup' = dist
<1> USE DEF KeptInv
<1>1. /\ stage[p] = "verified" /\ stage' = [stage EXCEPT ![p] = "retired"]
      /\ IF seen[p] # Nothing THEN backup' = dist /\ dist' = Nothing ELSE UNCHANGED <<dist, backup>>
      /\ UNCHANGED <<installLock, job, seen, refreshed, owner>>
  BY DEF Retire, Goto, disk
<1>2. stage[p] \in AtWork /\ (seen[p] # Nothing <=> dist # Nothing)
  BY <1>1 DEF AtWork, ThereInv, There
<1>3. /\ dist' = Nothing /\ (seen[p] # Nothing => backup' = dist)
      /\ dist # Nothing => backup' # Nothing
      /\ dist = Nothing => backup' = backup
  BY <1>1, <1>2
<1>4. InstallerTypeOK'
  BY <1>1 DEF InstallerTypeOK, PCs
<1>5. Acts(p) /\ stage'[p] = "retired"
  BY <1>1 DEF Acts, InstallerTypeOK
<1>6. HolderInv'
  BY <1>1, <1>2, <1>5, HolderStays DEF HolderInv
<1>7. There(p)'
  BY <1>1, <1>2, <1>3, <1>5 DEF There
<1>8. ThereInv'
  BY <1>2, <1>5, <1>7, Sole, ThereStays
<1>9. NeverLost'
  BY <1>1, <1>3 DEF NeverLost
<1>10. QED BY <1>1, <1>3, <1>4, <1>5, <1>6, <1>8, <1>9

\* The staged one takes its place.
LEMMA PromoteKept ==
  ASSUME KeptInv, NEW p \in Installers, Promote(p)
  PROVE  /\ KeptInv' /\ Acts(p) /\ stage'[p] = "promoted" /\ stage[p] \in AtWork
         /\ dist' # Nothing /\ PackageFor(p, seen[p]) \in Packages
<1> USE DEF KeptInv
<1> DEFINE receipt == [version |-> job[p].want, package |-> PackageFor(p, seen[p]),
                       pending |-> Owed(p)]
<1>1. /\ stage[p] = "retired" /\ stage' = [stage EXCEPT ![p] = "promoted"]
      /\ dist' = [runtime |-> job[p].want, receipt |-> receipt]
      /\ owner' = IF NamesOwner(p, seen[p]) THEN job[p].package ELSE owner
      /\ refreshed' = IF seen[p] = Nothing THEN job[p].want ELSE refreshed
      /\ UNCHANGED <<installLock, backup, job, seen>>
  BY DEF Promote, Goto
<1>2. job[p].want \in Versions /\ job[p].package \in Packages
  BY <1>1, Asked
<1>3. PackageFor(p, seen[p]) \in Packages
  BY <1>2, SMT DEF PackageFor, NamesOwner, InstallerTypeOK, Receipts
<1>4. receipt \in Receipts
  <2>1. Owed(p) \in BOOLEAN
    <3>1. CASE seen[p] = Nothing
      BY <3>1, Zenon DEF Owed
    <3>2. CASE seen[p] # Nothing
      <4>1. seen[p].pending \in BOOLEAN
        BY <3>2, Zenon DEF InstallerTypeOK, Receipts
      <4>2. QED BY <4>1, Zenon DEF Owed
    <3>3. QED BY <3>1, <3>2
  <2>2. QED BY <1>2, <1>3, <2>1, Zenon DEF Receipts
<1> HIDE DEF receipt
<1>5. dist' \in Dists /\ dist' # Nothing
  BY <1>1, <1>2, <1>4, SMT DEF Dists
<1>6. InstallerTypeOK'
  BY <1>1, <1>2, <1>5 DEF InstallerTypeOK, PCs
<1>7. Acts(p) /\ stage'[p] = "promoted" /\ stage[p] \in AtWork
  BY <1>1 DEF Acts, InstallerTypeOK, AtWork
<1>8. HolderInv'
  BY <1>1, <1>7, HolderStays DEF HolderInv
<1>9. ThereInv'
  BY <1>5, <1>7, Sole, ThereStays DEF There
<1>10. QED BY <1>3, <1>5, <1>6, <1>7, <1>8, <1>9 DEF NeverLost

\* A promotion that fails puts the backup back.
LEMMA PromoteFailsKept ==
  ASSUME KeptInv, NEW p \in Installers, PromoteFails(p)
  PROVE  KeptInv' /\ Acts(p) /\ stage'[p] = "idle" /\ stage[p] \in AtWork
<1> USE DEF KeptInv
<1>1. /\ stage[p] = "retired" /\ Leave(p) /\ UNCHANGED <<refreshed, owner>>
      /\ IF seen[p] # Nothing THEN dist' = backup /\ backup' = Nothing
         ELSE UNCHANGED <<dist, backup>>
  BY DEF PromoteFails, disk
<1>2. /\ InstallerTypeOK' /\ Acts(p) /\ stage'[p] = "idle" /\ There(p)'
      /\ installLock' = installLock \/ installLock \in {p, Nothing}
  BY <1>1, Leaves DEF InstallerTypeOK
<1>3. stage[p] \in AtWork /\ (seen[p] # Nothing => backup # Nothing)
  BY <1>1 DEF AtWork, ThereInv, There
<1>4. HolderInv' /\ ThereInv'
  BY <1>2, <1>3, Sole, HolderStays, ThereStays DEF AtWork
<1>5. QED BY <1>1, <1>2, <1>3, <1>4 DEF NeverLost

\* The backup goes once the new distribution is in place.
LEMMA DiscardKept ==
  ASSUME KeptInv, NEW p \in Installers, Discard(p)
  PROVE  /\ KeptInv' /\ Acts(p) /\ stage'[p] = "refreshing" /\ stage[p] \in AtWork
         /\ seen'[p] = dist.receipt
<1> USE DEF KeptInv
<1>1. /\ stage[p] = "promoted" /\ Goto(p, "refreshing") /\ backup' = Nothing
      /\ seen' = [seen EXCEPT ![p] = dist.receipt]
      /\ UNCHANGED <<installLock, dist, job, refreshed, owner>>
  BY DEF Discard
<1>2. dist # Nothing /\ dist.receipt \in Receipts /\ stage[p] \in AtWork
  BY <1>1, SMT DEF ThereInv, There, InstallerTypeOK, Dists, AtWork
<1>3. InstallerTypeOK' /\ Acts(p) /\ stage'[p] = "refreshing" /\ seen'[p] = dist.receipt
  BY <1>1, <1>2, TypesStay, ZenonT(40) DEF InstallerTypeOK, PCs
<1>4. HolderInv'
  BY <1>1, <1>2, <1>3, HolderStays DEF HolderInv
<1>5. ThereInv'
  BY <1>1, <1>2, <1>3, Sole, ThereStays DEF There
<1>6. QED BY <1>1, <1>2, <1>3, <1>4, <1>5 DEF NeverLost

\* The receipt is written over by one that was read: the distribution is still there.
LEMMA WritesReceipt ==
  ASSUME KeptInv, NEW p \in Installers, Leave(p), dist # Nothing, backup' = backup,
         NEW r \in Receipts, dist' = [dist EXCEPT !.receipt = r],
         refreshed' \in Versions \cup {Nothing}, owner' \in Packages \cup {Nothing}
  PROVE  /\ KeptInv' /\ Acts(p) /\ stage'[p] = "idle"
         /\ dist'.runtime = dist.runtime /\ dist'.receipt = r /\ dist' # Nothing
<1> USE DEF KeptInv
<1>1. dist \in Dists
  BY DEF InstallerTypeOK
<1>2. dist' \in Dists /\ dist' # Nothing /\ dist'.runtime = dist.runtime /\ dist'.receipt = r
  BY <1>1, Distribution
<1>3. /\ InstallerTypeOK' /\ Acts(p) /\ stage'[p] = "idle" /\ There(p)'
      /\ installLock' = installLock \/ installLock \in {p, Nothing}
  BY <1>2, Leaves DEF InstallerTypeOK
<1>4. HolderInv' /\ ThereInv'
  BY <1>2, <1>3, HolderStays, ThereStays DEF AtWork
<1>5. QED BY <1>2, <1>3, <1>4 DEF NeverLost

\* A refresh changes the receipt alone.
LEMMA RefreshKept ==
  ASSUME KeptInv, NEW p \in Installers, Refresh(p)
  PROVE  /\ KeptInv' /\ Acts(p) /\ stage'[p] = "idle" /\ stage[p] \in AtWork
         /\ dist' # Nothing /\ dist'.runtime = dist.runtime
         /\ dist'.receipt.version = seen[p].version
         /\ dist'.receipt.package = seen[p].package /\ seen[p] \in Receipts
<1> USE DEF KeptInv
<1> DEFINE receipt == [seen[p] EXCEPT !.pending = FALSE]
<1>1. /\ stage[p] = "refreshing" /\ refreshed' = dist.runtime /\ Leave(p)
      /\ dist' = [dist EXCEPT !.receipt = receipt] /\ UNCHANGED <<backup, owner>>
  BY DEF Refresh
<1>2. stage[p] \in AtWork /\ dist # Nothing /\ seen[p] \in Receipts
  BY <1>1 DEF AtWork, ThereInv, There, InstallerTypeOK
<1>3. receipt \in Receipts /\ receipt.version = seen[p].version /\ receipt.package = seen[p].package
  BY <1>2, Paid
<1>4. refreshed' \in Versions \cup {Nothing} /\ owner' \in Packages \cup {Nothing}
  BY <1>1, <1>2, SMT DEF InstallerTypeOK, Dists
<1> HIDE DEF receipt
<1>5. QED BY <1>1, <1>2, <1>3, <1>4, WritesReceipt

\* A claim reads,
LEMMA ReadReceiptKept ==
  ASSUME KeptInv, NEW p \in Installers, ReadReceipt(p)
  PROVE  KeptInv' /\ Acts(p) /\ stage'[p] = "claiming" /\ seen'[p] = dist.receipt
<1> USE DEF KeptInv
<1>1. PICK j \in Jobs : job' = [job EXCEPT ![p] = j]
  BY DEF ReadReceipt
<1>2. /\ stage[p] = "idle" /\ dist # Nothing /\ stage' = [stage EXCEPT ![p] = "claiming"]
      /\ seen' = [seen EXCEPT ![p] = dist.receipt]
      /\ UNCHANGED <<installLock, dist, backup, refreshed, owner>>
  BY DEF ReadReceipt, Goto, disk
<1>3. dist.receipt \in Receipts
  BY <1>2, SMT DEF InstallerTypeOK, Dists
<1>4. InstallerTypeOK'
  BY <1>1, <1>2, <1>3 DEF InstallerTypeOK, PCs
<1>5. Acts(p) /\ stage'[p] = "claiming" /\ seen'[p] = dist.receipt
  BY <1>1, <1>2 DEF Acts, InstallerTypeOK
<1>6. HolderInv' /\ ThereInv'
  BY <1>2, <1>3, <1>5, HolderStays, ThereStays DEF AtWork, There
<1>7. QED BY <1>2, <1>4, <1>5, <1>6 DEF NeverLost

\* and writes the receipt alone.
LEMMA ClaimReceiptKept ==
  ASSUME KeptInv, NEW p \in Installers, ClaimReceipt(p)
  PROVE  /\ KeptInv' /\ Acts(p) /\ stage'[p] = "idle"
         /\ dist # Nothing => /\ dist' # Nothing /\ dist'.runtime = dist.runtime
                             /\ dist'.receipt.version = seen[p].version
                             /\ dist'.receipt.pending = seen[p].pending
                             /\ dist'.receipt.package = owner'
<1> USE DEF KeptInv
<1>1. stage[p] = "claiming" /\ Leave(p) /\ UNCHANGED <<backup, refreshed>>
      /\ seen[p] \in Receipts /\ job[p].package \in Packages
  BY Asked DEF ClaimReceipt, ThereInv, There, InstallerTypeOK
<1>2. CASE dist = Nothing
  BY <1>1, <1>2, LeavesKept DEF ClaimReceipt, disk
<1>3. CASE dist # Nothing
  <2> DEFINE receipt == [seen[p] EXCEPT !.package = job[p].package]
  <2>1. dist' = [dist EXCEPT !.receipt = receipt] /\ owner' = job[p].package
    BY <1>3 DEF ClaimReceipt
  <2>2. /\ receipt \in Receipts /\ receipt.version = seen[p].version
        /\ receipt.package = job[p].package /\ receipt.pending = seen[p].pending
    BY <1>1, Claimed
  <2>3. refreshed' \in Versions \cup {Nothing} /\ owner' \in Packages \cup {Nothing}
    BY <1>1, <2>1 DEF InstallerTypeOK
  <2> HIDE DEF receipt
  <2>4. QED BY <1>1, <1>3, <2>1, <2>2, <2>3, WritesReceipt
<1>4. QED BY <1>2, <1>3

\* A process that dies leaves the lock, and the files as they are.
LEMMA CrashKept ==
  ASSUME KeptInv, NEW p \in Installers, Crash(p)
  PROVE  KeptInv' /\ Acts(p) /\ stage'[p] = "idle"
<1> USE DEF KeptInv
<1>1. /\ stage' = [stage EXCEPT ![p] = "idle"] /\ job' = [job EXCEPT ![p] = Nothing]
      /\ seen' = [seen EXCEPT ![p] = Nothing]
      /\ UNCHANGED <<installLock, dist, backup, refreshed, owner>>
  BY DEF Crash, Goto, disk
<1>2. InstallerTypeOK'
  BY <1>1 DEF InstallerTypeOK, PCs
<1>3. Acts(p) /\ stage'[p] = "idle"
  BY <1>1 DEF Acts, InstallerTypeOK
<1>4. HolderInv' /\ ThereInv'
  BY <1>1, <1>3, HolderStays, ThereStays DEF AtWork, There
<1>5. QED BY <1>1, <1>2, <1>3, <1>4 DEF NeverLost

\* A lock is stolen from a process that does not work.
LEMMA StealKept ==
  ASSUME KeptInv, NEW p \in Installers, Steal(p)
  PROVE  KeptInv' /\ \A q \in Installers : stage[q] \notin AtWork
<1> USE DEF KeptInv
<1>1. /\ installLock \in Installers /\ stage[installLock] \in {"idle", "waiting"}
      /\ installLock' = Nothing
      /\ UNCHANGED <<dist, backup, stage, job, seen, refreshed, owner>>
  BY DEF Steal, disk, InstallerTypeOK
<1>2. \A q \in Installers : stage[q] \notin AtWork
  BY <1>1 DEF HolderInv, AtWork
<1>3. InstallerTypeOK' /\ HolderInv' /\ ThereInv' /\ NeverLost'
  BY <1>1, <1>2 DEF InstallerTypeOK, HolderInv, ThereInv, There, NeverLost
<1>4. QED BY <1>2, <1>3

\* Once installed, a CLI is there, whatever launchers claim meanwhile.
LEMMA KeptNext == ASSUME KeptInv, [InstallerNext]_installerVars PROVE KeptInv'
<1>1. CASE UNCHANGED installerVars
  BY <1>1 DEF installerVars, disk, KeptInv, InstallerTypeOK, HolderInv, ThereInv, There, NeverLost
<1>2. ASSUME NEW p \in Installers, Abandon(p) \/ SkipRefresh(p) PROVE KeptInv'
  BY <1>2, LeavesKept DEF Abandon, SkipRefresh
<1>3. QED
  BY <1>1, <1>2, RequestKept, Enters, VerifyKept, RetireKept, PromoteKept, PromoteFailsKept,
     DiscardKept, RefreshKept, ReadReceiptKept, ClaimReceiptKept, CrashKept, StealKept
  DEF InstallerNext

-----------------------------------------------------------------------------
(* Where no launcher claims the receipt while it is replaced: ReceiptInv.   *)

\* While one process works on the distribution no launcher claims its receipt.
LEMMA NoneClaims ==
  ASSUME SeenInv, NEW p \in Installers, stage[p] \in AtWork
  PROVE  \A q \in Installers : stage[q] # "claiming"
BY DEF SeenInv, Reads

\* What the others have read stays so when the distribution stays as it is,
LEMMA ReadsStay ==
  ASSUME SeenInv, NEW p \in Installers, Acts(p), Reads(p)', UNCHANGED disk,
         stage'[p] \in AtWork => stage[p] \in AtWork
  PROVE  SeenInv'
<1>1. ASSUME NEW q \in Installers, q # p PROVE Reads(q)'
  BY <1>1 DEF SeenInv, Reads, Acts, Recovered, disk
<1>2. QED BY <1>1 DEF SeenInv

\* and when one process changes it alone.
LEMMA ReadsAlone ==
  ASSUME SeenInv, NEW p \in Installers, Acts(p), Reads(p)',
         \A q \in Installers : q # p => stage[q] \notin AtWork /\ stage[q] # "claiming"
  PROVE  SeenInv'
<1>1. ASSUME NEW q \in Installers, q # p PROVE Reads(q)'
  BY <1>1 DEF Reads, Acts, AtWork
<1>2. QED BY <1>1 DEF SeenInv

\* With the distribution, what is owed of it and who owns it stay.
LEMMA RestStays ==
  ASSUME WholeInv, RefreshIsOwed, OwnerStands, UNCHANGED <<disk, refreshed, owner>>
  PROVE  WholeInv' /\ RefreshIsOwed' /\ OwnerStands'
BY DEF WholeInv, RefreshIsOwed, OwnerStands, Recovered, disk

\* Whatever leaves the distribution as it is.
LEMMA IdleKeeps ==
  ASSUME ReceiptInv, KeptInv', NEW p \in Installers, Acts(p), stage'[p] = "idle",
         UNCHANGED <<disk, refreshed, owner>>
  PROVE  ReceiptInv'
<1> USE DEF ReceiptInv
<1>1. SeenInv'
  BY ReadsStay DEF Reads, AtWork
<1>2. QED BY <1>1, RestStays

\* No receipt, no debt at the start.
LEMMA ReceiptInit == InstallerInit => ReceiptInv
BY KeptInit DEF InstallerInit, ReceiptInv, SeenInv, Reads, WholeInv, RefreshIsOwed, OwnerStands, Recovered

\* A process that asks has read no receipt.
LEMMA RequestKeeps == ASSUME ReceiptInv, NEW p \in Installers, Request(p) PROVE ReceiptInv'
<1> USE DEF ReceiptInv
<1>1. /\ stage' = [stage EXCEPT ![p] = "waiting"] /\ seen' = seen
      /\ UNCHANGED <<disk, refreshed, owner>> /\ \E j \in Jobs : job' = [job EXCEPT ![p] = j]
  BY DEF Request, Goto
<1>2. Acts(p) /\ stage'[p] = "waiting"
  BY <1>1 DEF Acts, KeptInv, InstallerTypeOK
<1>3. SeenInv'
  BY <1>1, <1>2, ReadsStay DEF Reads, AtWork
<1>4. QED BY <1>1, <1>3, RequestKept, RestStays

\* A satisfying distribution has its receipt rewritten, with its version and its debt.
LEMMA EnterKeeps ==
  ASSUME ~Overlap, ReceiptInv, NEW p \in Installers, Enter(p) PROVE ReceiptInv'
<1> USE DEF ReceiptInv
<1>1. /\ KeptInv' /\ Acts(p) /\ backup' = Nothing /\ refreshed' = refreshed
      /\ \A q \in Installers : stage[q] \notin AtWork
  BY Enters
<1>2. \A q \in Installers : stage[q] # "claiming"
  BY DEF Enter
<1>3. Recovered' = dist'
  BY <1>1 DEF Recovered
<1>4. Recovered # Nothing => /\ Recovered \in Dists /\ Recovered.receipt \in Receipts
                             /\ Recovered.runtime = Recovered.receipt.version
                             /\ Recovered.receipt.pending \/ refreshed = Recovered.runtime
                             /\ Recovered.receipt.package = owner
  <2>1. Recovered \in {dist, backup}
    BY DEF Recovered
  <2>2. QED BY <2>1, Recovery DEF KeptInv, WholeInv, RefreshIsOwed, OwnerStands
<1>5. CASE /\ stage'[p] = "refreshing" /\ Recovered # Nothing
           /\ dist' = [Recovered EXCEPT !.receipt = seen'[p]]
           /\ seen'[p] = [Recovered.receipt EXCEPT !.package = PackageFor(p, Recovered.receipt)]
           /\ owner' = IF NamesOwner(p, Recovered.receipt) THEN job[p].package ELSE owner
           /\ seen'[p] \in Receipts /\ PackageFor(p, Recovered.receipt) \in Packages
  <2>1. /\ seen'[p].version = Recovered.receipt.version
        /\ seen'[p].package = PackageFor(p, Recovered.receipt)
        /\ seen'[p].pending = Recovered.receipt.pending
    BY <1>4, <1>5, Claimed
  <2>2. dist' # Nothing /\ dist'.runtime = Recovered.runtime /\ dist'.receipt = seen'[p]
    BY <1>4, <1>5, Distribution
  <2>3. SeenInv'
    BY <1>1, <1>2, <1>5, <2>2, ReadsAlone DEF Reads
  <2>4. WholeInv'
    BY <1>1, <1>4, <1>5, <2>1, <2>2 DEF WholeInv
  <2>5. RefreshIsOwed'
    BY <1>1, <1>3, <1>4, <1>5, <2>1, <2>2 DEF RefreshIsOwed
  <2>6. OwnerStands'
    BY <1>3, <1>4, <1>5, <2>1, <2>2 DEF OwnerStands, PackageFor
  <2>7. QED BY <1>1, <2>3, <2>4, <2>5, <2>6
<1>6. CASE /\ stage'[p] = "staging" /\ dist' = Recovered /\ owner' = owner
           /\ seen'[p] = IF Recovered = Nothing THEN Nothing ELSE Recovered.receipt
  <2>1. SeenInv'
    BY <1>1, <1>2, <1>3, <1>6, ReadsAlone DEF Reads
  <2>2. WholeInv' /\ RefreshIsOwed' /\ OwnerStands'
    BY <1>1, <1>3, <1>4, <1>6 DEF WholeInv, RefreshIsOwed, OwnerStands
  <2>3. QED BY <1>1, <2>1, <2>2
<1>7. QED BY <1>5, <1>6, Enters

\* A verification leaves what has been read as it was.
LEMMA VerifyKeeps == ASSUME ReceiptInv, NEW p \in Installers, Verify(p) PROVE ReceiptInv'
<1> USE DEF ReceiptInv
<1>1. /\ KeptInv' /\ Acts(p) /\ stage'[p] = "verified" /\ stage[p] = "staging" /\ seen' = seen
      /\ UNCHANGED <<disk, refreshed, owner>>
  BY VerifyKept DEF Verify
<1>2. SeenInv'
  <2>1. Reads(p)'
    BY <1>1 DEF SeenInv, Reads, Recovered, disk
  <2>2. QED BY <1>1, <2>1, ReadsStay DEF AtWork
<1>3. QED BY <1>1, <1>2, RestStays

\* The receipt moves with the distribution.
LEMMA RetireKeeps == ASSUME ReceiptInv, NEW p \in Installers, Retire(p) PROVE ReceiptInv'
<1> USE DEF ReceiptInv
<1>1. /\ KeptInv' /\ Acts(p) /\ stage'[p] = "retired" /\ stage[p] = "verified" /\ seen' = seen
      /\ dist' = Nothing /\ UNCHANGED <<refreshed, owner>>
      /\ stage[p] \in AtWork /\ (seen[p] # Nothing <=> dist # Nothing)
  BY RetireKept DEF Retire, KeptInv, ThereInv, There, AtWork
<1>2. Recovered' = Recovered /\ (backup' = dist \/ backup' = backup)
  BY <1>1, RetireKept DEF Recovered, Retire, disk
<1>3. SeenInv'
  <2>1. Reads(p)'
    BY <1>1, <1>2 DEF SeenInv, Reads
  <2>2. QED BY <1>1, <2>1, Sole, NoneClaims, ReadsAlone DEF KeptInv
<1>4. WholeInv' /\ RefreshIsOwed' /\ OwnerStands'
  BY <1>1, <1>2 DEF WholeInv, RefreshIsOwed, OwnerStands
<1>5. QED BY <1>1, <1>3, <1>4

\* What takes its place owes the refresh, unless Router's clients were configured by
\* the release it is.
LEMMA PromoteKeeps == ASSUME ReceiptInv, NEW p \in Installers, Promote(p) PROVE ReceiptInv'
<1> USE DEF ReceiptInv
<1>1. /\ KeptInv' /\ Acts(p) /\ stage'[p] = "promoted" /\ stage[p] \in AtWork /\ dist' # Nothing
  BY PromoteKept
<1>2. /\ stage[p] = "retired" /\ backup' = backup
      /\ owner' = IF NamesOwner(p, seen[p]) THEN job[p].package ELSE owner
      /\ refreshed' = IF seen[p] = Nothing THEN job[p].want ELSE refreshed
      /\ dist'.runtime = job[p].want /\ dist'.receipt.version = job[p].want
      /\ dist'.receipt.package = PackageFor(p, seen[p]) /\ dist'.receipt.pending = Owed(p)
  BY Zenon DEF Promote
<1>3. Recovered' = dist' /\ Recovered = backup
  BY <1>1, <1>2 DEF Recovered, KeptInv, ThereInv, There
<1>4. seen[p] # Nothing =>
        /\ backup # Nothing /\ seen[p] = backup.receipt
        /\ backup.runtime = backup.receipt.version
        /\ backup.receipt.pending \/ refreshed = backup.runtime
        /\ backup.receipt.package = owner
  BY <1>2, <1>3 DEF KeptInv, ThereInv, There, SeenInv, Reads, WholeInv, RefreshIsOwed, OwnerStands
<1>5. SeenInv'
  BY <1>1, Sole, NoneClaims, ReadsAlone DEF Reads, KeptInv
<1>6. WholeInv'
  BY <1>2 DEF WholeInv
<1>7. RefreshIsOwed'
  <2>1. CASE seen[p] = Nothing
    BY <1>2, <1>3, <2>1 DEF RefreshIsOwed
  <2>2. CASE seen[p] # Nothing /\ Owed(p)
    BY <1>2, <1>3, <2>2 DEF RefreshIsOwed
  <2>3. CASE seen[p] # Nothing /\ ~Owed(p)
    BY <1>2, <1>3, <1>4, <2>3 DEF RefreshIsOwed, Owed
  <2>4. QED BY <2>1, <2>2, <2>3
<1>8. OwnerStands'
  BY <1>2, <1>3, <1>4 DEF OwnerStands, PackageFor, NamesOwner
<1>9. QED BY <1>1, <1>5, <1>6, <1>7, <1>8

\* It comes back with the backup.
LEMMA PromoteFailsKeeps ==
  ASSUME ReceiptInv, NEW p \in Installers, PromoteFails(p) PROVE ReceiptInv'
<1> USE DEF ReceiptInv
<1>1. /\ KeptInv' /\ Acts(p) /\ stage'[p] = "idle" /\ stage[p] \in AtWork
      /\ UNCHANGED <<refreshed, owner>> /\ dist = Nothing
  BY PromoteFailsKept DEF PromoteFails, KeptInv, ThereInv, There
<1>2. Recovered' = Recovered /\ dist' \in {dist, backup} /\ backup' \in {backup, Nothing}
  BY <1>1 DEF PromoteFails, Recovered, disk
<1>3. SeenInv'
  BY <1>1, Sole, NoneClaims, ReadsAlone DEF Reads, KeptInv
<1>4. WholeInv' /\ RefreshIsOwed' /\ OwnerStands'
  BY <1>1, <1>2 DEF WholeInv, RefreshIsOwed, OwnerStands
<1>5. QED BY <1>1, <1>3, <1>4

\* The old receipt goes with the backup.
LEMMA DiscardKeeps == ASSUME ReceiptInv, NEW p \in Installers, Discard(p) PROVE ReceiptInv'
<1> USE DEF ReceiptInv
<1>1. /\ KeptInv' /\ Acts(p) /\ stage'[p] = "refreshing" /\ stage[p] \in AtWork
      /\ seen'[p] = dist.receipt /\ dist # Nothing
      /\ UNCHANGED <<dist, refreshed, owner>> /\ backup' = Nothing
  BY DiscardKept DEF Discard, KeptInv, ThereInv, There
<1>2. Recovered' = Recovered
  BY <1>1 DEF Recovered
<1>3. SeenInv'
  BY <1>1, Sole, NoneClaims, ReadsAlone DEF Reads, KeptInv
<1>4. WholeInv' /\ RefreshIsOwed' /\ OwnerStands'
  BY <1>1, <1>2 DEF WholeInv, RefreshIsOwed, OwnerStands
<1>5. QED BY <1>1, <1>3, <1>4

\* A refresh that is done pays the debt it has read.
LEMMA RefreshKeeps == ASSUME ReceiptInv, NEW p \in Installers, Refresh(p) PROVE ReceiptInv'
<1> USE DEF ReceiptInv
<1>1. /\ KeptInv' /\ Acts(p) /\ stage'[p] = "idle" /\ stage[p] \in AtWork
      /\ dist' # Nothing /\ dist'.runtime = dist.runtime
      /\ dist'.receipt.version = seen[p].version /\ dist'.receipt.package = seen[p].package
      /\ dist # Nothing /\ seen[p] = dist.receipt
  BY RefreshKept DEF Refresh, KeptInv, ThereInv, There, SeenInv, Reads
<1>2. refreshed' = dist.runtime /\ UNCHANGED <<backup, owner>>
  BY DEF Refresh
<1>3. Recovered' = dist' /\ Recovered = dist
  BY <1>1 DEF Recovered
<1>4. SeenInv'
  BY <1>1, Sole, NoneClaims, ReadsAlone DEF Reads, KeptInv
<1>5. WholeInv' /\ RefreshIsOwed' /\ OwnerStands'
  BY <1>1, <1>2, <1>3 DEF WholeInv, RefreshIsOwed, OwnerStands
<1>6. QED BY <1>1, <1>4, <1>5

\* A claim reads what is there,
LEMMA ReadReceiptKeeps ==
  ASSUME ~Overlap, ReceiptInv, NEW p \in Installers, ReadReceipt(p) PROVE ReceiptInv'
<1> USE DEF ReceiptInv
<1>1. /\ KeptInv' /\ Acts(p) /\ stage'[p] = "claiming" /\ seen'[p] = dist.receipt
      /\ installLock = Nothing /\ dist # Nothing /\ UNCHANGED <<disk, refreshed, owner>>
  BY ReadReceiptKept DEF ReadReceipt
<1>2. \A q \in Installers : stage'[q] \notin AtWork
  BY <1>1, Sole DEF Acts, AtWork, KeptInv
<1>3. Reads(p)'
  BY <1>1, <1>2 DEF Reads, disk
<1>4. SeenInv'
  BY <1>1, <1>3, ReadsStay DEF AtWork
<1>5. QED BY <1>1, <1>4, RestStays

\* Launchers that claim beside each other write the same version and debt.
LEMMA ClaimReceiptKeeps ==
  ASSUME ReceiptInv, NEW p \in Installers, ClaimReceipt(p) PROVE ReceiptInv'
<1> USE DEF ReceiptInv
<1>1. /\ stage[p] = "claiming" /\ UNCHANGED <<backup, refreshed>> /\ dist # Nothing
      /\ seen[p].version = dist.receipt.version /\ seen[p].pending = dist.receipt.pending
      /\ \A q \in Installers : stage[q] \notin AtWork
  BY DEF ClaimReceipt, SeenInv, Reads
<1>2. /\ KeptInv' /\ Acts(p) /\ stage'[p] = "idle"
      /\ dist' # Nothing /\ dist'.runtime = dist.runtime
      /\ dist'.receipt.version = dist.receipt.version
      /\ dist'.receipt.pending = dist.receipt.pending
      /\ dist'.receipt.package = owner'
  BY <1>1, ClaimReceiptKept
<1>3. Recovered' = dist' /\ Recovered = dist
  BY <1>1, <1>2 DEF Recovered
<1>4. SeenInv'
  <2>1. ASSUME NEW q \in Installers PROVE Reads(q)'
    BY <1>1, <1>2 DEF SeenInv, Reads, Acts, AtWork
  <2>2. QED BY <2>1 DEF SeenInv
<1>5. WholeInv' /\ RefreshIsOwed' /\ OwnerStands'
  BY <1>1, <1>2, <1>3 DEF WholeInv, RefreshIsOwed, OwnerStands
<1>6. QED BY <1>2, <1>4, <1>5

\* A stolen lock changes no receipt.
LEMMA StealKeeps == ASSUME ReceiptInv, NEW p \in Installers, Steal(p) PROVE ReceiptInv'
<1> USE DEF ReceiptInv
<1>1. KeptInv' /\ UNCHANGED <<dist, backup, stage, job, seen, refreshed, owner>>
  BY StealKept DEF Steal, disk
<1>2. SeenInv'
  BY <1>1 DEF SeenInv, Reads, Recovered
<1>3. QED BY <1>1, <1>2, RestStays DEF disk

\* Every step keeps the receipt's invariant, without overlap.
LEMMA ReceiptNext ==
  ASSUME ~Overlap, ReceiptInv, [InstallerNext]_installerVars PROVE ReceiptInv'
<1> USE DEF ReceiptInv
<1>1. CASE UNCHANGED installerVars
  <2>1. KeptInv' /\ SeenInv'
    BY <1>1, KeptNext DEF installerVars, disk, SeenInv, Reads, Recovered
  <2>2. QED BY <1>1, <2>1, RestStays DEF installerVars
<1>2. ASSUME NEW p \in Installers, Abandon(p) \/ SkipRefresh(p) \/ Crash(p) PROVE ReceiptInv'
  <2>1. UNCHANGED <<disk, refreshed, owner>> /\ KeptInv' /\ Acts(p) /\ stage'[p] = "idle"
    BY <1>2, LeavesKept, CrashKept DEF Abandon, SkipRefresh, Crash
  <2>2. QED BY <2>1, IdleKeeps
<1>3. QED
  BY <1>1, <1>2, RequestKeeps, EnterKeeps, VerifyKeeps, RetireKeeps, PromoteKeeps,
     PromoteFailsKeeps, DiscardKeeps, RefreshKeeps, ReadReceiptKeeps, ClaimReceiptKeeps, StealKeeps
  DEF InstallerNext

-----------------------------------------------------------------------------

\* Who holds the lock, and what is there, fit together in every state, also when
\* launchers claim the receipt without the lock (installer.js).
THEOREM InstallationKept == InstallerSpec => []KeptInv
<1>1. KeptInv /\ [InstallerNext]_installerVars => KeptInv'
  BY KeptNext
<1>2. QED BY KeptInit, <1>1, PTL DEF InstallerSpec

\* An installed CLI is never lost, whichever processes die or fail between any two
\* steps and whoever steals their lock (install, promote).
THEOREM NeverWithoutCLI == InstallerSpec => []NeverLost
<1>1. KeptInv => NeverLost
  BY DEF KeptInv
<1>2. QED BY InstallationKept, <1>1, PTL

\* Where no launcher claims the receipt while it is replaced, what each process has
\* read is what is there.
THEOREM ReceiptInductive == ASSUME ~Overlap PROVE InstallerSpec => []ReceiptInv
<1>1. ReceiptInv /\ [InstallerNext]_installerVars => ReceiptInv'
  BY ReceiptNext
<1>2. QED BY ReceiptInit, <1>1, PTL DEF InstallerSpec

\* ... so that the clients' refresh is made or owed, across updates, downgrades,
\* failures and crashes (refreshRouter, the receipt of install),
THEOREM RefreshStaysOwed == ASSUME ~Overlap PROVE InstallerSpec => []RefreshIsOwed
<1>1. ReceiptInv => RefreshIsOwed
  BY DEF ReceiptInv
<1>2. QED BY ReceiptInductive, <1>1, PTL

\* ... and the receipt names the package that last claimed it (syncReceipt).
THEOREM OwnerKept == ASSUME ~Overlap PROVE InstallerSpec => []OwnerStands
<1>1. ReceiptInv => OwnerStands
  BY DEF ReceiptInv
<1>2. QED BY ReceiptInductive, <1>1, PTL

-----------------------------------------------------------------------------
(* The listener: stages and locks.                                          *)

\* Where the commands may be.
LEMMA Stages ==
  /\ StageOf("none") = {"idle"}
  /\ StageOf("setup") = {"clients", "write"} /\ StageOf("refresh") = {"clients", "write"}
  /\ StageOf("unconfigure") = {"remove", "tail"}
  /\ StageOf("move") = {"clients", "write", "drained", "save"}
  /\ StageOf("enable") = {"clients", "write", "ensure", "rollback", "update", "note", "noted"}
  /\ StageOf("disable") = {"clients", "write", "scan", "unlisten"}
BY DEF StageOf

\* A stage tells which command it is of.
LEMMA Stage ==
  ASSUME TypeOK, WriteInv, NEW p \in Procs
  PROVE  /\ op[p] = "none" <=> pc[p] = "idle"
         /\ pc[p] = "clients" => op[p] \in {"setup", "refresh", "move", "enable", "disable"}
         /\ pc[p] = "write" => op[p] \in {"setup", "refresh", "move", "enable", "disable"}
         /\ pc[p] \in {"remove", "tail"} => op[p] = "unconfigure"
         /\ pc[p] \in {"drained", "save"} => op[p] = "move"
         /\ pc[p] \in {"ensure", "rollback", "update", "note", "noted"} => op[p] = "enable"
         /\ pc[p] \in {"scan", "unlisten"} => op[p] = "disable"
BY Stages, SMT DEF TypeOK, WriteInv, Ops, PC

\* The listener that a setup needs goes on when the agent is updated.
LEMMA ListenerStays ==
  ASSUME NEW port, InUse(port), settings' = settings,
         UpdateService \/ listener' = listener
  PROVE  port = listener'
BY DEF InUse, UpdateService

\* A port that is chosen is listened on: AttributionUrl answers with it only then.
LEMMA ChosenInUse ==
  ASSUME TypeOK, NEW e, AttributionUrl(e), settings' = settings
  PROVE  /\ e \in Ports => e = listener' /\ e = ListenerPort(settings)
         /\ UpdateService \/ listener' = listener
         /\ e \in Endpoint /\ listener' \in Ports \cup {None}
BY SMT DEF AttributionUrl, EnsureRunning, InUse, UpdateService, ListenerPort, TypeOK, Settings, Endpoint

\* UseInv holds on after a step that at most chooses a setup whose port is in use.
LEMMA UseStays ==
  ASSUME UseInv, settings' = settings, endpoint' = endpoint,
         UpdateService \/ listener' = listener,
         \A p \in Procs : pc'[p] = "write" =>
           \/ pc[p] = "write" /\ choice'[p] = choice[p]
           \/ choice'[p].endpoint \in Ports =>
                choice'[p].endpoint = listener' /\ choice'[p].endpoint = ListenerPort(settings)
  PROVE  UseInv'
BY DEF UseInv, InUse, UpdateService, ListenerPort

\* One command steps, the others rest where they are.
OthersRest(p) ==
  \A q \in Procs : q # p =>
    /\ pc'[q] = pc[q] /\ op'[q] = op[q] /\ todo'[q] = todo[q]
    /\ choice'[q] = choice[q] /\ saved'[q] = saved[q]

\* A command that changes settings or setups for good runs alone.
LEMMA Alone ==
  ASSUME TypeOK, BesideInv, WriteInv, NEW p \in Procs, op[p] \in {"enable", "move", "unconfigure"}
  PROVE  \A q \in Procs : q # p => op[q] = "none" /\ pc[q] = "idle"
BY Stage DEF BesideInv

\* What the others rest on stays when one command steps: while it runs, none of them
\* saves, ensures or moves.
LEMMA OthersSettle ==
  ASSUME IInv, NEW p \in Procs, op[p] # "none", OthersRest(p),
         \/ settings'.port = settings.port
         \/ op[p] \in {"move", "enable"}
  PROVE  \A q \in Procs : q # p => Settles(q)'
<1> USE DEF IInv
<1>1. ASSUME NEW q \in Procs, q # p
      PROVE  Settles(q)'
  <2>1. op[q] \notin {"move", "enable"} /\ op'[q] = op[q] /\ pc'[q] = pc[q] /\ saved'[q] = saved[q]
    BY <1>1 DEF BesideInv, OthersRest
  <2>2. pc[q] \notin {"save", "ensure", "rollback", "noted"}
    BY <2>1, Stage
  <2>3. op[q] = "disable" => settings'.port = settings.port
    BY <1>1 DEF BesideInv
  <2>4. op[q] = "disable" => ~saved[q].enabled /\ saved[q].port = settings.port
    BY DEF SettleInv, Settles
  <2>5. QED BY <2>1, <2>2, <2>3, <2>4, Zenon DEF Settles
<1>2. QED BY <1>1

\* What a command holds and where it is, when another one steps.
LEMMA WriteStays ==
  ASSUME WriteInv, NEW p \in Procs, OthersRest(p),
         \A c \in Clients, q \in Procs : q # p /\ lock[c] = q => lock'[c] = q,
         pc'[p] \in StageOf(op'[p]), 
         pc'[p] = "write" =>
           /\ choice'[p] \in Choice /\ choice'[p].client \in todo'[p]
           /\ choice'[p].client \notin Unlocked => lock'[choice'[p].client] = p
  PROVE  WriteInv'
BY SMT DEF WriteInv, OthersRest, Choice

\* ... and who runs beside it.
LEMMA BesideStays ==
  ASSUME TypeOK, BesideInv, NEW p \in Procs, op[p] # "none", OthersRest(p),
         \/ op'[p] = op[p] /\ (todo'[p] \subseteq todo[p] \/ op[p] # "setup")
         \/ op'[p] = "none"
         \/ op[p] = "move" /\ op'[p] = "enable"
  PROVE  BesideInv'
BY SMT DEF BesideInv, OthersRest, TypeOK, Ops

\* A command that ends leaves nothing behind.
LEMMA Ends ==
  ASSUME TypeOK, NEW p \in Procs, End(p), settings' \in Settings
  PROVE  /\ pc' \in [Procs -> PC] /\ op' \in [Procs -> Ops \cup {"none"}]
         /\ todo' \in [Procs -> SUBSET Clients] /\ choice' \in [Procs -> Choice \cup {None}]
         /\ saved' \in [Procs -> Settings] /\ target' \in [Procs -> Ports]
         /\ failed' \in [Procs -> BOOLEAN] /\ lock' \in [Clients -> Procs \cup {None}]
         /\ pc'[p] = "idle" /\ op'[p] = "none" /\ OthersRest(p)
         /\ \A c \in Clients, q \in Procs : q # p /\ lock[c] = q => lock'[c] = q
<1>1. settings.port \in Ports
  BY SMT DEF TypeOK, Settings
<1>2. Off(settings.port) \in Settings
  BY <1>1, SMT DEF Off, Settings
<1>3. /\ pc' = [pc EXCEPT ![p] = "idle"] /\ op' = [op EXCEPT ![p] = "none"]
      /\ todo' = [todo EXCEPT ![p] = {}] /\ choice' = [choice EXCEPT ![p] = None]
      /\ saved' = [saved EXCEPT ![p] = Off(settings.port)]
      /\ target' = [target EXCEPT ![p] = settings.port]
      /\ failed' = [failed EXCEPT ![p] = FALSE]
      /\ lock' = [c \in Clients |-> IF lock[c] = p THEN None ELSE lock[c]]
  BY DEF End, GoTo
<1> HIDE DEF Off
<1>4. OthersRest(p) /\ pc'[p] = "idle" /\ op'[p] = "none"
  BY <1>3 DEF OthersRest, TypeOK
<1>5. /\ pc' \in [Procs -> PC] /\ op' \in [Procs -> Ops \cup {"none"}]
      /\ todo' \in [Procs -> SUBSET Clients] /\ choice' \in [Procs -> Choice \cup {None}]
      /\ saved' \in [Procs -> Settings] /\ target' \in [Procs -> Ports]
      /\ failed' \in [Procs -> BOOLEAN] /\ lock' \in [Clients -> Procs \cup {None}]
  BY <1>1, <1>2, <1>3 DEF TypeOK, PC
<1>6. QED BY <1>3, <1>4, <1>5

\* What a command that ends leaves of the invariant, when the settings name the same
\* listener for the setups there are.
LEMMA EndKeeps ==
  ASSUME IInv, NEW p \in Procs, op[p] # "none", End(p), UNCHANGED endpoint,
         settings' \in Settings, listener' \in Ports \cup {None},
         \/ settings'.port = settings.port
         \/ op[p] \in {"move", "enable"},
         UseInv'
  PROVE  IInv'
<1> USE DEF IInv
<1>1. TypeOK'
  BY Ends DEF TypeOK
<1>2. SettleInv'
  BY Ends, OthersSettle DEF SettleInv, Settles
<1>3. BesideInv'
  BY Ends, BesideStays
<1>4. WriteInv'
  BY Ends, WriteStays, Stages
<1>5. QED BY <1>1, <1>2, <1>3, <1>4

-----------------------------------------------------------------------------
(* Setting up, refreshing and removing clients.                            *)

\* Who may run beside a command that begins.
LEMMA MayBeside ==
  ASSUME IInv, NEW p \in Procs, NEW o \in Ops, NEW clients, MayBegin(p, o, clients)
  PROVE  /\ pc[p] = "idle" /\ op[p] = "none"
         /\ \A q \in Procs : q # p /\ op[q] # "none" =>
              /\ o = "refresh" => op[q] \in {"setup", "refresh"}
              /\ o = "setup" => op[q] \in {"setup", "refresh"}
                                  \/ (op[q] = "disable" /\ clients \subseteq Overlapping)
              /\ o = "disable" => op[q] = "setup" /\ todo[q] \subseteq Overlapping
              /\ o \notin {"refresh", "setup", "disable"} => FALSE
<1>1. pc[p] = "idle" /\ op[p] = "none"
  BY Stage DEF MayBegin, IInv
<1>2. ASSUME NEW q \in Procs, q # p, op[q] # "none"
      PROVE  /\ o = "refresh" => op[q] \in {"setup", "refresh"}
             /\ o = "setup" => op[q] \in {"setup", "refresh"}
                                 \/ (op[q] = "disable" /\ clients \subseteq Overlapping)
             /\ o = "disable" => op[q] = "setup" /\ todo[q] \subseteq Overlapping
             /\ o \notin {"refresh", "setup", "disable"} => FALSE
  <2>1. q \in Busy(p)
    BY <1>2, Stage DEF Busy, IInv
  <2>2. CASE o = "refresh"
    BY <2>1, <2>2 DEF MayBegin
  <2>3. CASE o = "setup"
    BY <2>1, <2>3 DEF MayBegin
  <2>4. CASE o = "disable"
    BY <2>1, <2>4 DEF MayBegin
  <2>5. CASE o \notin {"refresh", "setup", "disable"}
    BY <2>1, <2>5 DEF MayBegin
  <2>6. QED BY <2>2, <2>3, <2>4, <2>5
<1>3. QED BY <1>1, <1>2

\* A command begins with clients to set up, refresh or remove: nothing else changes.
LEMMA BeginKeeps ==
  ASSUME IInv, NEW p \in Procs,
         NEW o \in {"setup", "refresh", "unconfigure"}, NEW clients \in SUBSET Clients,
         MayBegin(p, o, clients), op' = [op EXCEPT ![p] = o],
         \E where \in {"clients", "remove"} : GoTo(p, where) /\ where \in StageOf(o),
         \E set \in SUBSET Clients : todo' = [todo EXCEPT ![p] = set] /\ (o = "setup" => set = clients),
         failed' \in [Procs -> BOOLEAN],
         UNCHANGED <<settings, listener, endpoint, lock, choice, saved, target>>
  PROVE  IInv'
<1> USE DEF IInv
<1> o \in Ops
  BY DEF Ops
<1>1. PICK where \in {"clients", "remove"} : pc' = [pc EXCEPT ![p] = where] /\ where \in StageOf(o)
  BY DEF GoTo
<1>2. PICK set \in SUBSET Clients : todo' = [todo EXCEPT ![p] = set] /\ (o = "setup" => set = clients)
  OBVIOUS
<1>3. /\ pc'[p] = where /\ op'[p] = o /\ todo'[p] = set /\ OthersRest(p)
      /\ choice' = choice /\ saved' = saved
  BY <1>1, <1>2 DEF OthersRest, TypeOK
<1>4. TypeOK'
  BY <1>1, <1>2, SMT DEF TypeOK, PC, Ops
<1>5. UseInv'
  BY <1>3, UseStays DEF OthersRest
<1>6. SettleInv'
  <2>1. Settles(p)'
    BY <1>3 DEF Settles
  <2>2. ASSUME NEW q \in Procs, q # p PROVE Settles(q)'
    BY <1>3, <2>2 DEF SettleInv, Settles, OthersRest, UsingHelper
  <2>3. QED BY <2>1, <2>2 DEF SettleInv
<1>7. BesideInv'
  <2>1. \A q \in Procs : q # p => op'[q] = op[q] /\ todo'[q] = todo[q]
    BY <1>3 DEF OthersRest
  <2>2. \A q \in Procs : q # p /\ op[q] # "none" =>
          op[q] \in {"setup", "refresh"} \/ (op[q] = "disable" /\ o = "setup" /\ clients \subseteq Overlapping)
    BY MayBeside
  <2>3. ASSUME NEW a \in Procs, NEW b \in Procs, a # b
        PROVE  /\ op'[a] \in {"enable", "move", "unconfigure"} => op'[b] = "none"
               /\ op'[a] = "disable" =>
                    op'[b] = "none" \/ (op'[b] = "setup" /\ todo'[b] \subseteq Overlapping)
    <3>1. CASE a = p
      BY <1>3, <2>1, <2>3, <3>1, MayBeside
    <3>2. CASE b = p
      BY <1>2, <1>3, <2>1, <2>2, <2>3, <3>2
    <3>3. CASE a # p /\ b # p
      BY <2>1, <2>3, <3>3 DEF BesideInv
    <3>4. QED BY <3>1, <3>2, <3>3
  <2>4. QED BY <2>3, Zenon DEF BesideInv
<1>8. WriteInv'
  BY <1>1, <1>3, WriteStays
<1>9. QED BY <1>4, <1>5, <1>6, <1>7, <1>8

\* A setup begins beside setups, refreshes, and a disable of its client.
LEMMA BeginSetupKeeps ==
  ASSUME IInv, NEW p \in Procs, NEW c \in Clients, BeginSetup(p, c) PROVE IInv'
<1>1. {c} \in SUBSET Clients /\ "clients" \in StageOf("setup")
  BY Stages
<1>2. QED BY <1>1, BeginKeeps DEF BeginSetup, IInv, TypeOK

\* A refresh begins beside setups and refreshes.
LEMMA BeginRefreshKeeps ==
  ASSUME IInv, NEW p \in Procs, BeginRefresh(p) PROVE IInv'
<1>1. Configured \cup ({Desktop} \ {None}) \in SUBSET Clients /\ "clients" \in StageOf("refresh")
  BY Stages DEF Configured, Clients
<1>2. failed' \in [Procs -> BOOLEAN]
  BY DEF BeginRefresh, RefreshClients, IInv, TypeOK
<1>3. /\ MayBegin(p, "refresh", {}) /\ op' = [op EXCEPT ![p] = "refresh"] /\ GoTo(p, "clients")
      /\ todo' = [todo EXCEPT ![p] = Configured \cup ({Desktop} \ {None})]
      /\ UNCHANGED <<settings, listener, endpoint, lock, choice, saved, target>>
  BY DEF BeginRefresh, RefreshClients
<1>4. \E where \in {"clients", "remove"} : GoTo(p, where) /\ where \in StageOf("refresh")
  BY ONLY <1>1, <1>3
<1>5. \E set \in SUBSET Clients :
        todo' = [todo EXCEPT ![p] = set] /\ ("refresh" = "setup" => set = {})
  <2>1. "refresh" # "setup"
    OBVIOUS
  <2>2. QED BY ONLY <1>1, <1>3, <2>1, Zenon
<1>6. {} \in SUBSET Clients
  OBVIOUS
<1>7. QED BY <1>2, <1>3, <1>4, <1>5, <1>6, BeginKeeps, Zenon

\* A removal begins alone.
LEMMA BeginUnconfigureKeeps ==
  ASSUME IInv, NEW p \in Procs, NEW clients \in SUBSET Clients, BeginUnconfigure(p, clients)
  PROVE  IInv'
<1>1. "remove" \in StageOf("unconfigure")
  BY Stages
<1>2. QED BY <1>1, BeginKeeps DEF BeginUnconfigure, IInv, TypeOK

\* The port a setup chooses is the one the settings ask for.
LEMMA ChooseKeeps ==
  ASSUME IInv, NEW p \in Procs, NEW c \in Clients, Choose(p, c) PROVE IInv'
<1> USE DEF IInv
<1>1. PICK e \in Endpoint :
        AttributionUrl(e) /\ choice' = [choice EXCEPT ![p] = [client |-> c, endpoint |-> e]]
  BY DEF Choose
<1>2. pc[p] = "clients" /\ pc' = [pc EXCEPT ![p] = "write"] /\ c \in todo[p]
      /\ UNCHANGED <<settings, endpoint, op, todo, saved, target, failed>>
  BY DEF Choose, GoTo
<1>3. [client |-> c, endpoint |-> e] \in Choice
  BY SMT DEF Choice
<1>4. /\ choice'[p] = [client |-> c, endpoint |-> e] /\ pc'[p] = "write" /\ OthersRest(p)
      /\ choice'[p].client = c /\ choice'[p].endpoint = e
  BY <1>1, <1>2 DEF OthersRest, TypeOK
<1>5. \/ c \in Unlocked /\ lock' = lock
      \/ lock[c] = None /\ lock' = [lock EXCEPT ![c] = p]
  BY DEF Choose
<1>6. /\ lock' \in [Clients -> Procs \cup {None}] /\ (c \notin Unlocked => lock'[c] = p)
      /\ \A b \in Clients, q \in Procs : q # p /\ lock[b] = q => lock'[b] = q
  BY <1>5 DEF TypeOK
<1>7. op[p] \in {"setup", "refresh", "move", "enable", "disable"}
  BY <1>2, Stage
<1>8. TypeOK'
  BY <1>1, <1>2, <1>3, <1>6, ChosenInUse DEF TypeOK, PC
<1>9. UseInv'
  BY <1>1, <1>2, <1>4, ChosenInUse, UseStays DEF OthersRest
<1>10. SettleInv'
  <2>1. Settles(p)'
    BY <1>2, <1>4 DEF SettleInv, Settles
  <2>2. QED BY <1>2, <1>4, <1>7, <2>1, OthersSettle DEF SettleInv
<1>11. BesideInv'
  BY <1>2, <1>4, <1>7, BesideStays
<1>12. WriteInv'
  <2>1. "write" \in StageOf(op[p])
    BY <1>7, Stages
  <2>2. QED BY <1>2, <1>3, <1>4, <1>6, <2>1, WriteStays
<1>13. QED BY <1>8, <1>9, <1>10, <1>11, <1>12

\* The setup that is written names the port it was chosen with, which is still in use.
LEMMA WriteSetupKeeps ==
  ASSUME IInv, NEW p \in Procs, WriteSetup(p) PROVE IInv'
<1> USE DEF IInv
<1> DEFINE c == choice[p].client
           e == choice[p].endpoint
<1>1. /\ pc[p] = "write" /\ pc' = [pc EXCEPT ![p] = "clients"]
      /\ endpoint' = [endpoint EXCEPT ![c] = e]
      /\ lock' = [lock EXCEPT ![c] = IF @ = p THEN None ELSE @]
      /\ todo' = [todo EXCEPT ![p] = @ \ {c}]
      /\ choice' = [choice EXCEPT ![p] = None]
      /\ UNCHANGED <<settings, listener, op, saved, target, failed>>
  BY DEF WriteSetup, GoTo
<1>2. c \in Clients /\ e \in Endpoint /\ (e \in Ports => InUse(e))
  BY <1>1, SMT DEF WriteInv, UseInv, Choice
<1> HIDE DEF c, e
<1>3. /\ OthersRest(p) /\ pc'[p] = "clients" /\ op'[p] = op[p] /\ todo'[p] = todo[p] \ {c}
      /\ \A b \in Clients, q \in Procs : q # p /\ lock[b] = q => lock'[b] = q
  BY <1>1, <1>2 DEF OthersRest, TypeOK
<1>4. op[p] \in {"setup", "refresh", "move", "enable", "disable"}
  BY <1>1, Stage
<1>5. TypeOK'
  BY <1>1, <1>2 DEF TypeOK, PC
<1>6. UseInv'
  <2>1. \A b \in Clients : endpoint'[b] \in Ports => InUse(endpoint'[b])
    BY <1>1, <1>2 DEF UseInv, TypeOK
  <2>2. QED BY <1>1, <1>3, <2>1 DEF UseInv, InUse, ListenerPort, OthersRest
<1>7. SettleInv'
  <2>1. Settles(p)'
    BY <1>1, <1>3 DEF SettleInv, Settles
  <2>2. QED BY <1>1, <1>3, <1>4, <2>1, OthersSettle DEF SettleInv
<1>8. BesideInv'
  BY <1>3, <1>4, BesideStays
<1>9. WriteInv'
  <2>1. "clients" \in StageOf(op[p])
    BY <1>4, Stages
  <2>2. QED BY <1>3, <2>1, WriteStays
<1>10. QED BY <1>5, <1>6, <1>7, <1>8, <1>9

\* A setup that is skipped or fails names what it did.
LEMMA SkipSetupKeeps ==
  ASSUME IInv, NEW p \in Procs, NEW c \in Clients, SkipSetup(p, c) PROVE IInv'
<1> USE DEF IInv
<1>1. /\ pc[p] = "clients" /\ todo' = [todo EXCEPT ![p] = @ \ {c}]
      /\ failed' = [failed EXCEPT ![p] = @ \/ c # Desktop]
      /\ UNCHANGED <<settings, listener, endpoint, lock, pc, op, choice, saved, target>>
  BY DEF SkipSetup
<1>2. OthersRest(p) /\ todo'[p] = todo[p] \ {c}
  BY <1>1 DEF OthersRest, TypeOK
<1>3. TypeOK'
  BY <1>1 DEF TypeOK
<1>4. UseInv' /\ SettleInv'
  BY <1>1 DEF UseInv, InUse, ListenerPort, SettleInv, Settles, UsingHelper
<1>5. BesideInv' /\ WriteInv'
  BY <1>1, <1>2, Stage, BesideStays, WriteStays DEF WriteInv
<1>6. QED BY <1>3, <1>4, <1>5

\* Once its clients are rewritten, a command rests on none naming the old port.
LEMMA ClientsDoneKeeps ==
  ASSUME IInv, NEW p \in Procs, ClientsDone(p) PROVE IInv'
<1> USE DEF IInv
<1>1. pc[p] = "clients" /\ op[p] \in {"setup", "refresh", "move", "enable", "disable"}
      /\ UNCHANGED <<settings, listener, endpoint>>
  BY Stage DEF ClientsDone
<1>2. CASE End(p)
  <2>1. OthersRest(p) /\ pc'[p] = "idle"
    BY <1>1, <1>2, Ends DEF TypeOK
  <2>2. UseInv'
    BY <1>1, <2>1, UseStays DEF OthersRest
  <2>3. QED BY <1>1, <1>2, <2>2, EndKeeps DEF TypeOK
<1>3. CASE ~End(p)
  <2>1. /\ AfterClients(op[p]) # "idle" /\ pc' = [pc EXCEPT ![p] = AfterClients(op[p])]
        /\ UNCHANGED <<lock, op, todo, choice, saved, target, failed>>
    BY <1>3 DEF ClientsDone, GoTo
  <2>2. \/ op[p] = "move" /\ AfterClients(op[p]) = "drained"
        \/ op[p] = "enable" /\ AfterClients(op[p]) = "note"
        \/ op[p] = "disable" /\ AfterClients(op[p]) = "scan"
    BY <1>1, <2>1 DEF AfterClients
  <2>3. OthersRest(p) /\ pc'[p] = AfterClients(op[p])
    BY <1>1, <2>1 DEF OthersRest, TypeOK
  <2>4. TypeOK'
    BY <1>1, <2>1, <2>2 DEF TypeOK, PC
  <2>5. UseInv'
    BY <1>1, <2>1, <2>2, <2>3, UseStays DEF OthersRest
  <2>6. Settles(p)'
    BY <1>1, <2>1, <2>2, <2>3 DEF SettleInv, Settles
  <2>7. SettleInv'
    BY <1>1, <2>3, <2>6, OthersSettle DEF SettleInv
  <2>8. BesideInv' /\ WriteInv'
    BY <1>1, <2>1, <2>2, <2>3, Stages, BesideStays, WriteStays
  <2>9. QED BY <2>4, <2>5, <2>7, <2>8
<1>4. QED BY <1>2, <1>3

\* A client removed names no port.
LEMMA UnconfigureKeeps ==
  ASSUME IInv, NEW p \in Procs, Unconfigure(p) PROVE IInv'
<1> USE DEF IInv
<1>1. pc[p] = "remove" /\ op[p] = "unconfigure"
      /\ UNCHANGED <<settings, listener, lock, op, choice, saved, target, failed>>
  BY Stage DEF Unconfigure
<1>2. \/ pc' = [pc EXCEPT ![p] = "tail"] /\ UNCHANGED <<endpoint, todo>>
      \/ \E c \in Clients : /\ endpoint' = [endpoint EXCEPT ![c] = "none"]
                            /\ todo' = [todo EXCEPT ![p] = @ \ {c}] /\ UNCHANGED pc
  BY DEF Unconfigure, TypeOK, GoTo
<1>3. OthersRest(p) /\ pc'[p] \in {"remove", "tail"} /\ todo'[p] \subseteq todo[p]
  BY <1>1, <1>2 DEF OthersRest, TypeOK
<1>4. /\ endpoint' \in [Clients -> Endpoint \cup {"none"}]
      /\ \A c \in Clients : endpoint'[c] = endpoint[c] \/ endpoint'[c] = "none"
  BY <1>2 DEF TypeOK
<1>5. TypeOK'
  BY <1>1, <1>2, <1>4 DEF TypeOK, PC
<1>6. UseInv'
  BY <1>1, <1>3, <1>4 DEF UseInv, InUse, ListenerPort, OthersRest
<1>7. SettleInv'
  <2>1. Settles(p)'
    BY <1>1, <1>3 DEF Settles
  <2>2. QED BY <1>1, <1>3, <2>1, OthersSettle DEF SettleInv
<1>8. BesideInv' /\ WriteInv'
  BY <1>1, <1>3, Stages, BesideStays, WriteStays
<1>9. QED BY <1>5, <1>6, <1>7, <1>8

\* The agent leaves with the last setup, which no command is writing.
LEMMA UnconfigureTailKeeps ==
  ASSUME IInv, NEW p \in Procs, UnconfigureTail(p) PROVE IInv'
<1> USE DEF IInv
<1>1. /\ op[p] = "unconfigure" /\ End(p) /\ UNCHANGED <<settings, endpoint>>
      /\ listener' = IF Configured = {} THEN None ELSE listener
  BY Stage DEF UnconfigureTail
<1>2. \A q \in Procs : pc'[q] # "write"
  <2>1. OthersRest(p) /\ pc'[p] = "idle"
    BY <1>1, Ends DEF TypeOK
  <2>2. QED BY <1>1, <2>1, Alone DEF OthersRest
<1>3. CASE Configured = {}
  <2>1. \A c \in Clients : endpoint[c] \notin Ports
    BY <1>3 DEF Configured
  <2>2. UseInv'
    BY <1>1, <1>2, <2>1 DEF UseInv
  <2>3. QED BY <1>1, <1>3, <2>2, EndKeeps DEF TypeOK
<1>4. CASE Configured # {}
  <2>1. listener' = listener
    BY <1>1, <1>4
  <2>2. UseInv'
    BY <1>1, <1>2, <2>1 DEF UseInv, InUse, ListenerPort
  <2>3. QED BY <1>1, <2>1, <2>2, EndKeeps DEF TypeOK
<1>5. QED BY <1>3, <1>4

-----------------------------------------------------------------------------
(* agent enable [--port].                                                   *)

\* The settings with the listener kept, and with or without it.
LEMMA Kept ==
  ASSUME NEW s \in Settings, NEW keep \in BOOLEAN
  PROVE  /\ [s EXCEPT !.enabled = FALSE, !.keep = TRUE]
               = [enabled |-> FALSE, keep |-> TRUE, port |-> s.port]
         /\ [s EXCEPT !.keep = keep] = [enabled |-> s.enabled, keep |-> keep, port |-> s.port]
<1>1. ASSUME NEW n, n = [s EXCEPT !.enabled = FALSE, !.keep = TRUE]
      PROVE  n = [enabled |-> FALSE, keep |-> TRUE, port |-> s.port]
  BY <1>1, Zenon DEF Settings
<1>2. ASSUME NEW n, n = [s EXCEPT !.keep = keep]
      PROVE  n = [enabled |-> s.enabled, keep |-> keep, port |-> s.port]
  BY <1>2, Zenon DEF Settings
<1>3. QED BY <1>1, <1>2, Zenon

\* The listener that settings ask for.
LEMMA AskedFor ==
  ASSUME NEW s \in Settings, NEW port \in Ports
  PROVE  /\ s.port \in Ports
         /\ ListenerPort(s) # None => ListenerPort(s) = s.port
         /\ [enabled |-> FALSE, keep |-> TRUE, port |-> port] \in Settings
         /\ ListenerPort([enabled |-> FALSE, keep |-> TRUE, port |-> port]) = port
         /\ [enabled |-> TRUE, keep |-> FALSE, port |-> port] \in Settings
         /\ ListenerPort([enabled |-> TRUE, keep |-> FALSE, port |-> port]) = port
BY Zenon DEF Settings, ListenerPort

\* While a command runs alone, nothing is chosen but what it chooses itself.
LEMMA AloneUse ==
  ASSUME TypeOK, UseInv, BesideInv, WriteInv, NEW p \in Procs,
         op[p] \in {"enable", "move", "unconfigure"}, OthersRest(p), pc'[p] # "write",
         UNCHANGED <<listener, endpoint>>,
         UsingHelper # {} => ListenerPort(settings') = ListenerPort(settings)
  PROVE  UseInv'
<1>1. \A q \in Procs : pc'[q] # "write"
  BY Alone DEF OthersRest
<1>2. \A c \in Clients : endpoint[c] \in Ports => UsingHelper # {}
  BY DEF UsingHelper
<1>3. ASSUME NEW c \in Clients, endpoint'[c] \in Ports
      PROVE  endpoint'[c] = listener' /\ endpoint'[c] = ListenerPort(settings')
  <2>1. endpoint[c] = listener /\ endpoint[c] = ListenerPort(settings)
    BY <1>3 DEF UseInv, InUse
  <2>2. QED BY <1>2, <1>3, <2>1
<1>4. ListenerPort(settings)' = ListenerPort(settings')
  BY DEF ListenerPort
<1>5. QED BY <1>1, <1>3, <1>4, Zenon DEF UseInv, InUse

\* A port the setups use is not left in the step that begins.
LEMMA BeginEnableKeeps ==
  ASSUME IInv, NEW p \in Procs, NEW port \in Ports, BeginEnable(p, port) PROVE IInv'
<1> USE DEF IInv
<1>1. /\ pc[p] = "idle" /\ \A q \in Procs : q # p => op[q] = "none" /\ pc[q] = "idle"
      /\ saved' = [saved EXCEPT ![p] = settings] /\ target' = [target EXCEPT ![p] = port]
      /\ UNCHANGED <<listener, endpoint, lock, choice>>
  BY MayBeside, Stage DEF BeginEnable, Ops
<1>2. \/ /\ ListenerPort(settings) # None
         /\ settings' = [settings EXCEPT !.enabled = FALSE, !.keep = TRUE]
         /\ op' = [op EXCEPT ![p] = "move"] /\ pc' = [pc EXCEPT ![p] = "clients"]
         /\ todo' = [todo EXCEPT ![p] = Configured \cup ({Desktop} \ {None})]
         /\ failed' = [failed EXCEPT ![p] = FALSE]
      \/ /\ port = settings.port \/ ListenerPort(settings) = None
         /\ settings' = [enabled |-> TRUE, keep |-> FALSE, port |-> port]
         /\ op' = [op EXCEPT ![p] = "enable"] /\ pc' = [pc EXCEPT ![p] = "ensure"]
         /\ UNCHANGED <<todo, failed>>
  BY DEF BeginEnable, RefreshClients, GoTo
<1>3. UsingHelper # {} => ListenerPort(settings) # None
  BY DEF UsingHelper, UseInv, InUse
<1>4. settings \in Settings /\ settings.port \in Ports
  BY AskedFor DEF TypeOK
<1>5. /\ settings' \in Settings
      /\ UsingHelper # {} => ListenerPort(settings') = ListenerPort(settings)
      /\ op'[p] = "move" => ListenerPort(settings') = ListenerPort(settings)
  <2>1. CASE op' = [op EXCEPT ![p] = "move"]
    <3>1. ListenerPort(settings) # None /\ settings' = [settings EXCEPT !.enabled = FALSE, !.keep = TRUE]
      BY <1>2, <2>1 DEF TypeOK
    <3>2. settings' = [enabled |-> FALSE, keep |-> TRUE, port |-> settings.port]
      BY <1>4, <3>1, Kept
    <3>3. QED BY <1>4, <3>1, <3>2, AskedFor
  <2>2. CASE op' = [op EXCEPT ![p] = "enable"]
    <3>1. /\ port = settings.port \/ ListenerPort(settings) = None
          /\ settings' = [enabled |-> TRUE, keep |-> FALSE, port |-> port] /\ op'[p] = "enable"
      BY <1>2, <2>2 DEF TypeOK
    <3>2. QED BY <1>3, <1>4, <3>1, AskedFor
  <2>3. QED BY <1>2, <2>1, <2>2
<1>6. Configured \cup ({Desktop} \ {None}) \subseteq Clients
  BY DEF Configured, Clients
<1>7. /\ saved'[p] = settings /\ OthersRest(p)
      /\ \/ op'[p] = "move" /\ pc'[p] = "clients"
         \/ op'[p] = "enable" /\ pc'[p] = "ensure"
  BY <1>1, <1>2 DEF OthersRest, TypeOK
<1>8. TypeOK'
  <2>1. todo' \in [Procs -> SUBSET Clients]
    BY <1>2, <1>6 DEF TypeOK
  <2>2. failed' \in [Procs -> BOOLEAN]
    BY <1>2 DEF TypeOK
  <2>3. pc' \in [Procs -> PC] /\ op' \in [Procs -> Ops \cup {"none"}]
    BY <1>2 DEF TypeOK, PC, Ops
  <2>4. saved' \in [Procs -> Settings] /\ target' \in [Procs -> Ports]
    BY <1>1, <1>4 DEF TypeOK
  <2>5. QED BY <1>1, <1>5, <2>1, <2>2, <2>3, <2>4 DEF TypeOK
<1>9. \A q \in Procs : pc'[q] # "write"
  BY <1>1, <1>7 DEF OthersRest
<1>10. UseInv'
  <2>1. ASSUME NEW c \in Clients, endpoint'[c] \in Ports
        PROVE  endpoint'[c] = listener' /\ endpoint'[c] = ListenerPort(settings')
    <3>1. endpoint[c] = listener /\ endpoint[c] = ListenerPort(settings) /\ UsingHelper # {}
      BY <1>1, <2>1 DEF UseInv, InUse, UsingHelper
    <3>2. QED BY <1>1, <1>5, <3>1
  <2>2. ListenerPort(settings)' = ListenerPort(settings')
    BY DEF ListenerPort
  <2>3. QED BY <1>9, <2>1, <2>2, Zenon DEF UseInv, InUse
<1>11. SettleInv'
  <2>1. Settles(p)'
    BY <1>1, <1>5, <1>7 DEF Settles, UsingHelper, ListenerPort
  <2>2. ASSUME NEW q \in Procs, q # p PROVE Settles(q)'
    BY <1>1, <1>7, <2>2 DEF Settles, OthersRest
  <2>3. QED BY <2>1, <2>2 DEF SettleInv
<1>12. BesideInv'
  BY <1>1, <1>7 DEF BesideInv, OthersRest
<1>13. WriteInv'
  BY <1>1, <1>7, Stages, WriteStays
<1>14. QED BY <1>8, <1>10, <1>11, <1>12, <1>13

\* The old settings ask for the same listener.
LEMMA DrainedKeeps ==
  ASSUME IInv, NEW p \in Procs, Drained(p) PROVE IInv'
<1> USE DEF IInv
<1>1. /\ pc[p] = "drained" /\ op[p] = "move" /\ settings' = saved[p]
      /\ UNCHANGED <<listener, endpoint>>
  BY Stage DEF Drained
<1>2. settings' \in Settings /\ ListenerPort(settings') = ListenerPort(settings)
  BY <1>1 DEF TypeOK, SettleInv, Settles
<1>3. CASE End(p)
  <2>1. OthersRest(p) /\ pc'[p] = "idle"
    BY <1>2, <1>3, Ends
  <2>2. UseInv'
    BY <1>1, <1>2, <2>1, AloneUse
  <2>3. QED BY <1>1, <1>2, <1>3, <2>2, EndKeeps DEF TypeOK
<1>4. CASE ~End(p)
  <2>1. /\ UsingHelper = {} /\ pc' = [pc EXCEPT ![p] = "save"]
        /\ UNCHANGED <<lock, op, todo, choice, saved, target, failed>>
    BY <1>4 DEF Drained, GoTo
  <2>2. OthersRest(p) /\ pc'[p] = "save"
    BY <2>1 DEF OthersRest, TypeOK
  <2>3. TypeOK'
    BY <1>1, <1>2, <2>1 DEF TypeOK, PC
  <2>4. UseInv'
    BY <1>1, <1>2, <2>2, AloneUse
  <2>5. Settles(p)'
    BY <1>1, <2>1, <2>2 DEF Settles, UsingHelper
  <2>6. SettleInv'
    BY <1>1, <2>2, <2>5, OthersSettle DEF SettleInv
  <2>7. BesideInv' /\ WriteInv'
    BY <1>1, <2>1, <2>2, Stages, BesideStays, WriteStays
  <2>8. QED BY <2>3, <2>4, <2>6, <2>7
<1>5. QED BY <1>3, <1>4

\* No setup uses the port that is left.
LEMMA SavePortKeeps ==
  ASSUME IInv, NEW p \in Procs, SavePort(p) PROVE IInv'
<1> USE DEF IInv
<1>1. /\ pc[p] = "save" /\ op[p] = "move" /\ pc' = [pc EXCEPT ![p] = "ensure"]
      /\ op' = [op EXCEPT ![p] = "enable"]
      /\ settings' = [enabled |-> TRUE, keep |-> FALSE, port |-> target[p]]
      /\ UNCHANGED <<listener, endpoint, lock, todo, choice, saved, target, failed>>
  BY Stage DEF SavePort, GoTo
<1>2. settings' \in Settings /\ UsingHelper = {}
  BY <1>1, SMT DEF TypeOK, Settings, SettleInv, Settles
<1>3. OthersRest(p) /\ pc'[p] = "ensure" /\ op'[p] = "enable"
  BY <1>1 DEF OthersRest, TypeOK
<1>4. TypeOK'
  BY <1>1, <1>2 DEF TypeOK, PC, Ops
<1>5. UseInv'
  BY <1>1, <1>2, <1>3, AloneUse
<1>6. Settles(p)'
  BY <1>1, <1>2, <1>3 DEF Settles, UsingHelper
<1>7. SettleInv'
  BY <1>1, <1>3, <1>6, OthersSettle DEF SettleInv
<1>8. BesideInv' /\ WriteInv'
  BY <1>1, <1>3, Stages, BesideStays, WriteStays
<1>9. QED BY <1>4, <1>5, <1>7, <1>8

\* The listener started is the one the settings ask for.
LEMMA EnsureKeeps ==
  ASSUME IInv, NEW p \in Procs, Ensure(p) PROVE IInv'
<1> USE DEF IInv
<1>1. /\ pc[p] = "ensure" /\ op[p] = "enable"
      /\ UNCHANGED <<settings, endpoint, lock, op, choice, saved, target>>
      /\ UpdateService \/ listener' = listener
  BY Stage DEF Ensure, EnsureRunning
<1>2. \/ /\ pc' = [pc EXCEPT ![p] = "clients"]
         /\ todo' = [todo EXCEPT ![p] = Configured \cup ({Desktop} \ {None})]
         /\ failed' = [failed EXCEPT ![p] = FALSE]
      \/ pc' = [pc EXCEPT ![p] = "rollback"] /\ UNCHANGED <<todo, failed>>
  BY DEF Ensure, RefreshClients, GoTo
<1>3. Configured \cup ({Desktop} \ {None}) \subseteq Clients
  BY DEF Configured, Clients
<1>4. OthersRest(p) /\ pc'[p] \in {"clients", "rollback"} /\ op'[p] = "enable"
  BY <1>1, <1>2 DEF OthersRest, TypeOK
<1>5. listener' \in Ports \cup {None}
  BY <1>1, SMT DEF UpdateService, ListenerPort, TypeOK, Settings
<1>6. TypeOK'
  <2>1. todo' \in [Procs -> SUBSET Clients]
    BY <1>2, <1>3 DEF TypeOK
  <2>2. failed' \in [Procs -> BOOLEAN]
    BY <1>2 DEF TypeOK
  <2>3. pc' \in [Procs -> PC]
    BY <1>2 DEF TypeOK, PC
  <2>4. QED BY <1>1, <1>5, <2>1, <2>2, <2>3 DEF TypeOK
<1>7. UseInv'
  BY <1>1, <1>4, UseStays DEF OthersRest
<1>8. Settles(p)'
  BY <1>1, <1>4 DEF SettleInv, Settles, UsingHelper, ListenerPort
<1>9. SettleInv'
  BY <1>1, <1>4, <1>8, OthersSettle DEF SettleInv
<1>10. BesideInv' /\ WriteInv'
  BY <1>1, <1>4, Stages, BesideStays, WriteStays
<1>11. QED BY <1>6, <1>7, <1>9, <1>10

\* The settings restored ask for the listener there was.
LEMMA RollbackKeeps ==
  ASSUME IInv, NEW p \in Procs, Rollback(p) PROVE IInv'
<1> USE DEF IInv
<1>1. /\ pc[p] = "rollback" /\ op[p] = "enable" /\ pc' = [pc EXCEPT ![p] = "update"]
      /\ settings' = saved[p]
      /\ UNCHANGED <<listener, endpoint, lock, op, todo, choice, saved, target, failed>>
  BY Stage DEF Rollback, GoTo
<1>2. /\ settings' \in Settings
      /\ UsingHelper # {} => ListenerPort(settings') = ListenerPort(settings)
  BY <1>1 DEF TypeOK, SettleInv, Settles
<1>3. OthersRest(p) /\ pc'[p] = "update"
  BY <1>1 DEF OthersRest, TypeOK
<1>4. TypeOK'
  BY <1>1, <1>2 DEF TypeOK, PC
<1>5. UseInv'
  BY <1>1, <1>2, <1>3, AloneUse
<1>6. Settles(p)'
  BY <1>1, <1>3 DEF Settles
<1>7. SettleInv'
  BY <1>1, <1>3, <1>6, OthersSettle DEF SettleInv
<1>8. BesideInv' /\ WriteInv'
  BY <1>1, <1>3, Stages, BesideStays, WriteStays
<1>9. QED BY <1>4, <1>5, <1>7, <1>8

\* The agent listens on what is asked for, or is stopped when nobody uses it.
LEMMA UpdateAgentKeeps ==
  ASSUME IInv, NEW p \in Procs, UpdateAgent(p) PROVE IInv'
<1> USE DEF IInv
<1>1. op[p] # "none" /\ End(p) /\ UpdateService /\ UNCHANGED <<settings, endpoint>>
  BY Stage DEF UpdateAgent
<1>2. listener' \in Ports \cup {None}
  BY <1>1, SMT DEF UpdateService, ListenerPort, TypeOK, Settings
<1>3. OthersRest(p) /\ pc'[p] = "idle"
  BY <1>1, Ends DEF TypeOK
<1>4. UseInv'
  BY <1>1, <1>3, UseStays DEF OthersRest
<1>5. QED BY <1>1, <1>2, <1>4, EndKeeps DEF TypeOK

\* The failures are to be noted over the settings as they are,
LEMMA NoteFailuresKeeps ==
  ASSUME IInv, NEW p \in Procs, NoteFailures(p) PROVE IInv'
<1> USE DEF IInv
<1>1. /\ pc[p] = "note" /\ op[p] = "enable" /\ pc' = [pc EXCEPT ![p] = "noted"]
      /\ saved' = [saved EXCEPT ![p] = settings]
      /\ UNCHANGED <<settings, listener, endpoint, lock, op, todo, choice, target, failed>>
  BY Stage DEF NoteFailures, GoTo
<1>2. OthersRest(p) /\ pc'[p] = "noted" /\ saved'[p] = settings
  BY <1>1 DEF OthersRest, TypeOK
<1>3. TypeOK'
  BY <1>1 DEF TypeOK, PC
<1>4. UseInv'
  BY <1>1, <1>2, UseStays DEF OthersRest
<1>5. Settles(p)'
  BY <1>1, <1>2 DEF Settles
<1>6. SettleInv'
  BY <1>1, <1>2, <1>5, OthersSettle DEF SettleInv
<1>7. BesideInv' /\ WriteInv'
  BY <1>1, <1>2, Stages, BesideStays, WriteStays
<1>8. QED BY <1>3, <1>4, <1>6, <1>7

\* and noting them changes no port.
LEMMA FailuresNotedKeeps ==
  ASSUME IInv, NEW p \in Procs, FailuresNoted(p) PROVE IInv'
<1> USE DEF IInv
<1>1. op[p] = "enable" /\ End(p) /\ settings' = settings /\ UNCHANGED <<listener, endpoint>>
  BY Stage DEF FailuresNoted, SettleInv, Settles
<1>2. OthersRest(p) /\ pc'[p] = "idle"
  BY <1>1, Ends DEF TypeOK
<1>3. UseInv'
  BY <1>1, <1>2, UseStays DEF OthersRest
<1>4. QED BY <1>1, <1>3, EndKeeps DEF TypeOK

-----------------------------------------------------------------------------
(* agent disable.                                                           *)

\* The listener that setups use goes on while they are refreshed.
LEMMA BeginDisableKeeps ==
  ASSUME IInv, NEW p \in Procs, BeginDisable(p) PROVE IInv'
<1> USE DEF IInv
<1>1. /\ op[p] = "none"
      /\ \A q \in Procs : q # p => op[q] = "none"
                                   \/ (op[q] = "setup" /\ todo[q] \subseteq Overlapping)
  BY MayBeside DEF BeginDisable, Ops
<1>2. /\ settings' = [settings EXCEPT !.enabled = FALSE, !.keep = TRUE]
      /\ saved' = [saved EXCEPT ![p] = settings'] /\ op' = [op EXCEPT ![p] = "disable"]
      /\ pc' = [pc EXCEPT ![p] = "clients"]
      /\ todo' = [todo EXCEPT ![p] = Configured \cup ({Desktop} \ {None})]
      /\ failed' = [failed EXCEPT ![p] = FALSE]
      /\ UNCHANGED <<listener, endpoint, lock, choice, target>>
  BY DEF BeginDisable, RefreshClients, GoTo
<1>3. settings \in Settings /\ settings.port \in Ports
  BY AskedFor DEF TypeOK
<1>4. settings' = [enabled |-> FALSE, keep |-> TRUE, port |-> settings.port]
  BY <1>2, <1>3, Kept
<1>5. /\ settings' \in Settings /\ ListenerPort(settings') = settings.port
      /\ ~settings'.enabled /\ settings'.port = settings.port
  BY <1>3, <1>4, AskedFor
<1>6. /\ OthersRest(p) /\ op'[p] = "disable" /\ pc'[p] = "clients" /\ saved'[p] = settings'
  BY <1>2, <1>5 DEF OthersRest, TypeOK
<1>7. Configured \cup ({Desktop} \ {None}) \subseteq Clients
  BY DEF Configured, Clients
<1>8. TypeOK'
  <2>1. todo' \in [Procs -> SUBSET Clients]
    BY <1>2, <1>7 DEF TypeOK
  <2>2. failed' \in [Procs -> BOOLEAN]
    BY <1>2 DEF TypeOK
  <2>3. pc' \in [Procs -> PC] /\ op' \in [Procs -> Ops \cup {"none"}]
    BY <1>2 DEF TypeOK, PC, Ops
  <2>4. saved' \in [Procs -> Settings]
    BY <1>2, <1>5 DEF TypeOK
  <2>5. QED BY <1>2, <1>5, <2>1, <2>2, <2>3, <2>4 DEF TypeOK
<1>9. UseInv'
  <2>1. ASSUME NEW port \in Ports, InUse(port)
        PROVE  port = listener' /\ port = ListenerPort(settings')
    <3>1. ListenerPort(settings) = port /\ port # None
      BY <2>1 DEF InUse
    <3>2. QED BY <1>2, <1>3, <1>5, <2>1, <3>1, AskedFor DEF InUse
  <2>2. ListenerPort(settings)' = ListenerPort(settings')
    BY DEF ListenerPort
  <2>3. ASSUME NEW c \in Clients, endpoint'[c] \in Ports
        PROVE  endpoint'[c] = listener' /\ endpoint'[c] = ListenerPort(settings')
    BY <1>2, <2>1, <2>3 DEF UseInv
  <2>4. ASSUME NEW q \in Procs, pc'[q] = "write", choice'[q].endpoint \in Ports
        PROVE  choice'[q].endpoint = listener' /\ choice'[q].endpoint = ListenerPort(settings')
    <3>1. q # p /\ pc[q] = "write" /\ choice[q].endpoint \in Ports /\ choice' = choice
      BY <1>2, <1>6, <2>4 DEF OthersRest
    <3>2. QED BY <2>1, <3>1 DEF UseInv
  <2>5. QED BY <2>2, <2>3, <2>4, Zenon DEF UseInv, InUse
<1>10. SettleInv'
  <2>1. Settles(p)'
    BY <1>5, <1>6 DEF Settles
  <2>2. ASSUME NEW q \in Procs, q # p PROVE Settles(q)'
    <3>1. op'[q] \in {"none", "setup"} /\ pc'[q] \in {"idle", "clients", "write"}
      BY <1>1, <1>6, <2>2, Stages DEF WriteInv, OthersRest
    <3>2. QED BY <3>1 DEF Settles
  <2>3. QED BY <2>1, <2>2 DEF SettleInv
<1>11. BesideInv'
  BY <1>1, <1>6 DEF BesideInv, OthersRest
<1>12. WriteInv'
  BY <1>2, <1>6, Stages, WriteStays
<1>13. QED BY <1>8, <1>9, <1>10, <1>11, <1>12

\* A setup that has chosen the helper beside the disable is Desktop's, whose lock is
\* taken: all others that use the listener are in the scan.
LEMMA ScanKeeps ==
  ASSUME Overlapping \subseteq {Desktop}, IInv, NEW p \in Procs, Scan(p) PROVE IInv'
<1> USE DEF IInv
<1>1. /\ pc[p] = "scan" /\ op[p] = "disable" /\ pc' = [pc EXCEPT ![p] = "unlisten"]
      /\ settings' = [saved[p] EXCEPT !.keep = UsingHelper # {}]
      /\ UNCHANGED <<listener, endpoint, op, todo, choice, saved, target, failed>>
  BY Stage DEF Scan, GoTo
<1>2. /\ lock' \in [Clients -> Procs \cup {None}]
      /\ \A c \in Clients, q \in Procs : lock[c] = q => lock'[c] = q
      /\ Desktop \in Clients => lock[Desktop] = None
  BY DEF Scan, TypeOK, Clients
<1>3. OthersRest(p) /\ pc'[p] = "unlisten"
  BY <1>1 DEF OthersRest, TypeOK
<1>4. saved[p] \in Settings /\ ~saved[p].enabled /\ saved[p].port = settings.port /\ settings \in Settings
  BY <1>1 DEF TypeOK, SettleInv, Settles
<1>5. settings' = [enabled |-> saved[p].enabled, keep |-> UsingHelper # {}, port |-> settings.port]
  BY <1>1, <1>4, Kept
<1>6. settings' \in Settings /\ settings'.port = settings.port
  BY <1>4, <1>5, AskedFor, Zenon DEF Settings
<1>7. UsingHelper # {} => ListenerPort(settings') = settings.port
  BY <1>5, Zenon DEF ListenerPort
<1>8. \A q \in Procs : pc'[q] = "write" => choice'[q].endpoint \notin Ports
  <2>1. SUFFICES ASSUME NEW q \in Procs, q # p, pc[q] = "write" PROVE FALSE
    BY <1>1, <1>3 DEF OthersRest
  <2>2. /\ choice[q].client \in todo[q] /\ choice[q].client \in Clients
        /\ choice[q].client \notin Unlocked => lock[choice[q].client] = q
    BY <2>1 DEF WriteInv, Choice
  <2>3. todo[q] \subseteq {Desktop}
    BY <1>1, <2>1, Stage DEF BesideInv
  <2>4. QED BY <1>2, <2>2, <2>3
<1>9. TypeOK'
  BY <1>1, <1>2, <1>6 DEF TypeOK, PC
<1>10. UseInv'
  <2>1. ASSUME NEW c \in Clients, endpoint'[c] \in Ports
        PROVE  endpoint'[c] = listener' /\ endpoint'[c] = ListenerPort(settings')
    <3>1. endpoint[c] = listener /\ endpoint[c] = ListenerPort(settings) /\ UsingHelper # {}
      BY <1>1, <2>1 DEF UseInv, InUse, UsingHelper
    <3>2. ListenerPort(settings) = settings.port
      BY <1>1, <1>4, <2>1, <3>1, AskedFor
    <3>3. QED BY <1>1, <1>7, <3>1, <3>2
  <2>2. ListenerPort(settings)' = ListenerPort(settings')
    BY DEF ListenerPort
  <2>3. QED BY <1>8, <2>1, <2>2, Zenon DEF UseInv, InUse
<1>11. SettleInv'
  <2>1. Settles(p)'
    BY <1>1, <1>3, <1>4, <1>6 DEF Settles
  <2>2. QED BY <1>1, <1>3, <1>6, <2>1, OthersSettle DEF SettleInv
<1>12. BesideInv' /\ WriteInv'
  BY <1>1, <1>2, <1>3, Stages, BesideStays, WriteStays
<1>13. QED BY <1>9, <1>10, <1>11, <1>12

-----------------------------------------------------------------------------
(* The agent, and commands that are killed.                                 *)

\* A reinstallation listens on what the settings ask for.
LEMMA ReinstallKeeps == ASSUME IInv, Reinstall PROVE IInv'
<1> USE DEF IInv
<1>1. UpdateService /\ UNCHANGED <<settings, endpoint, lock, local>>
  BY DEF Reinstall
<1>2. listener' \in Ports \cup {None}
  BY <1>1, SMT DEF UpdateService, ListenerPort, TypeOK, Settings
<1>3. TypeOK'
  BY <1>1, <1>2 DEF TypeOK, local
<1>4. UseInv'
  BY <1>1, UseStays DEF local
<1>5. SettleInv' /\ BesideInv' /\ WriteInv'
  BY <1>1 DEF SettleInv, Settles, UsingHelper, ListenerPort, BesideInv, WriteInv, local
<1>6. QED BY <1>3, <1>4, <1>5

\* A killed command has left no setup behind its settings.
LEMMA KillKeeps == ASSUME IInv, NEW p \in Procs, Kill(p) PROVE IInv'
<1> USE DEF IInv
<1>1. op[p] # "none" /\ End(p) /\ UNCHANGED <<settings, listener, endpoint>>
  BY Stage DEF Kill
<1>2. OthersRest(p) /\ pc'[p] = "idle"
  BY <1>1, Ends DEF TypeOK
<1>3. UseInv'
  BY <1>1, <1>2, UseStays DEF OthersRest
<1>4. QED BY <1>1, <1>3, EndKeeps DEF TypeOK

\* A step of the rest of the system changes nothing here.
LEMMA StutterKeeps == ASSUME IInv, UNCHANGED vars PROVE IInv'
BY DEF IInv, vars, local, TypeOK, UseInv, InUse, SettleInv, Settles, UsingHelper, ListenerPort,
       BesideInv, WriteInv

\* No client is set up at the start.
LEMMA InitHolds == Init => IInv
<1> SUFFICES ASSUME Init PROVE IInv
  OBVIOUS
<1>1. PICK port \in Ports : /\ settings = Off(port) /\ saved = [p \in Procs |-> Off(port)]
                            /\ target = [p \in Procs |-> port]
  BY DEF Init
<1>2. Off(port) \in Settings
  BY DEF Off, Settings
<1>3. TypeOK
  BY <1>1, <1>2, Zenon DEF Init, TypeOK, PC
<1>4. UseInv /\ SettleInv /\ BesideInv /\ WriteInv
  BY Stages DEF Init, UseInv, SettleInv, Settles, BesideInv, WriteInv
<1>5. QED BY <1>3, <1>4 DEF IInv

\* Any step keeps the invariant.
LEMMA NextKeeps ==
  ASSUME Overlapping \subseteq {Desktop}, IInv, [Next]_vars PROVE IInv'
<1>1. CASE UNCHANGED vars
  BY <1>1, StutterKeeps
<1>2. CASE Reinstall
  BY <1>2, ReinstallKeeps
<1>3. ASSUME NEW p \in Procs, Begin(p) PROVE IInv'
  BY <1>3, BeginSetupKeeps, BeginRefreshKeeps, BeginUnconfigureKeeps, BeginEnableKeeps,
     BeginDisableKeeps DEF Begin
<1>4. ASSUME NEW p \in Procs, Step(p) PROVE IInv'
  BY <1>4, ChooseKeeps, SkipSetupKeeps, WriteSetupKeeps, ClientsDoneKeeps, UnconfigureKeeps,
     UnconfigureTailKeeps, DrainedKeeps, SavePortKeeps, EnsureKeeps, RollbackKeeps,
     UpdateAgentKeeps, NoteFailuresKeeps, FailuresNotedKeeps, ScanKeeps DEF Step
<1>5. ASSUME NEW p \in Procs, Kill(p) PROVE IInv'
  BY <1>5, KillKeeps
<1>6. QED BY <1>1, <1>2, <1>3, <1>4, <1>5 DEF Next

-----------------------------------------------------------------------------

\* The settings, the agent, the setups and what every command rests on fit together
\* in every state, if only Desktop is set up beside a disable (router_repo.py).
THEOREM ListenerInductive == ASSUME Overlapping \subseteq {Desktop} PROVE Spec => []IInv
<1>1. IInv /\ [Next]_vars => IInv'
  BY NextKeeps
<1>2. QED BY InitHolds, <1>1, PTL DEF Spec

\* No setup names a port on which nothing listens, whichever commands run beside each
\* other, fail or are killed, if only Desktop is set up beside a disable
\* (enable, disable, attribution_url).
THEOREM NoSetupStranded == ASSUME Overlapping \subseteq {Desktop} PROVE Spec => []NoneStranded
<1>1. IInv => NoneStranded
  BY DEF IInv, UseInv, InUse, NoneStranded
<1>2. QED BY ListenerInductive, <1>1, PTL

=============================================================================
