----------------------------- MODULE MCBackground -----------------------------
(***************************************************************************)
(* Instances for TLC of a person's work beside what other programs do:     *)
(* the services of the scheduled sync, for one terminal that gives every   *)
(* command beside every background run, the refreshes of the catalog of    *)
(* Pi's provider, and a routing profile that is edited while other         *)
(* commands change it.  They share no state, so a behaviour moves one of   *)
(* them, which the initial state chooses, and the others rest.             *)
(***************************************************************************)
EXTENDS RouterSchedule, PiCatalog, MCProfileDrafts

VARIABLE subject   \* the part of the system that moves

\* Keys are alike: it does not matter which of them belongs to what at first.
FirstKey == CHOOSE k \in ApiKeys : TRUE
OneOrder ==
  \A k \in ApiKeys : /\ owner[k] = NoProfile => owner[FirstKey] = NoProfile
                     /\ owner[FirstKey] = Default => owner[k] = Default

AllOps == Commands
AllRuns == BackgroundRuns

backgroundVars == <<vars, piVars, draftVars, subject>>

BackgroundInit ==
  /\ subject \in {"services", "pi", "draft"}
  /\ Init /\ (subject # "services" => bundled)
  /\ PiInit
  /\ subject # "pi" =>
       storedKey = (CHOOSE k \in RouterKeys : TRUE) /\ ~opaqueKey /\ cacheFile = EmptyCatalog
  /\ DraftInit
  /\ OneOrder
  /\ subject # "draft" => made = {Default} /\ \A k \in ApiKeys : owner[k] = Default

BackgroundNext ==
  \/ subject = "services" /\ UNCHANGED <<piVars, draftVars, subject>> /\ Next
  \/ subject = "pi" /\ UNCHANGED <<vars, draftVars, subject>> /\ PiNext
  \/ subject = "draft" /\ UNCHANGED <<vars, piVars, subject>> /\ DraftNext

\* The fairness of the services, while they move.
BackgroundSpec ==
  /\ BackgroundInit /\ [][BackgroundNext]_backgroundVars
  /\ \A p \in Terminals : SF_vars(subject = "services" /\ Step(p))
  /\ \A r \in Runs : SF_vars(subject = "services" /\ (Step(r) \/ RunStep(r)))
  /\ \A r \in Runs \ {"hook"} : WF_vars(subject = "services" /\ Start(r))

=============================================================================
