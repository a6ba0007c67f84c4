---------------------------- MODULE SwitchyardPush -----------------------------
(***************************************************************************)
(* The one-time move of every harness to Switchyard for one Router key     *)
(* (commands/router.py: _SwitchyardPush, driven by _run_configure and      *)
(* _refresh_clients).  Runs overlap freely: a configure, a refresh and the *)
(* background refresh of a session.  They share a record of who is owed    *)
(* the push, edited under a lock, and the saved model of each harness,     *)
(* which is the user's to change at any moment.                            *)
(***************************************************************************)
EXTENDS Naturals, TLC

CONSTANTS
  Harnesses,       \* the coding agents of the machine
  Listing,         \* those whose model list has Switchyard
  Comparing,       \* those whose write keeps a selection changed since (Codex)
  Spanning,        \* those whose setup spans files and can fail half way (OpenCode)
  Selections,      \* bound: the harnesses a configure may name
  PushRuns,        \* runs of configure and refresh
  MaxPicks,        \* bound: models the user picks
  MaxPushFaults    \* bound: writes that fail, runs that are interrupted or killed

Models == {"router", "switchyard", "picked", "elsewhere"}
Parts == {"absent", "owed", "done"}
NoRecord == [h \in Harnesses |-> "absent"]
Ended == [at |-> "ended"]

ASSUME PushAssumption ==
  /\ Listing \cup Comparing \cup Spanning \subseteq Harnesses
  /\ Selections \subseteq SUBSET Harnesses
  /\ MaxPicks \in Nat /\ MaxPushFaults \in Nat

VARIABLES
  connected,       \* the harnesses whose setup is complete
  savedModel,      \* the model each of them starts with
  recorded,        \* whether the push has started
  part,            \* each harness's part in it
  pushRun,         \* what each run is doing
  landed,          \* harnesses whose saved model became the pushed one (history)
  answered,        \* those where the user has since chosen another (history)
  forgone,         \* those passed over for good, or whose run was killed (history)
  picks, pushFaults

pushHistory == <<landed, answered, forgone>>
pushVars == <<connected, savedModel, recorded, part, pushRun, pushHistory, picks, pushFaults>>

PushInit ==
  /\ connected \in Selections \cup {{}}
  /\ savedModel = [h \in Harnesses |-> "router"]
  /\ recorded = FALSE /\ part = NoRecord
  /\ pushRun = [r \in PushRuns |-> Ended]
  /\ landed = {} /\ answered = {} /\ forgone = {}
  /\ picks = MaxPicks /\ pushFaults = MaxPushFaults

-----------------------------------------------------------------------------
(* The record, edited under its lock.                                       *)

\* (mutant) a harness is claimed whatever its part
Anyone(h) == TRUE

\* The first claim starts the push; a later one takes only a part that is owed.
Claimable(h) == ~recorded \/ part[h] = "owed"

\* (mutant) everyone else is done with the push
NobodyElse(r) == [h \in Harnesses |-> "done"]

\* Owed to everyone connected when the run began, less those it has passed over.
Shares(r) ==
  [h \in Harnesses |-> IF recorded THEN part[h]
                       ELSE IF h \in pushRun[r].skipped THEN "done"
                       ELSE IF h \in pushRun[r].owed THEN "owed" ELSE "absent"]

Move(h, from, to) == part' = IF part[h] = from THEN [part EXCEPT ![h] = to] ELSE part

-----------------------------------------------------------------------------
(* A run: one harness after the other is planned, read, written, settled.   *)

\* A configure names its harnesses, a refresh takes the connected ones (here the one
\* in the background, which leaves what the user has set outside of Router).
Start(r, kind, todo) ==
  /\ pushRun[r] = Ended /\ todo # {}
  /\ kind # "configure" => todo = connected
  /\ pushRun' = [pushRun EXCEPT ![r] =
       [at |-> "plan", kind |-> kind, todo |-> todo, owed |-> todo \cup connected,
        skipped |-> {}, carries |-> FALSE, harness |-> "none", selected |-> "router"]]
  /\ UNCHANGED <<connected, savedModel, recorded, part, pushHistory, picks, pushFaults>>

Carries(r, h) ==
  pushRun[r] # Ended /\ pushRun[r].carries /\ pushRun[r].harness = h

\* The harnesses come in an order that all runs share.
Planned(r, h, carries) ==
  /\ pushRun[r].at = "plan" /\ h = CHOOSE first \in pushRun[r].todo : TRUE
  /\ pushRun' = [pushRun EXCEPT ![r] =
       [pushRun[r] EXCEPT !.at = "read", !.todo = @ \ {h}, !.harness = h, !.carries = carries,
                          !.skipped = IF h \in Listing THEN @ ELSE @ \cup {h}]]

\* Switchyard is not in its list: it is passed over for good.
PassOver(r, h) ==
  /\ h \notin Listing /\ Planned(r, h, FALSE)
  /\ Move(h, "owed", "done")
  /\ forgone' = forgone \cup {h}
  /\ UNCHANGED <<connected, savedModel, recorded, landed, answered, picks, pushFaults>>

\* The part is done before anything changes: it cannot be taken twice.
Claim(r, h) ==
  /\ h \in Listing /\ Claimable(h) /\ Planned(r, h, TRUE)
  /\ recorded' = TRUE
  /\ part' = [Shares(r) EXCEPT ![h] = "done"]
  /\ UNCHANGED <<connected, savedModel, pushHistory, picks, pushFaults>>

\* Nothing is owed, or the record cannot be saved: no record, no push.
NoPush(r, h) ==
  /\ h \in Listing /\ Planned(r, h, FALSE)
  /\ pushFaults' = IF Claimable(h) THEN pushFaults - 1 ELSE pushFaults
  /\ pushFaults' \in Nat
  /\ UNCHANGED <<connected, savedModel, recorded, part, pushHistory, picks>>

\* A refresh reads the selection after discovery; a configure starts from the default.
ReadSelection(r) ==
  /\ pushRun[r].at = "read"
  /\ pushRun' = [pushRun EXCEPT ![r] =
       [pushRun[r] EXCEPT !.at = "write",
                          !.selected = IF pushRun[r].kind = "configure" THEN @
                                       ELSE savedModel[pushRun[r].harness]]]
  /\ UNCHANGED <<connected, savedModel, recorded, part, pushHistory, picks, pushFaults>>

\* What the write makes of the saved model.
ModelWritten(run) ==
  LET saved == savedModel[run.harness] IN
    IF run.kind = "refresh" /\ saved = "elsewhere" THEN saved
    ELSE IF run.kind # "configure" /\ run.harness \in Comparing
              /\ (run.carries => saved # run.selected) THEN saved
    ELSE IF run.carries THEN "switchyard"
    ELSE IF run.selected = "elsewhere" THEN "router" ELSE run.selected

NextClient(run) ==
  IF run.todo = {} THEN Ended
  ELSE [run EXCEPT !.at = "plan", !.carries = FALSE, !.harness = "none", !.selected = "router"]

\* settle(written=True): also when a selection changed since was kept.
WriteClient(r) ==
  LET run == pushRun[r]  model == ModelWritten(run) IN
    /\ run.at = "write"
    /\ savedModel' = [savedModel EXCEPT ![run.harness] = model]
    /\ connected' = connected \cup {run.harness}
    /\ landed' = IF run.carries /\ model = "switchyard" THEN landed \cup {run.harness} ELSE landed
    /\ forgone' = IF run.carries THEN forgone \cup {run.harness} ELSE forgone
    /\ pushRun' = [pushRun EXCEPT ![r] = NextClient(run)]
    /\ UNCHANGED <<recorded, part, answered, picks, pushFaults>>

\* The write fails, after the model itself has landed perhaps, or is interrupted.
WriteFails(r) ==
  LET run == pushRun[r]  model == ModelWritten(run) IN
    /\ run.at = "write" /\ pushFaults > 0
    /\ pushFaults' = pushFaults - 1
    /\ \E lands, interrupted \in BOOLEAN :
         /\ lands => interrupted \/ run.harness \in Spanning
         /\ savedModel' = IF lands THEN [savedModel EXCEPT ![run.harness] = model] ELSE savedModel
         /\ landed' = IF lands /\ run.carries /\ model = "switchyard"
                      THEN landed \cup {run.harness} ELSE landed
         /\ pushRun' = [pushRun EXCEPT ![r] =
              [run EXCEPT !.at = "settle", !.todo = IF interrupted THEN {} ELSE @]]
    /\ UNCHANGED <<connected, recorded, part, answered, forgone, picks>>

\* (mutant) a failed write always owes the push again
NeverHeld(run) == FALSE

\* _holds_model: the model itself has landed, so the push was taken.
Held(run) == savedModel[run.harness] = "switchyard"

Settle(r) ==
  LET run == pushRun[r] IN
    /\ run.at = "settle"
    /\ pushRun' = [pushRun EXCEPT ![r] = IF run.carries /\ ~Held(run)
                                         THEN [run EXCEPT !.at = "release"] ELSE NextClient(run)]
    /\ UNCHANGED <<connected, savedModel, recorded, part, pushHistory, picks, pushFaults>>

Release(r) ==
  /\ pushRun[r].at = "release"
  /\ Move(pushRun[r].harness, "done", "owed")
  /\ pushRun' = [pushRun EXCEPT ![r] = NextClient(pushRun[r])]
  /\ UNCHANGED <<connected, savedModel, recorded, pushHistory, picks, pushFaults>>

\* What a killed run has claimed is not pushed at all.
KillRun(r) ==
  /\ pushRun[r] # Ended /\ pushFaults > 0
  /\ pushFaults' = pushFaults - 1
  /\ pushRun' = [pushRun EXCEPT ![r] = Ended]
  /\ forgone' = IF pushRun[r].carries THEN forgone \cup {pushRun[r].harness} ELSE forgone
  /\ UNCHANGED <<connected, savedModel, recorded, part, landed, answered, picks>>

\* The user chooses a model in the harness, of Router's or another provider's.
\* (Not between a failed write and its settling: see the README.)
Pick(h) ==
  /\ h \in connected /\ picks > 0
  /\ \A r \in PushRuns : pushRun[r].at \in {"settle", "release"} => pushRun[r].harness # h
  /\ picks' = picks - 1
  /\ \E m \in {"picked"} \cup (IF h \in Comparing THEN {} ELSE {"elsewhere"}) :
       savedModel' = [savedModel EXCEPT ![h] = m]
  /\ answered' = IF h \in landed /\ savedModel[h] = "switchyard"
                      /\ ~\E r \in PushRuns : Carries(r, h)
                 THEN answered \cup {h} ELSE answered
  /\ UNCHANGED <<connected, recorded, part, pushRun, landed, forgone, pushFaults>>

PushNext ==
  \/ \E r \in PushRuns :
       \/ \E kind \in {"configure", "refresh"}, todo \in Selections \cup {connected} :
            Start(r, kind, todo)
       \/ \E h \in Harnesses : PassOver(r, h) \/ Claim(r, h) \/ NoPush(r, h)
       \/ ReadSelection(r) \/ WriteClient(r) \/ WriteFails(r)
       \/ Settle(r) \/ Release(r) \/ KillRun(r)
  \/ \E h \in Harnesses : Pick(h)

PushSpec == PushInit /\ [][PushNext]_pushVars

-----------------------------------------------------------------------------

\* A push is never repeated over what the user has picked since, not by a later run,
\* not by one alongside, and not when the write failed after the model had landed.
\* (_claim_switchyard_push, _SwitchyardPush.settle)
NeverPushedOver ==
  \A h \in Harnesses :
    /\ \A r \in PushRuns : Carries(r, h) => h \notin answered
    /\ \A r, q \in PushRuns : Carries(r, h) /\ Carries(q, h) => r = q

\* A harness whose part is done has taken the push, unless a run is about to deliver
\* or hand it back, it was passed over for good, or its run was killed.
PushIsOwed ==
  \A h \in Harnesses :
    recorded /\ part[h] = "done" =>
      \/ h \in landed \cup forgone
      \/ \E r \in PushRuns : Carries(r, h)

-----------------------------------------------------------------------------
(* Why both hold: an invariant that every step keeps.                       *)

Run == [at : {"plan", "read", "write", "settle", "release"},
        kind : {"configure", "refresh"},
        todo : SUBSET Harnesses, owed : SUBSET Harnesses, skipped : SUBSET Harnesses,
        carries : BOOLEAN, harness : Harnesses \cup {"none"}, selected : Models]

PushTypeOK ==
  /\ connected \subseteq Harnesses
  /\ savedModel \in [Harnesses -> Models]
  /\ recorded \in BOOLEAN /\ part \in [Harnesses -> Parts]
  /\ pushRun \in [PushRuns -> Run \cup {Ended}]

\* r is about to write the pushed model because it has read it there.
Repeats(r, h) ==
  pushRun[r].at = "write" /\ pushRun[r].harness = h /\ pushRun[r].selected = "switchyard"

\* The pushed model is in place only where it has landed, and nothing lands unrecorded.
LandedInv ==
  /\ \A h \in Harnesses : savedModel[h] = "switchyard" => h \in landed
  /\ \A h \in Harnesses, r \in PushRuns : Repeats(r, h) => h \in landed
  /\ landed # {} => recorded

\* A run holds its claim until the harness is settled, and what it will mark as done
\* when it starts the push, it has passed over.
ClaimInv ==
  \A r \in PushRuns : pushRun[r] # Ended =>
    /\ pushRun[r].skipped \subseteq forgone
    /\ pushRun[r].at # "plan" => pushRun[r].harness \in Harnesses
    /\ pushRun[r].at \in {"plan", "read"} => pushRun[r].selected = "router"
    /\ pushRun[r].carries =>
         pushRun[r].at # "plan" /\ recorded /\ part[pushRun[r].harness] = "done"
    /\ pushRun[r].at = "release" => pushRun[r].carries

OneCarrier ==
  \A h \in Harnesses, r, q \in PushRuns : Carries(r, h) /\ Carries(q, h) => r = q

OwedInv == PushTypeOK /\ LandedInv /\ ClaimInv /\ OneCarrier /\ PushIsOwed

\* The pushed model is not in place, and no run is about to put it back.
Untaken(h) ==
  /\ savedModel[h] # "switchyard"
  /\ \A q \in PushRuns : ~Repeats(q, h)

\* While the push is owed or carried it has not been taken, but for a failed write
\* that has landed: its run finds the model there, unless another has replaced it.
UntakenInv ==
  \A h \in Harnesses :
    /\ part[h] = "owed" => Untaken(h)
    /\ \A r \in PushRuns : Carries(r, h) =>
         Untaken(h) \/ (pushRun[r].at = "settle" /\ savedModel[h] = "switchyard")

\* Where the user has answered, the push is neither owed nor carried.
AnsweredInv ==
  \A h \in Harnesses : h \in answered =>
    h \in landed /\ part[h] # "owed" /\ \A r \in PushRuns : ~Carries(r, h)

PushInv == OwedInv /\ UntakenInv /\ AnsweredInv
=============================================================================
