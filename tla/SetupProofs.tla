------------------------------ MODULE SetupProofs ------------------------------
(***************************************************************************)
(* The setups of single clients: the Switchyard push, for any number of    *)
(* runs and harnesses, Claude Desktop's documents, for any profiles,       *)
(* endpoints and changes made in the app, the threads of Codex, for any    *)
(* number of them, of failures and of threads archived, and the settings   *)
(* of Claude Code, for any user's, any models and number of edits.         *)
(*                                                                         *)
(* The push.  At most one run carries a harness' push, and until it has    *)
(* settled the push is owed (ClaimInv, OneCarrier).  That it is never      *)
(* pushed over an answer needs that the model is not in place before       *)
(* (UntakenInv), which a third run can undo by a model it has read before: *)
(* that theorem is for two runs at once.                                   *)
(*                                                                         *)
(* Desktop.  What a command has yet to write is untouched and what it has  *)
(* written is as meant (InTurn, Meant), so that a receipt always stands    *)
(* for the settings as they were found (Kept).  The undo of a command is   *)
(* one attempt: the theorems suppose that nothing fails during it.         *)
(*                                                                         *)
(* Codex.  A thread is what it is without Router, or is on Router and the  *)
(* receipt tells the way back (ThreadKnown); a configure knows so of the   *)
(* receipt it replaces and of what it has found (ConfigureKnows), and an   *)
(* unconfigure how far it has come (RestoreKnows).  That the threads are   *)
(* shown rests on entries and threads agreeing (ShownInv), which holds     *)
(* after a rollback that failed, too.  Both suppose that nothing moves to  *)
(* or from the archive during a second look for threads (Undisturbed), the *)
(* first that a configure waits for an unconfigure that failed half way.   *)
(*                                                                         *)
(* Claude Code.  A key is the user's, or holds what the receipt says that  *)
(* Router wrote over what the user had, or is one that a kill has made     *)
(* nobody's (KeyInv).  A command that writes does one of four things to a  *)
(* key (KeyStep), each of which keeps that (OwnedWriteKeeps).              *)
(***************************************************************************)
EXTENDS SwitchyardPush, DesktopSetup, CodexThreads, ClaudeSettings, TLAPS

-----------------------------------------------------------------------------
(* The push: its steps, in the terms of one run.                            *)

USE PushAssumption, DesktopAssumption

\* A run is not one that has ended.
LEMMA RunStages ==
  /\ \A run \in Run : run # Ended /\ run.at # "ended"
  /\ Ended \notin Run /\ Ended.at = "ended"
BY DEF Run, Ended

\* A run that is at a stage has not ended.
LEMMA AtStage ==
  ASSUME PushTypeOK, NEW r \in PushRuns,
         pushRun[r].at \in {"plan", "read", "write", "settle", "release"} \/ pushRun[r] # Ended
  PROVE  pushRun[r] \in Run
BY RunStages DEF PushTypeOK

\* What a run becomes when a harness is planned.
LEMMA PlannedRun ==
  ASSUME PushTypeOK, NEW r \in PushRuns, NEW h \in Harnesses, NEW c \in BOOLEAN,
         Planned(r, h, c)
  PROVE  /\ pushRun[r] \in Run /\ pushRun'[r] \in Run
         /\ pushRun' = [pushRun EXCEPT ![r] = pushRun'[r]]
         /\ pushRun'[r].at = "read" /\ pushRun'[r].harness = h /\ pushRun'[r].carries = c
         /\ pushRun'[r].selected = pushRun[r].selected
         /\ pushRun'[r].skipped = IF h \in Listing THEN pushRun[r].skipped
                                  ELSE pushRun[r].skipped \cup {h}
<1>1. pushRun[r] \in Run
  BY AtStage DEF Planned
<1> DEFINE n == pushRun'[r]
<1>2. n = [pushRun[r] EXCEPT !.at = "read", !.todo = @ \ {h}, !.harness = h,
                             !.carries = c,
                             !.skipped = IF h \in Listing THEN @ ELSE @ \cup {h}]
  BY <1>1 DEF Planned, PushTypeOK
<1>a. n = [at |-> "read", kind |-> pushRun[r].kind, todo |-> pushRun[r].todo \ {h},
           owed |-> pushRun[r].owed,
           skipped |-> IF h \in Listing THEN pushRun[r].skipped ELSE pushRun[r].skipped \cup {h},
           carries |-> c, harness |-> h, selected |-> pushRun[r].selected]
  BY <1>1, <1>2, Zenon DEF Run
<1>b. /\ pushRun[r].kind \in {"configure", "refresh"} /\ pushRun[r].todo \subseteq Harnesses
      /\ pushRun[r].owed \subseteq Harnesses /\ pushRun[r].skipped \subseteq Harnesses
      /\ pushRun[r].selected \in Models
  BY <1>1, Zenon DEF Run
<1>3. n \in Run
  BY <1>a, <1>b, SMT DEF Run
<1>4. pushRun' = [pushRun EXCEPT ![r] = n]
  BY <1>1, SMT DEF Planned, PushTypeOK
<1> QED BY <1>1, <1>2, <1>3, <1>4 DEF Run

\* What a run becomes when it reads the selection.
LEMMA ReadRun ==
  ASSUME PushTypeOK, ClaimInv, NEW r \in PushRuns, ReadSelection(r)
  PROVE  /\ pushRun[r] \in Run /\ pushRun'[r] \in Run
         /\ pushRun' = [pushRun EXCEPT ![r] = pushRun'[r]]
         /\ pushRun'[r].at = "write" /\ pushRun'[r].harness = pushRun[r].harness
         /\ pushRun'[r].carries = pushRun[r].carries
         /\ pushRun'[r].skipped = pushRun[r].skipped
         /\ pushRun'[r].selected = IF pushRun[r].kind = "configure" THEN pushRun[r].selected
                                   ELSE savedModel[pushRun[r].harness]
<1>1. pushRun[r] \in Run
  BY AtStage DEF ReadSelection
<1> DEFINE n == pushRun'[r]
           s == IF pushRun[r].kind = "configure" THEN pushRun[r].selected
                ELSE savedModel[pushRun[r].harness]
<1>2. n = [pushRun[r] EXCEPT !.at = "write", !.selected = s]
  BY <1>1 DEF ReadSelection, PushTypeOK
<1>a. n = [at |-> "write", kind |-> pushRun[r].kind, todo |-> pushRun[r].todo,
           owed |-> pushRun[r].owed, skipped |-> pushRun[r].skipped,
           carries |-> pushRun[r].carries, harness |-> pushRun[r].harness, selected |-> s]
  BY <1>1, <1>2, Zenon DEF Run
<1>b. /\ pushRun[r].kind \in {"configure", "refresh"} /\ pushRun[r].todo \subseteq Harnesses
      /\ pushRun[r].owed \subseteq Harnesses /\ pushRun[r].skipped \subseteq Harnesses
      /\ pushRun[r].carries \in BOOLEAN /\ pushRun[r].harness \in Harnesses \cup {"none"}
      /\ pushRun[r].selected \in Models
  BY <1>1, Zenon DEF Run
<1>3. pushRun[r].harness \in Harnesses
  BY <1>1, RunStages DEF ClaimInv, ReadSelection
<1>4. n \in Run
  BY <1>3, <1>a, <1>b, SMT DEF Run, PushTypeOK
<1>5. pushRun' = [pushRun EXCEPT ![r] = n]
  BY <1>2 DEF ReadSelection
<1> QED BY <1>1, <1>a, <1>4, <1>5 DEF Run

\* The same harness at another stage, with what else is left to do.
Staged(run, s, t) == [run EXCEPT !.at = s, !.todo = t]

\* What a run becomes at another stage of the same harness.
LEMMA StagedRun ==
  ASSUME NEW run \in Run, NEW s \in {"settle", "release"}, NEW t \in SUBSET Harnesses,
         NEW n, n = Staged(run, s, t)
  PROVE  /\ n \in Run /\ n.at = s /\ n.harness = run.harness /\ n.carries = run.carries
         /\ n.skipped = run.skipped /\ n.selected = run.selected
<1>1. n = [at |-> s, kind |-> run.kind, todo |-> t, owed |-> run.owed,
           skipped |-> run.skipped, carries |-> run.carries, harness |-> run.harness,
           selected |-> run.selected]
  BY Zenon DEF Run, Staged
<1>2. /\ run.kind \in {"configure", "refresh"} /\ run.owed \subseteq Harnesses
      /\ run.skipped \subseteq Harnesses /\ run.carries \in BOOLEAN
      /\ run.harness \in Harnesses \cup {"none"} /\ run.selected \in Models
  BY Zenon DEF Run
<1> QED BY <1>1, <1>2, SMT DEF Run

\* What a run becomes when it is done with a harness.
LEMMA NextRun ==
  ASSUME NEW run \in Run, NEW n, n = NextClient(run)
  PROVE  \/ n = Ended
         \/ /\ n \in Run /\ n.at = "plan" /\ n.carries = FALSE
            /\ n.skipped = run.skipped /\ n.selected = "router"
<1>1. CASE run.todo # {}
  <2>1. n = [run EXCEPT !.at = "plan", !.carries = FALSE, !.harness = "none",
                        !.selected = "router"]
    BY <1>1 DEF NextClient
  <2>2. n = [at |-> "plan", kind |-> run.kind, todo |-> run.todo, owed |-> run.owed,
             skipped |-> run.skipped, carries |-> FALSE, harness |-> "none",
             selected |-> "router"]
    BY <2>1, Zenon DEF Run
  <2>3. /\ run.kind \in {"configure", "refresh"} /\ run.owed \subseteq Harnesses
        /\ run.skipped \subseteq Harnesses /\ run.todo \subseteq Harnesses
    BY Zenon DEF Run
  <2> QED BY <2>2, <2>3, SMT DEF Run, Models
<1> QED BY <1>1 DEF NextClient

-----------------------------------------------------------------------------
(* The push is owed until it is taken: OwedInv, kept by each step.          *)

\* A run that carries nothing new, over a record that stays: what the steps that leave
\* the record alone have to show.
LEMMA MovedKeeps ==
  ASSUME OwedInv, NEW r \in PushRuns, NEW n \in Run \cup {Ended},
         pushRun' = [pushRun EXCEPT ![r] = n],
         UNCHANGED <<recorded, part>>,
         connected' \subseteq Harnesses, savedModel' \in [Harnesses -> Models],
         \A h \in Harnesses : savedModel'[h] = "switchyard" => h \in landed',
         landed' # {} => recorded,
         landed \subseteq landed', forgone \subseteq forgone',
         n # Ended =>
           /\ n.skipped \subseteq forgone'
           /\ n.at # "plan" => n.harness \in Harnesses
           /\ n.at \in {"plan", "read"} => n.selected = "router"
           /\ n.at = "release" => n.carries
           /\ n.at = "write" /\ n.selected = "switchyard" => n.harness \in landed
           /\ n.carries => /\ pushRun[r] # Ended /\ pushRun[r].carries
                           /\ n.at # "plan" /\ n.harness = pushRun[r].harness,
         pushRun[r] # Ended /\ pushRun[r].carries =>
           \/ n # Ended /\ n.carries
           \/ pushRun[r].harness \in landed' \cup forgone'
  PROVE  OwedInv'
<1> USE DEF OwedInv
<1>1. PushTypeOK'
  BY DEF PushTypeOK
<1>2. \A q \in PushRuns : pushRun'[q] = IF q = r THEN n ELSE pushRun[q]
  BY DEF PushTypeOK
<1>3. LandedInv'
  BY <1>2, RunStages DEF LandedInv, Repeats
<1>4. ClaimInv'
  BY <1>2 DEF ClaimInv
<1>5. \A q \in PushRuns, h \in Harnesses : Carries(q, h)' => Carries(q, h)
  BY <1>2 DEF Carries
<1>6. OneCarrier'
  BY <1>5 DEF OneCarrier
<1>7. \A q \in PushRuns, h \in Harnesses :
        Carries(q, h) => Carries(q, h)' \/ h \in landed' \cup forgone'
  BY <1>2 DEF Carries
<1>8. PushIsOwed'
  BY <1>7 DEF PushIsOwed
<1> QED BY <1>1, <1>3, <1>4, <1>6, <1>8

\* The models and the history of a step that leaves them alone.
LEMMA ModelsStay ==
  ASSUME OwedInv, UNCHANGED <<connected, savedModel, landed, forgone>>
  PROVE  /\ connected' \subseteq Harnesses /\ savedModel' \in [Harnesses -> Models]
         /\ \A h \in Harnesses : savedModel'[h] = "switchyard" => h \in landed'
         /\ landed' # {} => recorded
         /\ landed \subseteq landed' /\ forgone \subseteq forgone'
BY DEF OwedInv, PushTypeOK, LandedInv

\* A run that starts carries nothing yet.
LEMMA StartKeeps ==
  ASSUME OwedInv, NEW r \in PushRuns, NEW kind \in {"configure", "refresh"},
         NEW todo \in Selections \cup {connected}, Start(r, kind, todo)
  PROVE  OwedInv'
<1> DEFINE n == [at |-> "plan", kind |-> kind, todo |-> todo, owed |-> todo \cup connected,
                 skipped |-> {}, carries |-> FALSE, harness |-> "none", selected |-> "router"]
<1>1. n \in Run
  BY SMT DEF Run, Models, OwedInv, PushTypeOK
<1>2. pushRun[r] = Ended /\ pushRun' = [pushRun EXCEPT ![r] = n]
      /\ UNCHANGED <<connected, savedModel, recorded, part, landed, forgone>>
  BY DEF Start, pushHistory
<1>3. n.skipped \subseteq forgone' /\ n.at = "plan" /\ n.selected = "router" /\ n.carries = FALSE
  OBVIOUS
<1> HIDE DEF n
<1> QED BY <1>1, <1>2, <1>3, ModelsStay, MovedKeeps

\* Reading the harness' selection changes nothing that is owed.
LEMMA ReadSelectionKeeps ==
  ASSUME OwedInv, NEW r \in PushRuns, ReadSelection(r)
  PROVE  OwedInv'
<1> USE DEF OwedInv
<1> DEFINE n == pushRun'[r]
<1>1. /\ pushRun[r] \in Run /\ n \in Run
      /\ pushRun' = [pushRun EXCEPT ![r] = n]
      /\ n.at = "write" /\ n.harness = pushRun[r].harness
      /\ n.carries = pushRun[r].carries
      /\ n.skipped = pushRun[r].skipped
      /\ n.selected = IF pushRun[r].kind = "configure" THEN pushRun[r].selected
                      ELSE savedModel[pushRun[r].harness]
  BY ReadRun
<1>2. pushRun[r].at = "read" /\ pushRun[r] # Ended
      /\ UNCHANGED <<connected, savedModel, recorded, part, landed, forgone>>
  BY <1>1, RunStages DEF ReadSelection, pushHistory
<1>3. /\ pushRun[r].skipped \subseteq forgone /\ pushRun[r].harness \in Harnesses
      /\ pushRun[r].selected = "router"
  BY <1>2, RunStages DEF ClaimInv
<1>4. n.selected = "switchyard" => n.harness \in landed
  BY <1>1, <1>3 DEF LandedInv
<1>5. /\ n.skipped \subseteq forgone' /\ n.harness \in Harnesses
      /\ n.at \notin {"plan", "read", "release"} /\ forgone \subseteq forgone'
      /\ n # Ended
  BY <1>1, <1>2, <1>3, RunStages
<1>6. /\ n.carries => pushRun[r].carries /\ n.harness = pushRun[r].harness
      /\ pushRun[r].carries => n.carries
  BY <1>1
<1> HIDE DEF n
<1> QED BY <1>1, <1>2, <1>4, <1>5, <1>6, ModelsStay, MovedKeeps

\* What is settled has landed, or is handed back.
LEMMA SettleKeeps ==
  ASSUME OwedInv, NEW r \in PushRuns, Settle(r)
  PROVE  OwedInv'
<1> USE DEF OwedInv
<1>1. pushRun[r].at = "settle" /\ pushRun[r] \in Run /\ pushRun[r] # Ended
      /\ UNCHANGED <<connected, savedModel, recorded, part, landed, forgone>>
  BY AtStage, RunStages DEF Settle, pushHistory
<1>2. /\ pushRun[r].skipped \subseteq forgone /\ pushRun[r].harness \in Harnesses
  BY <1>1 DEF ClaimInv
<1>3. CASE pushRun[r].carries /\ ~Held(pushRun[r])
  <2> DEFINE n == [pushRun[r] EXCEPT !.at = "release"]
  <2>1. n = Staged(pushRun[r], "release", pushRun[r].todo)
    BY <1>1, Zenon DEF Run, Staged
  <2>2. pushRun[r].todo \in SUBSET Harnesses
    BY <1>1, Zenon DEF Run
  <2>3. pushRun' = [pushRun EXCEPT ![r] = n]
    BY <1>3 DEF Settle
  <2> HIDE DEF n
  <2>4. /\ n \in Run /\ n.at = "release" /\ n.harness = pushRun[r].harness
        /\ n.carries = pushRun[r].carries /\ n.skipped = pushRun[r].skipped
    BY <1>1, <2>1, <2>2, StagedRun
  <2>5. /\ n.skipped \subseteq forgone' /\ n.harness \in Harnesses /\ n.carries
        /\ n.at \notin {"plan", "read", "write"}
    BY <1>1, <1>2, <1>3, <2>4
  <2>6. forgone \subseteq forgone'
    BY <1>1
  <2>7. n # Ended /\ n \in Run \cup {Ended}
    BY <2>4, RunStages
  <2>8. n.carries => pushRun[r] # Ended /\ pushRun[r].carries
                     /\ n.at # "plan" /\ n.harness = pushRun[r].harness
    BY <1>1, <1>3, <2>4
  <2> QED BY <1>1, <2>3, <2>5, <2>6, <2>7, <2>8, ModelsStay, MovedKeeps
<1>4. CASE ~(pushRun[r].carries /\ ~Held(pushRun[r]))
  <2> DEFINE n == NextClient(pushRun[r])
  <2>1. pushRun' = [pushRun EXCEPT ![r] = n]
    BY <1>4 DEF Settle
  <2>2. \/ n = Ended
        \/ /\ n \in Run /\ n.at = "plan" /\ n.carries = FALSE
           /\ n.skipped = pushRun[r].skipped /\ n.selected = "router"
    BY <1>1, NextRun
  <2>3. pushRun[r].carries => pushRun[r].harness \in landed
    BY <1>2, <1>4 DEF Held, LandedInv
  <2> HIDE DEF n
  <2> QED BY <1>1, <1>2, <2>1, <2>2, <2>3, ModelsStay, MovedKeeps
<1> QED BY <1>3, <1>4

\* A killed run leaves its claim to the record.
LEMMA KillRunKeeps ==
  ASSUME OwedInv, NEW r \in PushRuns, KillRun(r)
  PROVE  OwedInv'
<1>1. pushRun' = [pushRun EXCEPT ![r] = Ended]
      /\ UNCHANGED <<connected, savedModel, recorded, part, landed>>
  BY DEF KillRun
<1>2. forgone \subseteq forgone' /\ (pushRun[r].carries => pushRun[r].harness \in forgone')
  BY DEF KillRun
<1>3. /\ connected' \subseteq Harnesses /\ savedModel' \in [Harnesses -> Models]
      /\ \A h \in Harnesses : savedModel'[h] = "switchyard" => h \in landed'
      /\ landed' # {} => recorded
  BY <1>1 DEF OwedInv, PushTypeOK, LandedInv
<1> QED BY <1>1, <1>2, <1>3, MovedKeeps

\* A write makes the pushed model of the saved one only where it carries it, or where
\* it has landed.
LEMMA WrittenModel ==
  ASSUME OwedInv, NEW r \in PushRuns, pushRun[r].at = "write"
  PROVE  /\ pushRun[r] \in Run /\ pushRun[r] # Ended /\ pushRun[r].harness \in Harnesses
         /\ pushRun[r].skipped \subseteq forgone
         /\ pushRun[r].carries => recorded
         /\ ModelWritten(pushRun[r]) \in Models
         /\ ModelWritten(pushRun[r]) = "switchyard" =>
              pushRun[r].carries \/ pushRun[r].harness \in landed
<1> USE DEF OwedInv
<1>1. pushRun[r] \in Run /\ pushRun[r] # Ended
  BY AtStage, RunStages
<1>2. pushRun[r].selected \in Models
  BY <1>1, Zenon DEF Run
<1>3. /\ pushRun[r].harness \in Harnesses /\ pushRun[r].skipped \subseteq forgone
      /\ pushRun[r].carries => recorded
  BY <1>1 DEF ClaimInv
<1>4. pushRun[r].selected = "switchyard" => pushRun[r].harness \in landed
  BY <1>3 DEF LandedInv, Repeats
<1>5. savedModel[pushRun[r].harness] \in Models
  BY <1>3 DEF PushTypeOK
<1> QED BY <1>1, <1>2, <1>3, <1>4, <1>5 DEF ModelWritten, Models, LandedInv

\* A write lands the push its run carries.
LEMMA WriteClientKeeps ==
  ASSUME OwedInv, NEW r \in PushRuns, WriteClient(r)
  PROVE  OwedInv'
<1> DEFINE model == ModelWritten(pushRun[r])  n == NextClient(pushRun[r])
<1>1. /\ pushRun[r].at = "write"
      /\ savedModel' = [savedModel EXCEPT ![pushRun[r].harness] = model]
      /\ connected' = connected \cup {pushRun[r].harness}
      /\ landed' = IF pushRun[r].carries /\ model = "switchyard"
                   THEN landed \cup {pushRun[r].harness} ELSE landed
      /\ forgone' = IF pushRun[r].carries THEN forgone \cup {pushRun[r].harness} ELSE forgone
      /\ pushRun' = [pushRun EXCEPT ![r] = n]
      /\ UNCHANGED <<recorded, part>>
  BY DEF WriteClient
<1>2. /\ pushRun[r] \in Run /\ pushRun[r] # Ended /\ pushRun[r].harness \in Harnesses
      /\ pushRun[r].skipped \subseteq forgone
      /\ pushRun[r].carries => recorded
      /\ model \in Models
      /\ model = "switchyard" => pushRun[r].carries \/ pushRun[r].harness \in landed
  BY <1>1, WrittenModel
<1>3. \/ n = Ended
      \/ /\ n \in Run /\ n.at = "plan" /\ n.carries = FALSE
         /\ n.skipped = pushRun[r].skipped /\ n.selected = "router"
  BY <1>2, NextRun
<1> HIDE DEF model, n
<1>4. /\ connected' \subseteq Harnesses /\ savedModel' \in [Harnesses -> Models]
      /\ \A h \in Harnesses : savedModel'[h] = "switchyard" => h \in landed'
      /\ landed' # {} => recorded
      /\ landed \subseteq landed' /\ forgone \subseteq forgone'
  BY <1>1, <1>2 DEF OwedInv, PushTypeOK, LandedInv
<1>5. pushRun[r].carries => pushRun[r].harness \in landed' \cup forgone'
  BY <1>1
<1> QED BY <1>1, <1>2, <1>3, <1>4, <1>5, MovedKeeps

\* A write that fails may have landed all the same.
LEMMA WriteFailsKeeps ==
  ASSUME OwedInv, NEW r \in PushRuns, WriteFails(r)
  PROVE  OwedInv'
<1> DEFINE model == ModelWritten(pushRun[r])
<1>1. PICK lands \in BOOLEAN, interrupted \in BOOLEAN :
        /\ savedModel' = IF lands THEN [savedModel EXCEPT ![pushRun[r].harness] = model]
                         ELSE savedModel
        /\ landed' = IF lands /\ pushRun[r].carries /\ model = "switchyard"
                     THEN landed \cup {pushRun[r].harness} ELSE landed
        /\ pushRun' = [pushRun EXCEPT ![r] =
             [pushRun[r] EXCEPT !.at = "settle", !.todo = IF interrupted THEN {} ELSE @]]
  BY DEF WriteFails
<1>2. pushRun[r].at = "write" /\ UNCHANGED <<connected, recorded, part, forgone>>
  BY DEF WriteFails
<1>3. /\ pushRun[r] \in Run /\ pushRun[r] # Ended /\ pushRun[r].harness \in Harnesses
      /\ pushRun[r].skipped \subseteq forgone
      /\ pushRun[r].carries => recorded
      /\ model \in Models
      /\ model = "switchyard" => pushRun[r].carries \/ pushRun[r].harness \in landed
  BY <1>2, WrittenModel
<1> DEFINE t == IF interrupted THEN {} ELSE pushRun[r].todo
           n == Staged(pushRun[r], "settle", t)
<1>4. t \in SUBSET Harnesses
  BY <1>3, Zenon DEF Run
<1>5. pushRun' = [pushRun EXCEPT ![r] = n]
  BY <1>1 DEF Staged
<1> HIDE DEF model, n, t
<1>6. n = Staged(pushRun[r], "settle", t)
  BY DEF n
<1>7. /\ n \in Run /\ n.at = "settle" /\ n.harness = pushRun[r].harness
      /\ n.carries = pushRun[r].carries /\ n.skipped = pushRun[r].skipped
  BY <1>3, <1>4, <1>6, StagedRun
<1>8. /\ connected' \subseteq Harnesses /\ savedModel' \in [Harnesses -> Models]
      /\ \A h \in Harnesses : savedModel'[h] = "switchyard" => h \in landed'
      /\ landed' # {} => recorded
      /\ landed \subseteq landed' /\ forgone \subseteq forgone'
  BY <1>1, <1>2, <1>3 DEF OwedInv, PushTypeOK, LandedInv
<1>9. /\ n # Ended /\ n.skipped \subseteq forgone' /\ n.harness \in Harnesses
      /\ n.at \notin {"plan", "read", "write", "release"}
  BY <1>2, <1>3, <1>7, RunStages
<1> QED BY <1>2, <1>3, <1>5, <1>7, <1>8, <1>9, MovedKeeps

\* A pick of the user changes the model alone.
LEMMA PickKeeps ==
  ASSUME OwedInv, NEW h \in Harnesses, Pick(h)
  PROVE  OwedInv'
<1>1. \E m \in {"picked", "elsewhere"} : savedModel' = [savedModel EXCEPT ![h] = m]
  BY DEF Pick
<1>2. UNCHANGED <<connected, recorded, part, pushRun, landed, forgone>>
  BY DEF Pick
<1> USE DEF OwedInv
<1>3. PushTypeOK'
  BY <1>1, <1>2, SMT DEF PushTypeOK, Models
<1>4. LandedInv'
  BY <1>1, <1>2 DEF LandedInv, Repeats, PushTypeOK
<1>5. ClaimInv' /\ OneCarrier' /\ PushIsOwed'
  BY <1>2 DEF ClaimInv, OneCarrier, PushIsOwed, Carries
<1> QED BY <1>3, <1>4, <1>5

\* A harness that is planned without a push, over a record that stays or in which it
\* is passed over.
LEMMA PlannedKeeps ==
  ASSUME OwedInv, NEW r \in PushRuns, NEW h \in Harnesses, Planned(r, h, FALSE),
         UNCHANGED <<connected, savedModel, recorded, landed>>,
         \/ h \in Listing /\ part' = part /\ forgone' = forgone
         \/ Move(h, "owed", "done") /\ forgone' = forgone \cup {h}
  PROVE  OwedInv'
<1> USE DEF OwedInv
<1> DEFINE n == pushRun'[r]
<1>1. /\ pushRun[r] \in Run /\ n \in Run
      /\ pushRun' = [pushRun EXCEPT ![r] = n]
      /\ n.at = "read" /\ n.harness = h /\ n.carries = FALSE
      /\ n.selected = pushRun[r].selected
      /\ n.skipped = IF h \in Listing THEN pushRun[r].skipped ELSE pushRun[r].skipped \cup {h}
  BY PlannedRun
<1>2. pushRun[r].at = "plan" /\ pushRun[r] # Ended /\ ~pushRun[r].carries
      /\ pushRun[r].skipped \subseteq forgone /\ pushRun[r].selected = "router"
  BY <1>1, RunStages DEF Planned, ClaimInv
<1> HIDE DEF n
<1>3. /\ part' \in [Harnesses -> Parts]
      /\ \A g \in Harnesses : part'[g] = part[g] \/ (g = h /\ h \in forgone' /\ part'[h] = "done")
  BY SMT DEF Move, PushTypeOK, Parts
<1>4. \A q \in PushRuns : pushRun'[q] = IF q = r THEN n ELSE pushRun[q]
  BY <1>1 DEF PushTypeOK
<1>5. forgone \subseteq forgone' /\ n.skipped \subseteq forgone'
  BY <1>1, <1>2
<1>6. PushTypeOK'
  BY <1>1, <1>3 DEF PushTypeOK
<1>7. LandedInv'
  BY <1>1, <1>2, <1>4 DEF LandedInv, Repeats
<1>8. ClaimInv'
  BY <1>1, <1>2, <1>3, <1>4, <1>5 DEF ClaimInv
<1>9. \A q \in PushRuns, g \in Harnesses : Carries(q, g)' <=> Carries(q, g)
  BY <1>1, <1>2, <1>4 DEF Carries
<1>10. OneCarrier' /\ PushIsOwed'
  BY <1>3, <1>5, <1>9 DEF OneCarrier, PushIsOwed
<1> QED BY <1>6, <1>7, <1>8, <1>10

\* The parts after a claim: the claimed one is done, and whoever starts the push marks
\* as done only those it has passed over.
LEMMA ClaimedParts ==
  ASSUME OwedInv, NEW r \in PushRuns, pushRun[r] \in Run, NEW h \in Harnesses,
         part' = [Shares(r) EXCEPT ![h] = "done"]
  PROVE  /\ part' \in [Harnesses -> Parts] /\ part'[h] = "done"
         /\ recorded => \A g \in Harnesses \ {h} : part'[g] = part[g]
         /\ ~recorded => \A g \in Harnesses \ {h} : part'[g] = "done" => g \in forgone
<1>1. pushRun[r].skipped \subseteq forgone
  BY RunStages DEF OwedInv, ClaimInv
<1>2. part \in [Harnesses -> Parts]
  BY DEF OwedInv, PushTypeOK
<1>3. CASE recorded
  BY <1>2, <1>3 DEF Shares, Parts
<1>4. CASE ~recorded
  <2> DEFINE s == [g \in Harnesses |-> IF g \in pushRun[r].skipped THEN "done"
                                       ELSE IF g \in pushRun[r].owed THEN "owed" ELSE "absent"]
  <2>1. part' = [s EXCEPT ![h] = "done"]
    BY <1>4 DEF Shares
  <2>2. s \in [Harnesses -> Parts]
    BY DEF Parts
  <2> QED BY <1>1, <1>4, <2>1, <2>2 DEF Parts
<1> QED BY <1>3, <1>4

\* A push is claimed by one run.
LEMMA ClaimKeeps ==
  ASSUME OwedInv, NEW r \in PushRuns, NEW h \in Harnesses, Claim(r, h)
  PROVE  OwedInv'
<1>0. /\ part' \in [Harnesses -> Parts] /\ part'[h] = "done"
      /\ recorded => \A g \in Harnesses \ {h} : part'[g] = part[g]
      /\ ~recorded => \A g \in Harnesses \ {h} : part'[g] = "done" => g \in forgone
  <2>1. part' = [Shares(r) EXCEPT ![h] = "done"]
    BY DEF Claim
  <2>2. pushRun[r] \in Run
    BY AtStage DEF Claim, Planned, OwedInv
  <2> QED BY <2>1, <2>2, ClaimedParts, Zenon
<1> USE DEF OwedInv
<1> DEFINE n == pushRun'[r]
<1>1. /\ pushRun[r] \in Run /\ n \in Run
      /\ pushRun' = [pushRun EXCEPT ![r] = n]
      /\ n.at = "read" /\ n.harness = h /\ n.carries = TRUE
      /\ n.selected = pushRun[r].selected /\ n.skipped = pushRun[r].skipped
  BY PlannedRun DEF Claim
<1>2. pushRun[r].at = "plan" /\ pushRun[r] # Ended /\ ~pushRun[r].carries
      /\ pushRun[r].skipped \subseteq forgone /\ pushRun[r].selected = "router"
  BY <1>1, RunStages DEF Claim, Planned, ClaimInv
<1> HIDE DEF n
<1>3. /\ recorded' = TRUE /\ UNCHANGED <<connected, savedModel, landed, forgone>>
      /\ ~recorded \/ part[h] = "owed"
  BY DEF Claim, pushHistory, Claimable
<1>5. \A q \in PushRuns : pushRun'[q] = IF q = r THEN n ELSE pushRun[q]
  BY <1>1 DEF PushTypeOK
<1>6. \A q \in PushRuns, g \in Harnesses :
        Carries(q, g) => recorded /\ part[g] = "done" /\ g # h
  BY <1>3 DEF Carries, ClaimInv
<1>7. \A q \in PushRuns, g \in Harnesses :
        Carries(q, g)' <=> Carries(q, g) \/ (q = r /\ g = h)
  BY <1>1, <1>2, <1>5, RunStages DEF Carries
<1>8. PushTypeOK'
  BY <1>1, <1>3, <1>0 DEF PushTypeOK
<1>9. LandedInv'
  BY <1>1, <1>2, <1>3, <1>5 DEF LandedInv, Repeats
<1>10. ClaimInv'
  <2>1. \A q \in PushRuns : q # r /\ pushRun[q] # Ended /\ pushRun[q].carries =>
          recorded' /\ part'[pushRun[q].harness] = "done"
    BY <1>3, <1>0 DEF ClaimInv
  <2> QED BY <1>1, <1>2, <1>3, <1>0, <1>5, <2>1 DEF ClaimInv
<1>11. OneCarrier'
  BY <1>6, <1>7 DEF OneCarrier
<1>12. PushIsOwed'
  BY <1>3, <1>0, <1>7 DEF PushIsOwed
<1> QED BY <1>8, <1>9, <1>10, <1>11, <1>12

\* A push handed back is owed again.
LEMMA ReleaseKeeps ==
  ASSUME OwedInv, NEW r \in PushRuns, Release(r)
  PROVE  OwedInv'
<1> USE DEF OwedInv
<1> DEFINE n == NextClient(pushRun[r])  h == pushRun[r].harness
<1>1. /\ pushRun[r] \in Run /\ pushRun[r] # Ended /\ pushRun' = [pushRun EXCEPT ![r] = n]
      /\ UNCHANGED <<connected, savedModel, recorded, landed, forgone>>
  BY AtStage, RunStages DEF Release, pushHistory
<1>2. /\ pushRun[r].carries /\ h \in Harnesses /\ pushRun[r].skipped \subseteq forgone
      /\ recorded /\ part[h] = "done"
  BY <1>1 DEF Release, ClaimInv
<1>3. \/ n = Ended
      \/ /\ n \in Run /\ n.at = "plan" /\ n.carries = FALSE
         /\ n.skipped = pushRun[r].skipped /\ n.selected = "router"
  BY <1>1, NextRun
<1> HIDE DEF n
<1>4. part' = [part EXCEPT ![h] = "owed"]
  BY <1>2 DEF Release, Move
<1>5. \A q \in PushRuns : pushRun'[q] = IF q = r THEN n ELSE pushRun[q]
  BY <1>1 DEF PushTypeOK
<1>6. \A q \in PushRuns, g \in Harnesses : Carries(q, g)' <=> Carries(q, g) /\ q # r
  BY <1>1, <1>3, <1>5 DEF Carries
<1>7. \A q \in PushRuns, g \in Harnesses : Carries(q, g) /\ q # r => g # h
  BY <1>1, <1>2 DEF OneCarrier, Carries
<1>8. PushTypeOK'
  BY <1>1, <1>3, <1>4 DEF PushTypeOK, Parts
<1>9. LandedInv'
  BY <1>1, <1>3, <1>5, RunStages DEF LandedInv, Repeats
<1>10. ClaimInv'
  <2>1. \A q \in PushRuns : q # r /\ pushRun[q] # Ended /\ pushRun[q].carries =>
          pushRun[q].harness \in Harnesses /\ part[pushRun[q].harness] = "done"
    BY DEF ClaimInv
  <2>2. \A q \in PushRuns : q # r /\ pushRun[q] # Ended /\ pushRun[q].carries =>
          part'[pushRun[q].harness] = "done"
    BY <1>4, <1>7, <2>1 DEF Carries, PushTypeOK
  <2> QED BY <1>1, <1>2, <1>3, <1>5, <2>2 DEF ClaimInv
<1>11. OneCarrier'
  BY <1>6 DEF OneCarrier
<1>12. PushIsOwed'
  <2>1. \A g \in Harnesses : part'[g] = "done" => g # h /\ part[g] = "done"
    BY <1>2, <1>4 DEF PushTypeOK
  <2>2. \A g \in Harnesses \ {h} : ~Carries(r, g)
    BY DEF Carries
  <2> QED BY <1>1, <1>6, <2>1, <2>2 DEF PushIsOwed
<1> QED BY <1>8, <1>9, <1>10, <1>11, <1>12

\* Nothing is recorded at the start.
LEMMA PushInitially == PushInit => OwedInv
<1> SUFFICES ASSUME PushInit PROVE OwedInv
  OBVIOUS
<1>1. PushTypeOK
  <2>1. connected \subseteq Harnesses
    BY DEF PushInit
  <2>2. savedModel \in [Harnesses -> Models] /\ part \in [Harnesses -> Parts]
    BY DEF PushInit, NoRecord, Parts, Models
  <2>3. recorded \in BOOLEAN /\ pushRun \in [PushRuns -> Run \cup {Ended}]
    BY Zenon DEF PushInit
  <2> QED BY <2>1, <2>2, <2>3 DEF PushTypeOK
<1>2. \A r \in PushRuns : pushRun[r] = Ended
  BY DEF PushInit
<1>3. LandedInv /\ ClaimInv /\ OneCarrier
  BY <1>2, RunStages DEF PushInit, LandedInv, ClaimInv, OneCarrier, Repeats, Carries
<1>4. PushIsOwed
  BY DEF PushInit, PushIsOwed, NoRecord
<1> QED BY <1>1, <1>3, <1>4 DEF OwedInv

\* Every step of a run, and every pick, keeps what is owed.
LEMMA PushSteps == OwedInv /\ [PushNext]_pushVars => OwedInv'
<1> SUFFICES ASSUME OwedInv, [PushNext]_pushVars PROVE OwedInv'
  OBVIOUS
<1>1. ASSUME NEW r \in PushRuns, NEW kind \in {"configure", "refresh"},
             NEW todo \in Selections \cup {connected}, Start(r, kind, todo)
      PROVE  OwedInv'
  BY <1>1, StartKeeps
<1>2. ASSUME NEW r \in PushRuns, NEW h \in Harnesses, PassOver(r, h) PROVE OwedInv'
  BY <1>2, PlannedKeeps DEF PassOver
<1>3. ASSUME NEW r \in PushRuns, NEW h \in Harnesses, Claim(r, h) PROVE OwedInv'
  BY <1>3, ClaimKeeps
<1>4. ASSUME NEW r \in PushRuns, NEW h \in Harnesses, NoPush(r, h) PROVE OwedInv'
  BY <1>4, PlannedKeeps DEF NoPush, pushHistory
<1>5. ASSUME NEW r \in PushRuns,
             \/ ReadSelection(r) \/ WriteClient(r) \/ WriteFails(r)
             \/ Settle(r) \/ Release(r) \/ KillRun(r)
      PROVE  OwedInv'
  BY <1>5, ReadSelectionKeeps, WriteClientKeeps, WriteFailsKeeps, SettleKeeps,
     ReleaseKeeps, KillRunKeeps
<1>6. ASSUME NEW h \in Harnesses, Pick(h) PROVE OwedInv'
  BY <1>6, PickKeeps
<1>7. CASE UNCHANGED pushVars
  BY <1>7 DEF pushVars, pushHistory, OwedInv, PushTypeOK, LandedInv, ClaimInv, OneCarrier,
             PushIsOwed, Carries, Repeats
<1> QED BY <1>1, <1>2, <1>3, <1>4, <1>5, <1>6, <1>7 DEF PushNext

\* PushSpec => []OwedInv: the parts, the claims and the models agree, for any number
\* of runs and harnesses, whichever writes fail and whichever runs are killed.
THEOREM PushInductive == PushSpec => []OwedInv
BY PushInitially, PushSteps, PTL DEF PushSpec

\* PushSpec => []PushIsOwed: no harness's push is lost (_SwitchyardPush.settle).
THEOREM PushNotLost == PushSpec => []PushIsOwed
<1>1. OwedInv => PushIsOwed
  BY DEF OwedInv
<1> QED BY <1>1, PushInductive, PTL

-----------------------------------------------------------------------------
(* The push is never repeated over an answer: PushInv, for two runs.        *)

\* At most two runs at once.
TwoRuns == \A r, q, s \in PushRuns : r = q \/ q = s \/ r = s

\* Before the push has started nothing has been taken.
LEMMA UntakenBefore ==
  ASSUME OwedInv, ~recorded, NEW h \in Harnesses
  PROVE  Untaken(h)
BY DEF OwedInv, LandedInv, Untaken

\* What is answered is not untaken for an owed or carried push: the invariant after a
\* step that moves one run and leaves the models alone.
LEMMA MovedUntaken ==
  ASSUME PushInv, NEW r \in PushRuns, NEW n \in Run \cup {Ended},
         pushRun' = [pushRun EXCEPT ![r] = n],
         UNCHANGED <<savedModel, landed, answered>>,
         \A h \in Harnesses : part'[h] = "owed" => Untaken(h) /\ h \notin answered,
         n # Ended /\ n.at = "write" /\ n.selected = "switchyard" =>
           savedModel[n.harness] = "switchyard",
         \A h \in Harnesses :
           n # Ended /\ n.carries /\ n.harness = h => Untaken(h) /\ h \notin answered
  PROVE  UntakenInv' /\ AnsweredInv'
<1>1. \A q \in PushRuns : pushRun'[q] = IF q = r THEN n ELSE pushRun[q]
  BY DEF PushInv, OwedInv, PushTypeOK
<1>2. \A h \in Harnesses : Untaken(h) => Untaken(h)'
  BY <1>1, RunStages DEF Untaken, Repeats
<1>3. \A q \in PushRuns, h \in Harnesses :
        Carries(q, h)' => \/ q = r /\ Untaken(h) /\ h \notin answered
                          \/ q # r /\ Carries(q, h) /\ pushRun'[q] = pushRun[q]
  BY <1>1 DEF Carries
<1>4. UntakenInv'
  BY <1>2, <1>3 DEF UntakenInv, PushInv
<1>5. AnsweredInv'
  BY <1>3 DEF AnsweredInv, PushInv
<1> QED BY <1>4, <1>5

\* A run that starts has read no model.
LEMMA StartUntaken ==
  ASSUME PushInv, NEW r \in PushRuns, NEW kind \in {"configure", "refresh"},
         NEW todo \in Selections \cup {connected}, Start(r, kind, todo)
  PROVE  UntakenInv' /\ AnsweredInv'
<1> DEFINE n == [at |-> "plan", kind |-> kind, todo |-> todo, owed |-> todo \cup connected,
                 skipped |-> {}, carries |-> FALSE, harness |-> "none", selected |-> "router"]
<1>1. n \in Run
  BY SMT DEF Run, Models, PushInv, OwedInv, PushTypeOK
<1>2. pushRun' = [pushRun EXCEPT ![r] = n] /\ UNCHANGED <<savedModel, part, landed, answered>>
  BY DEF Start, pushHistory
<1>3. n.at = "plan" /\ n.carries = FALSE
  OBVIOUS
<1>4. \A h \in Harnesses : part'[h] = "owed" => Untaken(h) /\ h \notin answered
  BY <1>2 DEF PushInv, UntakenInv, AnsweredInv
<1> HIDE DEF n
<1> QED BY <1>1, <1>2, <1>3, <1>4, MovedUntaken

\* A run that has not written puts nothing back.
LEMMA PlannedUntaken ==
  ASSUME PushInv, NEW r \in PushRuns, NEW h \in Harnesses,
         PassOver(r, h) \/ Claim(r, h) \/ NoPush(r, h)
  PROVE  UntakenInv' /\ AnsweredInv'
<1>1. PICK c \in BOOLEAN : Planned(r, h, c) /\ (c => Claim(r, h))
  BY Zenon DEF PassOver, Claim, NoPush
<1>2. OwedInv /\ PushTypeOK
  BY DEF PushInv, OwedInv
<1> DEFINE n == pushRun'[r]
<1>3. /\ pushRun[r] \in Run /\ n \in Run /\ pushRun' = [pushRun EXCEPT ![r] = n]
      /\ n.at = "read" /\ n.harness = h /\ n.carries = c
  <2>1. Planned(r, h, c) /\ c \in BOOLEAN
    BY <1>1
  <2>2. CASE c = TRUE
    BY <1>2, <2>1, <2>2, PlannedRun
  <2>3. CASE c = FALSE
    BY <1>2, <2>1, <2>3, PlannedRun
  <2> QED BY <2>1, <2>2, <2>3
<1> HIDE DEF n
<1>4. UNCHANGED <<savedModel, landed, answered>>
  BY DEF PassOver, Claim, NoPush, pushHistory
<1>5. Claim(r, h) => Untaken(h) /\ h \notin answered
  <2>1. Claimable(h) => ~recorded \/ part[h] = "owed"
    BY DEF Claimable
  <2>2. ~recorded => Untaken(h)
    BY <1>2, UntakenBefore
  <2>3. ~recorded => h \notin answered
    BY <1>2 DEF PushInv, AnsweredInv, OwedInv, LandedInv
  <2> QED BY <2>1, <2>2, <2>3 DEF Claim, PushInv, UntakenInv, AnsweredInv
<1>6. \A g \in Harnesses : part'[g] = "owed" => ~recorded \/ part[g] = "owed"
  <2>1. CASE Claim(r, h)
    BY <1>2, <1>3, <2>1, ClaimedParts DEF Claim
  <2>2. CASE NoPush(r, h)
    BY <2>2 DEF NoPush
  <2>3. CASE PassOver(r, h)
    BY <1>2, <2>3 DEF PassOver, Move, PushTypeOK
  <2> QED BY <2>1, <2>2, <2>3
<1>7. \A g \in Harnesses : part'[g] = "owed" => Untaken(g) /\ g \notin answered
  <2>1. \A g \in Harnesses : ~recorded => Untaken(g) /\ g \notin answered
    BY <1>2, UntakenBefore DEF PushInv, AnsweredInv, OwedInv, LandedInv
  <2> QED BY <1>6, <2>1 DEF PushInv, UntakenInv, AnsweredInv
<1> QED BY <1>1, <1>3, <1>4, <1>5, <1>7, MovedUntaken

\* A run that reads, settles or hands back makes no model the pushed one.
LEMMA MovesUntaken ==
  ASSUME PushInv, NEW r \in PushRuns,
         ReadSelection(r) \/ Settle(r) \/ Release(r) \/ KillRun(r)
  PROVE  UntakenInv' /\ AnsweredInv'
<1>1. OwedInv /\ PushTypeOK /\ ClaimInv
  BY DEF PushInv, OwedInv
<1>2. \A h \in Harnesses : part[h] = "owed" => Untaken(h) /\ h \notin answered
  BY DEF PushInv, UntakenInv, AnsweredInv
<1>3. \A h \in Harnesses : Carries(r, h) => h \notin answered
  BY DEF PushInv, AnsweredInv
<1>4. CASE ReadSelection(r)
  <2> DEFINE n == pushRun'[r]
  <2>1. /\ pushRun[r] \in Run /\ n \in Run
        /\ pushRun' = [pushRun EXCEPT ![r] = n]
        /\ n.at = "write" /\ n.harness = pushRun[r].harness
        /\ n.carries = pushRun[r].carries
        /\ n.selected = IF pushRun[r].kind = "configure" THEN pushRun[r].selected
                        ELSE savedModel[pushRun[r].harness]
    BY <1>1, <1>4, ReadRun
  <2>2. pushRun[r].at = "read" /\ UNCHANGED <<savedModel, part, landed, answered>>
    BY <1>4 DEF ReadSelection, pushHistory
  <2>3. pushRun[r].selected = "router" /\ pushRun[r] # Ended
    BY <1>1, <2>1, <2>2, RunStages DEF ClaimInv
  <2> HIDE DEF n
  <2>4. \A h \in Harnesses : n.carries /\ n.harness = h => Carries(r, h)
    BY <2>1, <2>3 DEF Carries
  <2>5. \A h \in Harnesses : Carries(r, h) => Untaken(h)
    BY <2>2 DEF PushInv, UntakenInv
  <2> QED BY <1>2, <1>3, <2>1, <2>2, <2>3, <2>4, <2>5, MovedUntaken
<1>5. CASE Settle(r) /\ pushRun[r].carries /\ ~Held(pushRun[r])
  <2> DEFINE n == [pushRun[r] EXCEPT !.at = "release"]
  <2>1. pushRun[r].at = "settle" /\ pushRun[r] \in Run /\ pushRun[r] # Ended
        /\ UNCHANGED <<savedModel, part, landed, answered>>
    BY <1>1, <1>5, AtStage, RunStages DEF Settle, pushHistory
  <2>2. n = Staged(pushRun[r], "release", pushRun[r].todo)
    BY <2>1, Zenon DEF Run, Staged
  <2>3. pushRun[r].todo \in SUBSET Harnesses
    BY <2>1, Zenon DEF Run
  <2>4. pushRun' = [pushRun EXCEPT ![r] = n]
    BY <1>5 DEF Settle
  <2> HIDE DEF n
  <2>5. /\ n \in Run /\ n.at = "release" /\ n.harness = pushRun[r].harness
        /\ n.carries = pushRun[r].carries
    BY <2>1, <2>2, <2>3, StagedRun
  <2>6. \A h \in Harnesses : n.harness = h => Carries(r, h) /\ savedModel[h] # "switchyard"
    BY <1>5, <2>1, <2>5 DEF Carries, Held
  <2>7. \A h \in Harnesses : n.harness = h => Untaken(h)
    BY <2>6 DEF PushInv, UntakenInv
  <2> QED BY <1>2, <1>3, <2>1, <2>4, <2>5, <2>6, <2>7, MovedUntaken
<1>6. ASSUME NEW n \in Run \cup {Ended}, pushRun' = [pushRun EXCEPT ![r] = n],
             n # Ended => n.at = "plan" /\ n.carries = FALSE,
             UNCHANGED <<savedModel, landed, answered>>,
             \A h \in Harnesses : part'[h] = "owed" => Untaken(h) /\ h \notin answered
      PROVE  UntakenInv' /\ AnsweredInv'
  BY <1>6, MovedUntaken
<1>7. CASE Settle(r) /\ ~(pushRun[r].carries /\ ~Held(pushRun[r]))
  <2> DEFINE n == NextClient(pushRun[r])
  <2>1. pushRun[r] \in Run /\ UNCHANGED <<savedModel, part, landed, answered>>
    BY <1>1, <1>7, AtStage DEF Settle, pushHistory
  <2>2. pushRun' = [pushRun EXCEPT ![r] = n]
    BY <1>7 DEF Settle
  <2>3. \/ n = Ended
        \/ n \in Run /\ n.at = "plan" /\ n.carries = FALSE
    BY <2>1, NextRun
  <2> HIDE DEF n
  <2> QED BY <1>2, <1>6, <2>1, <2>2, <2>3
<1>8. CASE Release(r)
  <2> DEFINE n == NextClient(pushRun[r])  h == pushRun[r].harness
  <2>1. /\ pushRun[r] \in Run /\ pushRun[r] # Ended /\ pushRun[r].at = "release"
        /\ pushRun' = [pushRun EXCEPT ![r] = n]
        /\ UNCHANGED <<savedModel, landed, answered>>
    BY <1>1, <1>8, AtStage, RunStages DEF Release, pushHistory
  <2>2. pushRun[r].carries /\ h \in Harnesses
    BY <1>1, <2>1 DEF ClaimInv
  <2>3. Carries(r, h)
    BY <2>1, <2>2 DEF Carries
  <2>4. Untaken(h) /\ h \notin answered
    BY <1>3, <2>1, <2>2, <2>3 DEF PushInv, UntakenInv
  <2>5. \A g \in Harnesses : part'[g] = "owed" => part[g] = "owed" \/ g = h
    BY <1>1, <1>8 DEF Release, Move, PushTypeOK
  <2>6. \/ n = Ended
        \/ n \in Run /\ n.at = "plan" /\ n.carries = FALSE
    BY <2>1, NextRun
  <2> HIDE DEF n, h
  <2> QED BY <1>2, <1>6, <2>1, <2>4, <2>5, <2>6
<1>9. CASE KillRun(r)
  <2>1. pushRun' = [pushRun EXCEPT ![r] = Ended]
        /\ UNCHANGED <<savedModel, part, landed, answered>>
    BY <1>9 DEF KillRun
  <2> QED BY <1>2, <1>6, <2>1
<1> QED BY <1>4, <1>5, <1>7, <1>8, <1>9

\* Where the push is untaken, a write that does not carry it leaves it untaken.
LEMMA WrittenUntaken ==
  ASSUME NEW r \in PushRuns, pushRun[r].at = "write", ~pushRun[r].carries,
         Untaken(pushRun[r].harness)
  PROVE  ModelWritten(pushRun[r]) # "switchyard"
BY DEF ModelWritten, Untaken, Repeats

\* What is answered or untaken after one run has written, or failed to.
LEMMA WroteUntaken ==
  ASSUME PushInv, TwoRuns, NEW r \in PushRuns, NEW n \in Run \cup {Ended},
         pushRun[r].at = "write",
         pushRun' = [pushRun EXCEPT ![r] = n],
         n # Ended => n.at # "write",
         n # Ended /\ n.carries => /\ pushRun[r].carries /\ n.at = "settle"
                                   /\ n.harness = pushRun[r].harness,
         \/ savedModel' = savedModel
         \/ savedModel' = [savedModel EXCEPT ![pushRun[r].harness] = ModelWritten(pushRun[r])],
         UNCHANGED <<part, answered>>, landed \subseteq landed'
  PROVE  UntakenInv' /\ AnsweredInv'
<1> DEFINE h == pushRun[r].harness  m == ModelWritten(pushRun[r])
<1>1. /\ pushRun[r] # Ended /\ h \in Harnesses /\ savedModel \in [Harnesses -> Models]
      /\ pushRun \in [PushRuns -> Run \cup {Ended}]
  BY WrittenModel DEF PushInv, OwedInv, PushTypeOK
<1>2. \A q \in PushRuns : pushRun'[q] = IF q = r THEN n ELSE pushRun[q]
  BY <1>1
<1>3. \A q \in PushRuns, g \in Harnesses :
        Repeats(q, g)' => q # r /\ Repeats(q, g)
  BY <1>2, RunStages DEF Repeats
<1>4. \A q \in PushRuns, g \in Harnesses :
        Carries(q, g)' => /\ Carries(q, g)
                          /\ q = r => n # Ended /\ n.at = "settle" /\ g = h
                          /\ q # r => pushRun'[q] = pushRun[q]
  BY <1>1, <1>2 DEF Carries
<1>5. ASSUME NEW g \in Harnesses, Untaken(g),
             savedModel'[g] # "switchyard"
      PROVE  Untaken(g)'
  BY <1>3, <1>5 DEF Untaken
<1>6. ASSUME NEW g \in Harnesses, Untaken(g), g = h => ~pushRun[r].carries
      PROVE  Untaken(g)'
  <2>1. g = h => m # "switchyard"
    BY <1>6, WrittenUntaken
  <2>2. savedModel'[g] # "switchyard"
    BY <1>1, <1>6, <2>1 DEF Untaken
  <2> QED BY <1>5, <1>6, <2>2
<1>7. ASSUME NEW g \in Harnesses, part'[g] = "owed" PROVE Untaken(g)'
  <2>1. Untaken(g)
    BY <1>7 DEF PushInv, UntakenInv
  <2>2. g = h => ~pushRun[r].carries
    BY <1>1, <1>7 DEF PushInv, OwedInv, ClaimInv
  <2> QED BY <1>6, <2>1, <2>2
<1>8. ASSUME NEW g \in Harnesses, NEW q \in PushRuns, Carries(q, g)'
      PROVE  Untaken(g)' \/ (pushRun'[q].at = "settle" /\ savedModel'[g] = "switchyard")
  <2>1. Carries(q, g)
    BY <1>4, <1>8
  <2>2. CASE q = r
    <3>1. Untaken(g)
      BY <2>1, <2>2 DEF PushInv, UntakenInv
    <3>2. pushRun'[q].at = "settle"
      BY <1>2, <1>4, <1>8, <2>2
    <3> QED BY <1>5, <3>1, <3>2
  <2>3. CASE q # r /\ g # h
    <3>1. ASSUME Untaken(g) PROVE Untaken(g)'
      BY <1>6, <2>3, <3>1
    <3>2. savedModel'[g] = savedModel[g] /\ pushRun'[q] = pushRun[q]
      BY <1>1, <1>2, <2>3
    <3> QED BY <2>1, <3>1, <3>2 DEF PushInv, UntakenInv
  <2>4. CASE q # r /\ g = h
    <3>1. ~pushRun[r].carries
      BY <1>1, <2>1, <2>4 DEF PushInv, OwedInv, OneCarrier, Carries
    <3>2. CASE Untaken(g)
      BY <1>6, <3>1, <3>2
    <3>3. CASE pushRun[q].at = "settle" /\ savedModel[g] = "switchyard"
      <4>1. pushRun'[q].at = "settle"
        BY <1>2, <2>4, <3>3
      <4>2. \A s \in PushRuns : ~Repeats(s, g)'
        <5>1. \A s \in PushRuns : s = r \/ s = q
          BY <2>4 DEF TwoRuns
        <5>2. ~Repeats(q, g)
          BY <3>3 DEF Repeats
        <5> QED BY <1>3, <5>1, <5>2
      <4>3. savedModel'[g] = "switchyard" \/ Untaken(g)'
        BY <4>2 DEF Untaken
      <4> QED BY <4>1, <4>3
    <3> QED BY <2>1, <3>2, <3>3 DEF PushInv, UntakenInv
  <2> QED BY <2>2, <2>3, <2>4
<1>9. UntakenInv'
  BY <1>7, <1>8 DEF UntakenInv
<1>10. AnsweredInv'
  BY <1>4 DEF AnsweredInv, PushInv
<1> QED BY <1>9, <1>10

\* A write makes the model pushed, or repeats what was read.
LEMMA WriteUntaken ==
  ASSUME PushInv, TwoRuns, NEW r \in PushRuns, WriteClient(r) \/ WriteFails(r)
  PROVE  UntakenInv' /\ AnsweredInv'
<1>1. OwedInv /\ pushRun[r].at = "write"
  BY DEF PushInv, WriteClient, WriteFails
<1>2. pushRun[r] \in Run
  BY <1>1, WrittenModel
<1>3. CASE WriteClient(r)
  <2> DEFINE n == NextClient(pushRun[r])
  <2>1. /\ pushRun' = [pushRun EXCEPT ![r] = n]
        /\ savedModel' = [savedModel EXCEPT ![pushRun[r].harness] = ModelWritten(pushRun[r])]
        /\ UNCHANGED <<part, answered>> /\ landed \subseteq landed'
    BY <1>3 DEF WriteClient
  <2>2. n = Ended \/ (n \in Run /\ n.at = "plan" /\ n.carries = FALSE)
    BY <1>2, NextRun
  <2> HIDE DEF n
  <2> QED BY <1>1, <2>1, <2>2, WroteUntaken
<1>4. CASE WriteFails(r)
  <2>1. PICK lands \in BOOLEAN, interrupted \in BOOLEAN :
          /\ savedModel' = IF lands
               THEN [savedModel EXCEPT ![pushRun[r].harness] = ModelWritten(pushRun[r])]
               ELSE savedModel
          /\ landed \subseteq landed'
          /\ pushRun' = [pushRun EXCEPT ![r] =
               [pushRun[r] EXCEPT !.at = "settle", !.todo = IF interrupted THEN {} ELSE @]]
    BY <1>4 DEF WriteFails
  <2>2. UNCHANGED <<part, answered>>
    BY <1>4 DEF WriteFails
  <2> DEFINE t == IF interrupted THEN {} ELSE pushRun[r].todo
             n == Staged(pushRun[r], "settle", t)
  <2>3. t \in SUBSET Harnesses
    BY <1>2, Zenon DEF Run
  <2>4. pushRun' = [pushRun EXCEPT ![r] = n]
    BY <2>1 DEF Staged
  <2> HIDE DEF n, t
  <2>5. n = Staged(pushRun[r], "settle", t)
    BY DEF n
  <2>6. /\ n \in Run /\ n.at = "settle" /\ n.harness = pushRun[r].harness
        /\ n.carries = pushRun[r].carries
    BY <1>2, <2>3, <2>5, StagedRun
  <2> QED BY <1>1, <2>1, <2>2, <2>4, <2>6, WroteUntaken
<1> QED BY <1>3, <1>4

\* The user's pick is never the pushed model.
LEMMA PickUntaken ==
  ASSUME PushInv, NEW h \in Harnesses, Pick(h)
  PROVE  UntakenInv' /\ AnsweredInv'
<1>1. /\ \E m \in {"picked", "elsewhere"} : savedModel' = [savedModel EXCEPT ![h] = m]
      /\ \A r \in PushRuns : pushRun[r].at # "settle" \/ pushRun[r].harness # h
      /\ answered' = IF h \in landed /\ savedModel[h] = "switchyard"
                          /\ ~\E r \in PushRuns : Carries(r, h)
                     THEN answered \cup {h} ELSE answered
      /\ UNCHANGED <<part, pushRun, landed>>
  BY DEF Pick
<1>2. savedModel \in [Harnesses -> Models]
  BY DEF PushInv, OwedInv, PushTypeOK
<1>3. \A g \in Harnesses : /\ Untaken(g) => Untaken(g)'
                           /\ g # h => savedModel'[g] = savedModel[g]
  BY <1>1, <1>2 DEF Untaken, Repeats
<1>4. \A g \in Harnesses, r \in PushRuns : Carries(r, g)' <=> Carries(r, g)
  BY <1>1 DEF Carries
<1>5. UntakenInv'
  BY <1>1, <1>3, <1>4 DEF UntakenInv, PushInv, Carries
<1>6. savedModel[h] = "switchyard" => part[h] # "owed"
  BY DEF UntakenInv, PushInv, Untaken
<1>7. AnsweredInv'
  BY <1>1, <1>4, <1>6 DEF AnsweredInv, PushInv
<1> QED BY <1>5, <1>7

\* For two runs at once, whatever fails and whenever the user picks a model:
\* PushSpec => []NeverPushedOver.  A third run can break it, by a model that it has read
\* before a second one replaced it (_SwitchyardPush.settle, _holds_model).
THEOREM NoPushOverAnswer ==
  ASSUME TwoRuns
  PROVE  PushSpec => []NeverPushedOver
<1>1. PushInit => PushInv
  <2> SUFFICES ASSUME PushInit, PushInit => OwedInv PROVE PushInv
    BY PushInitially
  <2>1. UntakenInv
    BY RunStages DEF PushInit, UntakenInv, NoRecord, Carries
  <2>2. AnsweredInv
    BY DEF PushInit, AnsweredInv
  <2> QED BY <2>1, <2>2 DEF PushInv
<1>2. PushInv /\ [PushNext]_pushVars => PushInv'
  <2> SUFFICES ASSUME PushInv, [PushNext]_pushVars PROVE UntakenInv' /\ AnsweredInv'
    BY PushSteps DEF PushInv
  <2>1. ASSUME NEW r \in PushRuns, NEW kind \in {"configure", "refresh"},
               NEW todo \in Selections \cup {connected}, Start(r, kind, todo)
        PROVE  UntakenInv' /\ AnsweredInv'
    BY <2>1, StartUntaken
  <2>2. ASSUME NEW r \in PushRuns, NEW h \in Harnesses,
               PassOver(r, h) \/ Claim(r, h) \/ NoPush(r, h)
        PROVE  UntakenInv' /\ AnsweredInv'
    BY <2>2, PlannedUntaken
  <2>3. ASSUME NEW r \in PushRuns,
               \/ ReadSelection(r) \/ Settle(r) \/ Release(r) \/ KillRun(r)
               \/ WriteClient(r) \/ WriteFails(r)
        PROVE  UntakenInv' /\ AnsweredInv'
    BY <2>3, MovesUntaken, WriteUntaken
  <2>4. ASSUME NEW h \in Harnesses, Pick(h) PROVE UntakenInv' /\ AnsweredInv'
    BY <2>4, PickUntaken
  <2>5. CASE UNCHANGED pushVars
    BY <2>5 DEF pushVars, pushHistory, PushInv, UntakenInv, AnsweredInv, Untaken, Repeats, Carries
  <2> QED BY <2>1, <2>2, <2>3, <2>4, <2>5 DEF PushNext
<1>3. PushInv => NeverPushedOver
  BY DEF PushInv, OwedInv, OneCarrier, AnsweredInv, NeverPushedOver
<1> QED BY <1>1, <1>2, <1>3, PTL DEF PushSpec

-----------------------------------------------------------------------------
(* Claude Desktop: the documents and what a command makes of them.          *)

\* Documents by their fields.
LEMMA DocFields ==
  ASSUME NEW d \in DeskDocs
  PROVE  /\ d.receipt \in DeskReceipts /\ d.profile \in {"none", "edited"} \cup Endpoints
         /\ d.library \in Libraries /\ d.mode \in ModeDocs
         /\ d.library.listed \subseteq Profiles /\ d.library.applied \in Profiles \cup {"absent"}
         /\ d.mode.deployment \in Modes /\ d.mode.awaiting \in BOOLEAN
         /\ d["receipt"] = d.receipt /\ d["profile"] = d.profile
         /\ d["library"] = d.library /\ d["mode"] = d.mode
BY SMT DEF DeskDocs, Libraries, ModeDocs

\* Modes and libraries are told apart by their fields.
LEMMA SameMode ==
  ASSUME NEW m \in ModeDocs, NEW n \in ModeDocs
  PROVE  m = n <=> m.deployment = n.deployment /\ m.awaiting = n.awaiting
<1>1. m = [deployment |-> m.deployment, awaiting |-> m.awaiting]
  BY Zenon DEF ModeDocs
<1>2. n = [deployment |-> n.deployment, awaiting |-> n.awaiting]
  BY Zenon DEF ModeDocs
<1> QED BY <1>1, <1>2, Zenon

\* A library is its profiles and the one applied.
LEMMA SameLibrary ==
  ASSUME NEW l \in Libraries, NEW k \in Libraries
  PROVE  l = k <=> l.listed = k.listed /\ l.applied = k.applied
<1>1. l = [listed |-> l.listed, applied |-> l.applied]
  BY Zenon DEF Libraries
<1>2. k = [listed |-> k.listed, applied |-> k.applied]
  BY Zenon DEF Libraries
<1> QED BY <1>1, <1>2, Zenon

\* A mode with another deployment.
LEMMA ModeSet ==
  ASSUME NEW m \in ModeDocs, NEW x \in Modes
  PROVE  /\ [m EXCEPT !.deployment = x] = [deployment |-> x, awaiting |-> m.awaiting]
         /\ [m EXCEPT !.deployment = x] \in ModeDocs
<1>1. ASSUME NEW n, n = [m EXCEPT !.deployment = x]
      PROVE  n = [deployment |-> x, awaiting |-> m.awaiting]
  BY <1>1, Zenon DEF ModeDocs
<1>2. m.awaiting \in BOOLEAN
  BY Zenon DEF ModeDocs
<1>3. [deployment |-> x, awaiting |-> m.awaiting] \in ModeDocs
  BY <1>2, Zenon DEF ModeDocs
<1> QED BY <1>1, <1>3, Zenon

\* A receipt that is there, by its fields.
LEMMA ReceiptFields ==
  ASSUME NEW s \in DeskReceipts, s # NoSetup
  PROVE  s.mode \in ModeDocs /\ s.applied \in Profiles \cup {"absent"} /\ s.endpoint \in Endpoints
BY DEF DeskReceipts

\* A receipt as it is made.
LEMMA MadeReceipt ==
  ASSUME NEW m \in ModeDocs, NEW a \in Profiles \cup {"absent"}, NEW e \in Endpoints
  PROVE  /\ [at |-> "set", mode |-> m, applied |-> a, endpoint |-> e] \in DeskReceipts
         /\ [at |-> "set", mode |-> m, applied |-> a, endpoint |-> e] # NoSetup
<1>1. [at |-> "set", mode |-> m, applied |-> a, endpoint |-> e]
        \in [at : {"set"}, mode : ModeDocs, applied : Profiles \cup {"absent"},
             endpoint : Endpoints]
  BY SMT
<1>2. [at |-> "set", mode |-> m, applied |-> a, endpoint |-> e].at = "set"
  OBVIOUS
<1> QED BY <1>1, <1>2 DEF DeskReceipts, NoSetup

\* What a configure takes note of.
LEMMA SnapshotFields ==
  ASSUME NEW d, d.mode \in ModeDocs, d.library \in Libraries
  PROVE  /\ Snapshot(d) \in DeskReceipts /\ Snapshot(d) # NoSetup
         /\ Snapshot(d).applied = d.library.applied
         /\ Snapshot(d).mode \in ModeDocs
         /\ Snapshot(d).mode.awaiting = d.mode.awaiting
         /\ Snapshot(d).mode.deployment = IF d.mode.deployment = "3p" /\ ~Usable(d) THEN "absent"
                                          ELSE d.mode.deployment
<1> DEFINE dep == IF d.mode.deployment = "3p" /\ ~Usable(d) THEN "absent" ELSE d.mode.deployment
           m == [d.mode EXCEPT !.deployment = dep]
<1>1. dep \in Modes
  BY DEF ModeDocs, Modes
<1> HIDE DEF dep
<1>2. m = [deployment |-> dep, awaiting |-> d.mode.awaiting]
  BY <1>1, ModeSet
<1>3. m \in ModeDocs
  BY <1>1, ModeSet
<1>4. d.library.applied \in Profiles \cup {"absent"}
  BY DEF Libraries
<1>5. Snapshot(d) = [at |-> "set", mode |-> m, applied |-> d.library.applied,
                     endpoint |-> "direct"]
  BY Zenon DEF Snapshot, dep
<1> HIDE DEF m
<1>6. Snapshot(d) \in DeskReceipts /\ Snapshot(d) # NoSetup
  BY <1>3, <1>4, <1>5, SMT DEF DeskReceipts, Endpoints, NoSetup
<1> QED BY <1>2, <1>3, <1>5, <1>6 DEF dep

\* The receipt of a configure.
LEMMA ReceiptWritten ==
  ASSUME NEW d \in DeskDocs, NEW e \in Endpoints, NEW s, s = [FirstSnapshot(d) EXCEPT !.endpoint = e]
  PROVE  /\ s \in DeskReceipts /\ s # NoSetup
         /\ s.applied = FirstSnapshot(d).applied /\ s.mode = FirstSnapshot(d).mode
<1> DEFINE f == FirstSnapshot(d)
<1>1. f \in [at : {"set"}, mode : ModeDocs, applied : Profiles \cup {"absent"}, endpoint : Endpoints]
  BY DocFields, SnapshotFields DEF FirstSnapshot, DeskReceipts
<1> HIDE DEF f
<1>2. s = [at |-> f.at, mode |-> f.mode, applied |-> f.applied, endpoint |-> e]
  <2>1. s = [f EXCEPT !.endpoint = e]
    BY DEF f
  <2> QED BY <1>1, <2>1, Zenon
<1>3. f.at = "set" /\ f.mode \in ModeDocs /\ f.applied \in Profiles \cup {"absent"}
  BY <1>1
<1>4. s \in DeskReceipts /\ s # NoSetup
  <2>1. s = [at |-> "set", mode |-> f.mode, applied |-> f.applied, endpoint |-> e]
    BY <1>2, <1>3, Zenon
  <2>2. f.mode \in ModeDocs /\ f.applied \in Profiles \cup {"absent"}
    BY <1>3
  <2> DEFINE w == [at |-> "set", mode |-> f.mode, applied |-> f.applied, endpoint |-> e]
  <2>3. w \in DeskReceipts /\ w # NoSetup
    BY <2>2, MadeReceipt, Zenon
  <2>4. s = w
    BY <2>1
  <2> HIDE DEF w
  <2> QED BY <2>3, <2>4
<1> QED BY <1>2, <1>4 DEF f

\* Documents as they are made.
LEMMA MadeDocs ==
  ASSUME NEW s \in DeskReceipts, NEW p \in {"none", "edited"} \cup Endpoints,
         NEW l \in Libraries, NEW m \in ModeDocs,
         NEW t, t = [receipt |-> s, profile |-> p, library |-> l, mode |-> m]
  PROVE  t \in DeskDocs /\ t.receipt = s /\ t.profile = p /\ t.library = l /\ t.mode = m
BY SMT DEF DeskDocs

\* A library and a mode as they are made.
LEMMA MadeLibrary ==
  ASSUME NEW s \in SUBSET Profiles, NEW a \in Profiles \cup {"absent"},
         NEW l, l = [listed |-> s, applied |-> a]
  PROVE  l \in Libraries /\ l.listed = s /\ l.applied = a
BY SMT DEF Libraries

\* A mode document.
LEMMA MadeMode ==
  ASSUME NEW x \in Modes, NEW y \in BOOLEAN, NEW m, m = [deployment |-> x, awaiting |-> y]
  PROVE  m \in ModeDocs /\ m.deployment = x /\ m.awaiting = y
<1>1. m \in ModeDocs
  BY Zenon DEF ModeDocs
<1>2. m.deployment = x
  BY Zenon
<1>3. m.awaiting = y
  BY Zenon
<1> QED BY <1>1, <1>2, <1>3

\* What a configure writes.
LEMMA ConfiguredFields ==
  ASSUME NEW d \in DeskDocs, NEW e \in Endpoints, NEW t, t = ConfiguredDocs(d, e)
  PROVE  /\ t \in DeskDocs /\ t.receipt # NoSetup
         /\ t.receipt.applied = FirstSnapshot(d).applied /\ t.receipt.mode = FirstSnapshot(d).mode
         /\ t.profile = e
         /\ t.library.listed = d.library.listed \cup {Ours} /\ t.library.applied = Ours
         /\ t.mode.deployment = "3p" /\ ~t.mode.awaiting
<1> DEFINE s == [FirstSnapshot(d) EXCEPT !.endpoint = e]
           l == [listed |-> d.library.listed \cup {Ours}, applied |-> Ours]
           m == [deployment |-> "3p", awaiting |-> FALSE]
<1>1. /\ s \in DeskReceipts /\ s # NoSetup
      /\ s.applied = FirstSnapshot(d).applied /\ s.mode = FirstSnapshot(d).mode
  BY ReceiptWritten
<1>2. l \in Libraries /\ l.listed = d.library.listed \cup {Ours} /\ l.applied = Ours
  BY DocFields, MadeLibrary DEF Profiles
<1>3. m \in ModeDocs /\ m.deployment = "3p" /\ m.awaiting = FALSE
  BY MadeMode DEF Modes
<1>4. t = [receipt |-> s, profile |-> e, library |-> l, mode |-> m]
  BY DEF ConfiguredDocs
<1> HIDE DEF s, l, m
<1>5. t \in DeskDocs /\ t.receipt = s /\ t.profile = e /\ t.library = l /\ t.mode = m
  BY <1>1, <1>2, <1>3, <1>4, MadeDocs
<1> QED BY <1>1, <1>2, <1>3, <1>5

\* The deployment that a removal restores, before it looks at what is left to apply.
DeploymentBefore(d) ==
  IF StillApplied(d) /\ d.mode.deployment = "3p" THEN d.receipt.mode.deployment
  ELSE d.mode.deployment

\* What a removal writes.
LEMMA UnconfiguredFields ==
  ASSUME NEW d \in DeskDocs, d.receipt # NoSetup, NEW t \in Unconfigured(d)
  PROVE  /\ t \in DeskDocs /\ t.receipt = NoSetup /\ t.profile = "none"
         /\ t.library.listed = d.library.listed \ {Ours}
         /\ IF StillApplied(d)
            THEN t.library.applied \in AppliedBefore(d.receipt.applied, t.library.listed)
            ELSE t.library.applied = d.library.applied
         /\ t.mode.awaiting = (d.mode.awaiting \/ (StillApplied(d) /\ d.receipt.mode.awaiting))
         /\ t.mode.deployment = IF DeploymentBefore(d) = "3p" /\ ~Usable(t) THEN "absent"
                                ELSE DeploymentBefore(d)
<1> DEFINE listed == d.library.listed \ {Ours}
           applied == IF StillApplied(d) THEN AppliedBefore(d.receipt.applied, listed)
                      ELSE {d.library.applied}
<1>1. PICK l \in [listed : {listed}, applied : applied] :
        t = [receipt |-> NoSetup, profile |-> "none", library |-> l,
             mode |-> ModeWith(ModeBefore(d), l)]
  BY DEF Unconfigured
<1>2. d.receipt.mode \in ModeDocs /\ d.receipt.applied \in Profiles \cup {"absent"}
  BY DocFields, ReceiptFields
<1>3. l \in Libraries /\ l.listed = listed /\ l.applied \in applied
  <2>1. l.listed = listed /\ l.applied \in applied
    OBVIOUS
  <2>2. listed \subseteq Profiles /\ applied \subseteq Profiles \cup {"absent"}
    BY <1>2, DocFields DEF AppliedBefore
  <2>3. l = [listed |-> l.listed, applied |-> l.applied]
    BY Zenon
  <2> HIDE DEF listed, applied
  <2>4. l.listed \in SUBSET Profiles /\ l.applied \in Profiles \cup {"absent"}
    BY <2>1, <2>2
  <2>5. l \in Libraries
    BY <2>3, <2>4, SMT DEF Libraries
  <2> QED BY <2>1, <2>5
<1> DEFINE b == ModeBefore(d)  m == ModeWith(b, l)
<1>4. /\ b \in ModeDocs /\ b.deployment = DeploymentBefore(d)
      /\ b.awaiting = (d.mode.awaiting \/ (StillApplied(d) /\ d.receipt.mode.awaiting))
  <2>1. d.mode.awaiting \in BOOLEAN /\ d.mode.deployment \in Modes /\ d.mode \in ModeDocs
    BY DocFields
  <2>2. d.receipt.mode.awaiting \in BOOLEAN /\ d.receipt.mode.deployment \in Modes
    BY <1>2 DEF ModeDocs
  <2>3. CASE ~StillApplied(d)
    BY <2>1, <2>3 DEF ModeBefore, DeploymentBefore
  <2>4. CASE StillApplied(d)
    <3> DEFINE x == IF d.mode.deployment = "3p" THEN d.receipt.mode.deployment
                    ELSE d.mode.deployment
               y == d.mode.awaiting \/ d.receipt.mode.awaiting
    <3>1. b = [deployment |-> x, awaiting |-> y]
      BY <2>4 DEF ModeBefore
    <3>2. x \in Modes /\ y \in BOOLEAN
      BY <2>1, <2>2
    <3>3. x = DeploymentBefore(d) /\ y = (d.mode.awaiting \/ (StillApplied(d) /\ d.receipt.mode.awaiting))
      BY <2>4 DEF DeploymentBefore
    <3> HIDE DEF x, y, b
    <3>4. b \in ModeDocs /\ b.deployment = x /\ b.awaiting = y
      BY <3>1, <3>2, MadeMode
    <3> QED BY <3>3, <3>4
  <2> QED BY <2>3, <2>4
<1> HIDE DEF b
<1>5. /\ m \in ModeDocs /\ m.awaiting = b.awaiting
      /\ m.deployment = IF b.deployment = "3p" /\ ~(l.applied \in l.listed) THEN "absent"
                        ELSE b.deployment
  <2>1. CASE b.deployment = "3p" /\ ~(l.applied \in l.listed)
    <3>1. m = [b EXCEPT !.deployment = "absent"]
      BY <2>1 DEF ModeWith
    <3>2. "absent" \in Modes
      BY DEF Modes
    <3>3. m \in ModeDocs /\ m = [deployment |-> "absent", awaiting |-> b.awaiting]
      BY <1>4, <3>1, <3>2, ModeSet
    <3> QED BY <2>1, <3>3
  <2>2. CASE ~(b.deployment = "3p" /\ ~(l.applied \in l.listed))
    BY <1>4, <2>2 DEF ModeWith
  <2> QED BY <2>1, <2>2
<1> HIDE DEF m
<1>6. t = [receipt |-> NoSetup, profile |-> "none", library |-> l, mode |-> m]
  BY <1>1 DEF m, b
<1>7. NoSetup \in DeskReceipts
  BY DEF DeskReceipts
<1>8. t \in DeskDocs /\ t.receipt = NoSetup /\ t.profile = "none" /\ t.library = l /\ t.mode = m
  BY <1>3, <1>5, <1>6, <1>7, MadeDocs
<1> QED BY <1>3, <1>4, <1>5, <1>8 DEF Usable

\* What a migration writes.
LEMMA MigratedFields ==
  ASSUME NEW d \in DeskDocs, Owned(d), NEW e \in Endpoints, NEW t, t = Migrated(d, e)
  PROVE  /\ t \in DeskDocs /\ t.receipt # NoSetup
         /\ t.receipt.applied = d.receipt.applied /\ t.receipt.mode = d.receipt.mode
         /\ t.profile = e /\ t.library = d.library /\ t.mode = d.mode
<1>1. d.receipt # NoSetup /\ d.receipt \in DeskReceipts
  BY DocFields DEF Owned
<1>2. d.receipt.mode \in ModeDocs /\ d.receipt.applied \in Profiles \cup {"absent"}
  BY <1>1, ReceiptFields
<1> DEFINE s == [d.receipt EXCEPT !.endpoint = e]
<1>3. s = [at |-> "set", mode |-> d.receipt.mode, applied |-> d.receipt.applied, endpoint |-> e]
  <2>1. ASSUME NEW r \in [at : {"set"}, mode : ModeDocs, applied : Profiles \cup {"absent"},
                          endpoint : Endpoints],
               NEW n, n = [r EXCEPT !.endpoint = e]
        PROVE  n = [at |-> "set", mode |-> r.mode, applied |-> r.applied, endpoint |-> e]
    <3>1. n = [at |-> r.at, mode |-> r.mode, applied |-> r.applied, endpoint |-> e]
      BY <2>1, Zenon
    <3>2. r.at = "set"
      OBVIOUS
    <3> QED BY <3>1, <3>2
  <2>2. d.receipt \in [at : {"set"}, mode : ModeDocs, applied : Profiles \cup {"absent"},
                       endpoint : Endpoints]
    BY <1>1 DEF DeskReceipts
  <2> QED BY <2>1, <2>2, Zenon
<1> HIDE DEF s
<1>4. s \in DeskReceipts /\ s # NoSetup
  BY <1>2, <1>3, MadeReceipt, Zenon
<1>5. t = [receipt |-> s, profile |-> e, library |-> d.library, mode |-> d.mode]
  <2>1. t = [d EXCEPT !.profile = e, !.receipt = s]
    BY DEF Migrated, s
  <2> QED BY <2>1, Zenon DEF DeskDocs
<1>6. t \in DeskDocs /\ t.receipt = s /\ t.profile = e /\ t.library = d.library /\ t.mode = d.mode
  BY <1>4, <1>5, DocFields, MadeDocs
<1> QED BY <1>3, <1>4, <1>6

-----------------------------------------------------------------------------
(* Claude Desktop: a command and its documents, in their turn.              *)

\* A command by its fields.
LEMMA CommandFields ==
  ASSUME NEW c \in DeskCommands
  PROVE  /\ c # AtRest /\ c.kind \in {"configure", "unconfigure", "migrate"}
         /\ c.to \in DeskDocs /\ c.from \in DeskDocs /\ c.undoing \in BOOLEAN
         /\ c.left \in Seq(Documents)
BY DEF DeskCommands, AtRest

\* What is pending of a list of documents.
LEMMA PendingOf ==
  ASSUME NEW k, NEW w, NEW x, NEW y, NEW z
  PROVE  /\ k.left = <<>> => Pending(k) = {}
         /\ k.left = <<w>> => k.left # <<>> /\ Head(k.left) = w /\ Tail(k.left) = <<>> /\ Pending(k) = {w}
         /\ k.left = <<w, x>> =>
              k.left # <<>> /\ Head(k.left) = w /\ Tail(k.left) = <<x>> /\ Pending(k) = {w, x}
         /\ k.left = <<w, x, y>> =>
              k.left # <<>> /\ Head(k.left) = w /\ Tail(k.left) = <<x, y>> /\ Pending(k) = {w, x, y}
         /\ k.left = <<w, x, y, z>> =>
              k.left # <<>> /\ Head(k.left) = w /\ Tail(k.left) = <<x, y, z>> /\ Pending(k) = {w, x, y, z}
<1>1. k.left = <<>> => Pending(k) = {}
  BY DEF Pending
<1>2. k.left = <<w>> => k.left # <<>> /\ Head(k.left) = w /\ Tail(k.left) = <<>> /\ Pending(k) = {w}
  BY DEF Pending
<1>3. k.left = <<w, x>> =>
        k.left # <<>> /\ Head(k.left) = w /\ Tail(k.left) = <<x>> /\ Pending(k) = {w, x}
  BY DEF Pending
<1>4. k.left = <<w, x, y>> =>
        k.left # <<>> /\ Head(k.left) = w /\ Tail(k.left) = <<x, y>> /\ Pending(k) = {w, x, y}
  BY DEF Pending
<1>5. k.left = <<w, x, y, z>> =>
        k.left # <<>> /\ Head(k.left) = w /\ Tail(k.left) = <<x, y, z>> /\ Pending(k) = {w, x, y, z}
  BY DEF Pending
<1> QED BY <1>1, <1>2, <1>3, <1>4, <1>5

\* What is pending of a configure.
LEMMA ConfigureTurns ==
  ASSUME NEW c \in DeskCommands, c.left \in LeftOf(c), c.kind = "configure", ~c.undoing
  PROVE  /\ c.left = <<>> => Pending(c) = {}
         /\ c.left # <<>> => Head(c.left) \in {"receipt", "profile", "library", "mode"}
         /\ c.left # <<>> /\ Head(c.left) = "receipt" =>
              Pending(c) = {"receipt", "profile", "library", "mode"} /\ Tail(c.left) = <<"profile", "library", "mode">>
         /\ c.left # <<>> /\ Head(c.left) = "profile" =>
              Pending(c) = {"profile", "library", "mode"} /\ Tail(c.left) = <<"library", "mode">>
         /\ c.left # <<>> /\ Head(c.left) = "library" =>
              Pending(c) = {"library", "mode"} /\ Tail(c.left) = <<"mode">>
         /\ c.left # <<>> /\ Head(c.left) = "mode" =>
              Pending(c) = {"mode"} /\ Tail(c.left) = <<>>
<1>1. c.left \in {<<"receipt", "profile", "library", "mode">>,
                  <<"profile", "library", "mode">>,
                  <<"library", "mode">>,
                  <<"mode">>,
                  <<>>}
  BY DEF LeftOf
<1>2. CASE c.left = <<"receipt", "profile", "library", "mode">>
  BY <1>2, PendingOf
<1>3. CASE c.left = <<"profile", "library", "mode">>
  BY <1>3, PendingOf
<1>4. CASE c.left = <<"library", "mode">>
  BY <1>4, PendingOf
<1>5. CASE c.left = <<"mode">>
  BY <1>5, PendingOf
<1>6. CASE c.left = <<>>
  BY <1>6, PendingOf
<1> QED BY <1>1, <1>2, <1>3, <1>4, <1>5, <1>6

\* What is pending of a removal, or of a configure that is taken back.
LEMMA RestoreTurns ==
  ASSUME NEW c \in DeskCommands, c.left \in LeftOf(c), c.kind # "migrate", c.kind = "unconfigure" \/ c.undoing
  PROVE  /\ c.left = <<>> => Pending(c) = {}
         /\ c.left # <<>> => Head(c.left) \in {"mode", "library", "profile", "receipt"}
         /\ c.left # <<>> /\ Head(c.left) = "mode" =>
              Pending(c) = {"mode", "library", "profile", "receipt"} /\ Tail(c.left) = <<"library", "profile", "receipt">>
         /\ c.left # <<>> /\ Head(c.left) = "library" =>
              Pending(c) = {"library", "profile", "receipt"} /\ Tail(c.left) = <<"profile", "receipt">>
         /\ c.left # <<>> /\ Head(c.left) = "profile" =>
              Pending(c) = {"profile", "receipt"} /\ Tail(c.left) = <<"receipt">>
         /\ c.left # <<>> /\ Head(c.left) = "receipt" =>
              Pending(c) = {"receipt"} /\ Tail(c.left) = <<>>
<1>1. c.left \in {<<"mode", "library", "profile", "receipt">>,
                  <<"library", "profile", "receipt">>,
                  <<"profile", "receipt">>,
                  <<"receipt">>,
                  <<>>}
  BY DEF LeftOf
<1>2. CASE c.left = <<"mode", "library", "profile", "receipt">>
  BY <1>2, PendingOf
<1>3. CASE c.left = <<"library", "profile", "receipt">>
  BY <1>3, PendingOf
<1>4. CASE c.left = <<"profile", "receipt">>
  BY <1>4, PendingOf
<1>5. CASE c.left = <<"receipt">>
  BY <1>5, PendingOf
<1>6. CASE c.left = <<>>
  BY <1>6, PendingOf
<1> QED BY <1>1, <1>2, <1>3, <1>4, <1>5, <1>6

\* What is pending of a migration.
LEMMA MigrateTurns ==
  ASSUME NEW c \in DeskCommands, c.left \in LeftOf(c), c.kind = "migrate"
  PROVE  /\ c.left = <<>> => Pending(c) = {}
         /\ c.left # <<>> => Head(c.left) \in {"profile", "receipt"}
         /\ c.left # <<>> /\ Head(c.left) = "profile" =>
              Pending(c) = {"profile", "receipt"} /\ Tail(c.left) = <<"receipt">>
         /\ c.left # <<>> /\ Head(c.left) = "receipt" =>
              Pending(c) = {"receipt"} /\ Tail(c.left) = <<>>
<1>1. c.left \in {<<"profile", "receipt">>, <<"receipt">>, <<>>}
  BY DEF LeftOf
<1>2. CASE c.left = <<"profile", "receipt">>
  BY <1>2, PendingOf
<1>3. CASE c.left = <<"receipt">>
  BY <1>3, PendingOf
<1>4. CASE c.left = <<>>
  BY <1>4, PendingOf
<1> QED BY <1>1, <1>2, <1>3, <1>4

\* One document less is left.
LEMMA NextLeft ==
  ASSUME NEW c \in DeskCommands, c.left \in LeftOf(c), c.left # <<>>,
         NEW n \in DeskCommands, n.left = Tail(c.left), n.kind = c.kind, n.undoing = c.undoing
  PROVE  /\ n.left \in LeftOf(n)
         /\ Head(c.left) \in Documents /\ Head(c.left) \in Pending(c)
         /\ Pending(n) = Pending(c) \ {Head(c.left)}
<1>1. CASE c.kind = "migrate"
  <2>1. n.left \in LeftOf(n)
    BY <1>1, MigrateTurns DEF LeftOf
  <2>2. CASE Head(c.left) = "profile"
    <3>1. Pending(c) = {"profile", "receipt"} /\ n.left = <<"receipt">>
      BY <1>1, <2>2, MigrateTurns
    <3>2. Pending(n) = {"receipt"}
      BY <3>1, PendingOf
    <3> QED BY <2>1, <2>2, <3>1, <3>2 DEF Documents
  <2>3. CASE Head(c.left) = "receipt"
    <3>1. Pending(c) = {"receipt"} /\ n.left = <<>>
      BY <1>1, <2>3, MigrateTurns
    <3>2. Pending(n) = {}
      BY <3>1, PendingOf
    <3> QED BY <2>1, <2>3, <3>1, <3>2 DEF Documents
  <2> QED BY <1>1, <2>2, <2>3, MigrateTurns
<1>2. CASE c.kind # "migrate" /\ (c.kind = "unconfigure" \/ c.undoing)
  <2>1. n.left \in LeftOf(n)
    BY <1>2, RestoreTurns DEF LeftOf
  <2>2. CASE Head(c.left) = "mode"
    <3>1. Pending(c) = {"mode", "library", "profile", "receipt"} /\ n.left = <<"library", "profile", "receipt">>
      BY <1>2, <2>2, RestoreTurns
    <3>2. Pending(n) = {"library", "profile", "receipt"}
      BY <3>1, PendingOf
    <3> QED BY <2>1, <2>2, <3>1, <3>2 DEF Documents
  <2>3. CASE Head(c.left) = "library"
    <3>1. Pending(c) = {"library", "profile", "receipt"} /\ n.left = <<"profile", "receipt">>
      BY <1>2, <2>3, RestoreTurns
    <3>2. Pending(n) = {"profile", "receipt"}
      BY <3>1, PendingOf
    <3> QED BY <2>1, <2>3, <3>1, <3>2 DEF Documents
  <2>4. CASE Head(c.left) = "profile"
    <3>1. Pending(c) = {"profile", "receipt"} /\ n.left = <<"receipt">>
      BY <1>2, <2>4, RestoreTurns
    <3>2. Pending(n) = {"receipt"}
      BY <3>1, PendingOf
    <3> QED BY <2>1, <2>4, <3>1, <3>2 DEF Documents
  <2>5. CASE Head(c.left) = "receipt"
    <3>1. Pending(c) = {"receipt"} /\ n.left = <<>>
      BY <1>2, <2>5, RestoreTurns
    <3>2. Pending(n) = {}
      BY <3>1, PendingOf
    <3> QED BY <2>1, <2>5, <3>1, <3>2 DEF Documents
  <2> QED BY <1>2, <2>2, <2>3, <2>4, <2>5, RestoreTurns
<1>3. CASE c.kind = "configure" /\ ~c.undoing
  <2>1. n.left \in LeftOf(n)
    BY <1>3, ConfigureTurns DEF LeftOf
  <2>2. CASE Head(c.left) = "receipt"
    <3>1. Pending(c) = {"receipt", "profile", "library", "mode"} /\ n.left = <<"profile", "library", "mode">>
      BY <1>3, <2>2, ConfigureTurns
    <3>2. Pending(n) = {"profile", "library", "mode"}
      BY <3>1, PendingOf
    <3> QED BY <2>1, <2>2, <3>1, <3>2 DEF Documents
  <2>3. CASE Head(c.left) = "profile"
    <3>1. Pending(c) = {"profile", "library", "mode"} /\ n.left = <<"library", "mode">>
      BY <1>3, <2>3, ConfigureTurns
    <3>2. Pending(n) = {"library", "mode"}
      BY <3>1, PendingOf
    <3> QED BY <2>1, <2>3, <3>1, <3>2 DEF Documents
  <2>4. CASE Head(c.left) = "library"
    <3>1. Pending(c) = {"library", "mode"} /\ n.left = <<"mode">>
      BY <1>3, <2>4, ConfigureTurns
    <3>2. Pending(n) = {"mode"}
      BY <3>1, PendingOf
    <3> QED BY <2>1, <2>4, <3>1, <3>2 DEF Documents
  <2>5. CASE Head(c.left) = "mode"
    <3>1. Pending(c) = {"mode"} /\ n.left = <<>>
      BY <1>3, <2>5, ConfigureTurns
    <3>2. Pending(n) = {}
      BY <3>1, PendingOf
    <3> QED BY <2>1, <2>5, <3>1, <3>2 DEF Documents
  <2> QED BY <1>3, <2>2, <2>3, <2>4, <2>5, ConfigureTurns
<1> QED BY <1>1, <1>2, <1>3, CommandFields

\* A command as it is made.
LEMMA MadeCommand ==
  ASSUME NEW k \in {"configure", "unconfigure", "migrate"}, NEW l \in Seq(Documents),
         NEW t \in DeskDocs, NEW f \in DeskDocs, NEW u \in BOOLEAN,
         NEW c, c = [kind |-> k, left |-> l, to |-> t, from |-> f, undoing |-> u]
  PROVE  /\ c \in DeskCommands /\ c.kind = k /\ c.left = l /\ c.to = t /\ c.from = f
         /\ c.undoing = u /\ (u <=> c.undoing)
<1>1. c \in DeskCommands
  BY Zenon DEF DeskCommands
<1>2. c.kind = k /\ c.left = l /\ c.to = t /\ c.from = f
  OBVIOUS
<1>3. c.undoing = u
  BY Zenon
<1> QED BY <1>1, <1>2, <1>3

\* A command with less left to do.
LeftWith(c, l) == [c EXCEPT !.left = l]

\* Once a document is written, the rest of the order is left.
LEMMA LessLeft ==
  ASSUME NEW c \in DeskCommands, NEW l \in Seq(Documents), NEW n, n = LeftWith(c, l)
  PROVE  /\ n \in DeskCommands /\ n.left = l /\ n.kind = c.kind /\ n.to = c.to
         /\ n.from = c.from /\ n.undoing = c.undoing
<1>1. n = [kind |-> c.kind, left |-> l, to |-> c.to, from |-> c.from, undoing |-> c.undoing]
  BY Zenon DEF DeskCommands, LeftWith
<1>2. /\ c.kind \in {"configure", "unconfigure", "migrate"}
      /\ c.to \in DeskDocs /\ c.from \in DeskDocs /\ c.undoing \in BOOLEAN
  BY CommandFields
<1> QED BY <1>1, <1>2, MadeCommand

\* Only documents are pending.
LEMMA PendingDocs ==
  ASSUME NEW c \in DeskCommands, NEW doc \in Pending(c)
  PROVE  doc \in Documents
BY CommandFields DEF Pending

\* InTurn by the fields of the documents.
LEMMA TurnFields ==
  ASSUME desk \in DeskDocs, NEW c \in DeskCommands
  PROVE  InTurn(c) <=>
           /\ c.left \in LeftOf(c)
           /\ IF "receipt" \in Pending(c) THEN c.undoing \/ desk.receipt = c.from.receipt
              ELSE desk.receipt = c.to.receipt
           /\ IF "profile" \in Pending(c) THEN c.undoing \/ desk.profile = c.from.profile
              ELSE desk.profile = c.to.profile
           /\ IF "library" \in Pending(c) THEN c.undoing \/ desk.library = c.from.library
              ELSE desk.library = c.to.library
           /\ IF "mode" \in Pending(c) THEN c.undoing \/ desk.mode = c.from.mode
              ELSE desk.mode = c.to.mode
<1>1. /\ desk["receipt"] = desk.receipt /\ desk["profile"] = desk.profile
      /\ desk["library"] = desk.library /\ desk["mode"] = desk.mode
  BY DocFields
<1>2. /\ c.to["receipt"] = c.to.receipt /\ c.to["profile"] = c.to.profile
      /\ c.to["library"] = c.to.library /\ c.to["mode"] = c.to.mode
  BY CommandFields, DocFields
<1>3. /\ c.from["receipt"] = c.from.receipt /\ c.from["profile"] = c.from.profile
      /\ c.from["library"] = c.from.library /\ c.from["mode"] = c.from.mode
  BY CommandFields, DocFields
<1>4. \A doc : doc \in Pending(c) => doc \in Documents
  BY CommandFields DEF Pending
<1>5. Documents = {"receipt", "profile", "library", "mode"}
  BY DEF Documents
<1> QED BY <1>1, <1>2, <1>3, <1>4, <1>5 DEF InTurn

\* The step of a command that writes its next document.
LEMMA WriteStep ==
  ASSUME DesktopTypeOK, command # AtRest => InTurn(command), Write
  PROVE  /\ command \in DeskCommands /\ command.left # <<>>
         /\ command' \in DeskCommands /\ command'.kind = command.kind
         /\ command'.to = command.to /\ command'.from = command.from
         /\ command'.undoing = command.undoing
         /\ desk' \in DeskDocs
         /\ IF Head(command.left) = "receipt" THEN desk'.receipt = command.to.receipt
            ELSE desk'.receipt = desk.receipt
         /\ IF Head(command.left) = "profile" THEN desk'.profile = command.to.profile
            ELSE desk'.profile = desk.profile
         /\ IF Head(command.left) = "library" THEN desk'.library = command.to.library
            ELSE desk'.library = desk.library
         /\ IF Head(command.left) = "mode" THEN desk'.mode = command.to.mode
            ELSE desk'.mode = desk.mode
         /\ command'.left = Tail(command.left)
         /\ InTurn(command) /\ InTurn(command)'
<1>1. command \in DeskCommands /\ command.left # <<>> /\ InTurn(command)
  BY DEF Write, DesktopTypeOK
<1>2. desk \in DeskDocs /\ command.to \in DeskDocs
  BY <1>1, CommandFields DEF DesktopTypeOK
<1>3. command.left \in LeftOf(command)
  BY <1>1 DEF InTurn
<1>4. Tail(command.left) \in Seq(Documents)
  BY <1>1, CommandFields
<1> DEFINE n == command'
<1>5. n = [command EXCEPT !.left = Tail(command.left)]
  BY DEF Write
<1>6. /\ n \in DeskCommands /\ n.left = Tail(command.left) /\ n.kind = command.kind
      /\ n.to = command.to /\ n.from = command.from /\ n.undoing = command.undoing
  <2> DEFINE l == Tail(command.left)
  <2>1. n = LeftWith(command, l) /\ l \in Seq(Documents)
    BY <1>4, <1>5 DEF LeftWith
  <2> HIDE DEF n, l
  <2>2. /\ n \in DeskCommands /\ n.left = l /\ n.kind = command.kind
        /\ n.to = command.to /\ n.from = command.from /\ n.undoing = command.undoing
    BY <1>1, <2>1, LessLeft
  <2> QED BY <2>2, Zenon DEF l
<1>7. /\ n.left \in LeftOf(n)
      /\ Head(command.left) \in Documents /\ Head(command.left) \in Pending(command)
      /\ Pending(n) = Pending(command) \ {Head(command.left)}
  BY <1>1, <1>3, <1>6, NextLeft
<1>8. desk' = [desk EXCEPT ![Head(command.left)] = command.to[Head(command.left)]]
  BY DEF Write
<1>9. /\ desk' \in DeskDocs
      /\ IF Head(command.left) = "receipt" THEN desk'.receipt = command.to.receipt
         ELSE desk'.receipt = desk.receipt
      /\ IF Head(command.left) = "profile" THEN desk'.profile = command.to.profile
         ELSE desk'.profile = desk.profile
      /\ IF Head(command.left) = "library" THEN desk'.library = command.to.library
         ELSE desk'.library = desk.library
      /\ IF Head(command.left) = "mode" THEN desk'.mode = command.to.mode
         ELSE desk'.mode = desk.mode
  <2> DEFINE v == desk'  h == Head(command.left)  to == command.to
  <2>1. v = [desk EXCEPT ![h] = to[h]]
    BY <1>8
  <2>2. to \in DeskDocs /\ h \in Documents
    BY <1>2, <1>7
  <2> HIDE DEF v, h, to
  <2>3. /\ v \in DeskDocs
        /\ IF h = "receipt" THEN v.receipt = to.receipt ELSE v.receipt = desk.receipt
        /\ IF h = "profile" THEN v.profile = to.profile ELSE v.profile = desk.profile
        /\ IF h = "library" THEN v.library = to.library ELSE v.library = desk.library
        /\ IF h = "mode" THEN v.mode = to.mode ELSE v.mode = desk.mode
    <3>1. CASE h = "receipt"
      BY <1>2, <2>1, <2>2, <3>1 DEF DeskDocs
    <3>2. CASE h = "profile"
      BY <1>2, <2>1, <2>2, <3>2 DEF DeskDocs
    <3>3. CASE h = "library"
      BY <1>2, <2>1, <2>2, <3>3 DEF DeskDocs
    <3>4. CASE h = "mode"
      BY <1>2, <2>1, <2>2, <3>4 DEF DeskDocs
    <3> QED BY <2>2, <3>1, <3>2, <3>3, <3>4 DEF Documents
  <2> QED BY <2>3 DEF v, h, to
<1>10. InTurn(command)'
  <2>1. \A doc \in Documents : desk'[doc] = IF doc = Head(command.left) THEN command.to[doc] ELSE desk[doc]
    BY <1>2, <1>8 DEF DeskDocs, Documents
  <2>2. Pending(command)' = Pending(n) /\ LeftOf(command)' = LeftOf(n)
    BY DEF Pending, LeftOf
  <2>3. \A doc : doc \in Pending(n) => doc \in Documents
    BY <1>6, PendingDocs
  <2> QED BY <1>1, <1>6, <1>7, <2>1, <2>2, <2>3 DEF InTurn
<1> QED BY <1>1, <1>6, <1>9, <1>10

-----------------------------------------------------------------------------
(* Claude Desktop: the settings come back.                                  *)

\* What was found, and the mode it is restored to.
LEMMA OwnFields ==
  ASSUME DesktopTypeOK
  PROVE  /\ own.library \in Libraries /\ own.mode \in ModeDocs
         /\ own.mode.deployment \in Modes /\ own.mode.awaiting \in BOOLEAN
         /\ Snapshot(own).mode \in ModeDocs
         /\ Snapshot(own).mode.awaiting = own.mode.awaiting
         /\ Snapshot(own).mode.deployment = IF own.mode.deployment = "3p" /\ ~Usable(own)
                                            THEN "absent" ELSE own.mode.deployment
<1>1. own.library \in Libraries /\ own.mode \in ModeDocs
  BY DEF DesktopTypeOK
<1>2. own.mode.deployment \in Modes /\ own.mode.awaiting \in BOOLEAN
  BY <1>1, Zenon DEF ModeDocs
<1> QED BY <1>1, <1>2, SnapshotFields

\* A mode is as it was when it is what the receipt restores.
LEMMA BackModeFields ==
  ASSUME DesktopTypeOK, NEW m \in ModeDocs
  PROVE  BackMode(m) <=>
           /\ m.awaiting = own.mode.awaiting
           /\ \/ m.deployment = own.mode.deployment
              \/ own.mode.deployment = "3p" /\ ~Usable(own) /\ m.deployment = "absent"
<1> DEFINE o == [own.mode EXCEPT !.deployment = "absent"]
<1>1. own.mode \in ModeDocs
  BY OwnFields
<1>2. o \in ModeDocs /\ o = [deployment |-> "absent", awaiting |-> own.mode.awaiting]
  BY <1>1, ModeSet DEF Modes
<1>3. o.deployment = "absent" /\ o.awaiting = own.mode.awaiting
  <2> HIDE DEF o
  <2>1. o.deployment = "absent"
    BY <1>2
  <2>2. o.awaiting = own.mode.awaiting
    BY <1>2, Zenon
  <2> QED BY <2>1, <2>2
<1> HIDE DEF o
<1>4. m = own.mode <=> m.deployment = own.mode.deployment /\ m.awaiting = own.mode.awaiting
  BY <1>1, SameMode
<1>5. m = o <=> m.deployment = "absent" /\ m.awaiting = own.mode.awaiting
  BY <1>2, <1>3, SameMode
<1> QED BY <1>4, <1>5 DEF BackMode, o

\* What a removal restores is as it was.
LEMMA UnconfiguredBack ==
  ASSUME DesktopTypeOK, NEW d \in DeskDocs, d.receipt # NoSetup, Kept(d),
         NEW t \in Unconfigured(d)
  PROVE  /\ Ours \notin t.library.listed /\ t.library.applied # Ours
         /\ untouched => BackLibrary(t.library) /\ BackMode(t.mode)
         /\ untouched /\ StillApplied(d) =>
              /\ t.mode.deployment = d.receipt.mode.deployment
              /\ t.mode.awaiting => own.mode.awaiting
<1>1. /\ t \in DeskDocs /\ t.library.listed = d.library.listed \ {Ours}
      /\ IF StillApplied(d)
         THEN t.library.applied \in AppliedBefore(d.receipt.applied, t.library.listed)
         ELSE t.library.applied = d.library.applied
      /\ t.mode.awaiting = (d.mode.awaiting \/ (StillApplied(d) /\ d.receipt.mode.awaiting))
      /\ t.mode.deployment = IF DeploymentBefore(d) = "3p" /\ ~Usable(t) THEN "absent"
                             ELSE DeploymentBefore(d)
  BY UnconfiguredFields
<1>2. /\ Ours \notin own.library.listed /\ own.library.applied # Ours
      /\ d.receipt.applied = own.library.applied /\ d.receipt.mode = Snapshot(own).mode
  BY DEF Kept
<1>3. "absent" # Ours
  BY DEF Profiles
<1>4. Ours \notin t.library.listed /\ t.library.applied # Ours
  BY <1>1, <1>2, <1>3 DEF AppliedBefore, StillApplied
<1>5. t.mode \in ModeDocs
  BY <1>1, DocFields
<1>6. CASE untouched
  <2>1. t.library.listed = own.library.listed
    BY <1>1, <1>6 DEF Kept
  <2>2. BackLibrary(t.library)
    BY <1>1, <1>2, <1>6, <2>1 DEF Kept, BackLibrary, AppliedBefore
  <2>3. Usable(own) => Usable(t)
    BY <2>1, <2>2 DEF Usable, BackLibrary
  <2>4. CASE StillApplied(d)
    <3>1. d.mode.deployment \in {"3p", d.receipt.mode.deployment} /\ (d.mode.awaiting => own.mode.awaiting)
      BY <1>6, <2>4 DEF Kept
    <3>2. DeploymentBefore(d) = d.receipt.mode.deployment
      BY <2>4, <3>1 DEF DeploymentBefore
    <3>3. d.receipt.mode.deployment = IF own.mode.deployment = "3p" /\ ~Usable(own) THEN "absent"
                                      ELSE own.mode.deployment
      BY <1>2, OwnFields
    <3>4. d.receipt.mode.deployment = "3p" => Usable(t)
      BY <2>3, <3>3
    <3>5. t.mode.deployment = d.receipt.mode.deployment
      BY <1>1, <3>2, <3>4
    <3>6. t.mode.awaiting <=> own.mode.awaiting
      BY <1>1, <1>2, <2>4, <3>1, OwnFields
    <3>7. t.mode.awaiting \in BOOLEAN /\ own.mode.awaiting \in BOOLEAN
      BY <1>1, DocFields, OwnFields
    <3>8. t.mode.awaiting = own.mode.awaiting
      BY <3>6, <3>7, Zenon
    <3>9. BackMode(t.mode)
      BY <1>5, <3>3, <3>5, <3>8, BackModeFields
    <3> QED BY <1>4, <2>2, <3>5, <3>6, <3>9
  <2>5. CASE ~StillApplied(d)
    <3>1. BackMode(d.mode) /\ d.mode \in ModeDocs /\ DeploymentBefore(d) = d.mode.deployment
      BY <1>6, <2>5, DocFields DEF Kept, DeploymentBefore
    <3>2. t.mode.awaiting <=> d.mode.awaiting
      BY <1>1, <2>5
    <3>3. d.mode.awaiting = own.mode.awaiting
      BY <3>1, BackModeFields, Zenon
    <3>4. t.mode.awaiting \in BOOLEAN /\ d.mode.awaiting \in BOOLEAN
      BY <1>1, DocFields
    <3>5. t.mode.awaiting = own.mode.awaiting
      BY <3>2, <3>3, <3>4, Zenon
    <3>6. \/ d.mode.deployment = own.mode.deployment
          \/ own.mode.deployment = "3p" /\ ~Usable(own) /\ d.mode.deployment = "absent"
      BY <3>1, BackModeFields
    <3>7. \/ t.mode.deployment = own.mode.deployment
          \/ own.mode.deployment = "3p" /\ ~Usable(own) /\ t.mode.deployment = "absent"
      BY <1>1, <2>3, <3>1, <3>6
    <3>8. BackMode(t.mode)
      BY <1>5, <3>5, <3>7, BackModeFields
    <3> QED BY <1>4, <2>2, <2>5, <3>8
  <2> QED BY <2>4, <2>5
<1> QED BY <1>4, <1>6

\* What a configure writes into the receipt is what was found.
LEMMA ConfiguredReceipt ==
  ASSUME DesktopTypeOK, NEW c \in DeskCommands, c.kind = "configure", ~c.undoing, Meant(c), Kept(c.from)
  PROVE  /\ c.to \in DeskDocs /\ c.to.receipt # NoSetup /\ c.to.profile \in Endpoints
         /\ c.to.receipt.applied = own.library.applied /\ c.to.receipt.mode = Snapshot(own).mode
         /\ Ours \notin own.library.listed /\ own.library.applied # Ours
         /\ c.to.library.listed = c.from.library.listed \cup {Ours} /\ c.to.library.applied = Ours
         /\ c.to.mode.deployment = "3p" /\ ~c.to.mode.awaiting
<1>1. PICK e \in Endpoints : c.to = ConfiguredDocs(c.from, e)
  BY DEF Meant
<1>2. c.from \in DeskDocs
  BY CommandFields
<1>3. /\ c.to \in DeskDocs /\ c.to.receipt # NoSetup
      /\ c.to.receipt.applied = FirstSnapshot(c.from).applied
      /\ c.to.receipt.mode = FirstSnapshot(c.from).mode
      /\ c.to.profile = e
      /\ c.to.library.listed = c.from.library.listed \cup {Ours} /\ c.to.library.applied = Ours
      /\ c.to.mode.deployment = "3p" /\ ~c.to.mode.awaiting
  <2> DEFINE f == c.from  t == c.to
  <2>1. f \in DeskDocs /\ t = ConfiguredDocs(f, e)
    BY <1>1, <1>2
  <2> HIDE DEF f, t
  <2>2. /\ t \in DeskDocs /\ t.receipt # NoSetup
        /\ t.receipt.applied = FirstSnapshot(f).applied /\ t.receipt.mode = FirstSnapshot(f).mode
        /\ t.profile = e
        /\ t.library.listed = f.library.listed \cup {Ours} /\ t.library.applied = Ours
        /\ t.mode.deployment = "3p" /\ ~t.mode.awaiting
    <3>1. e \in Endpoints
      BY <1>1
    <3> QED BY <2>1, <3>1, ConfiguredFields
  <2> QED BY <2>2, Zenon DEF f, t
<1>4. CASE c.from.receipt = NoSetup
  <2>1. own.library = c.from.library /\ own.mode = c.from.mode
    BY <1>4 DEF Meant
  <2>2. Snapshot(c.from).mode = Snapshot(own).mode
    BY <2>1, Zenon DEF Snapshot, Usable
  <2>3. Snapshot(c.from).applied = own.library.applied
    BY <1>2, <2>1, DocFields, SnapshotFields
  <2>4. FirstSnapshot(c.from) = Snapshot(c.from)
    BY <1>4 DEF FirstSnapshot
  <2> QED BY <1>3, <1>4, <2>1, <2>2, <2>3, <2>4 DEF Kept
<1>5. CASE c.from.receipt # NoSetup
  BY <1>3, <1>5 DEF Kept, FirstSnapshot
<1> QED BY <1>4, <1>5

\* A mode as it was found is one that the setup may still restore.
LEMMA BackModeMayStay ==
  ASSUME DesktopTypeOK, NEW m \in ModeDocs, BackMode(m)
  PROVE  m.deployment \in {"3p", Snapshot(own).mode.deployment} /\ (m.awaiting => own.mode.awaiting)
BY OwnFields, BackModeFields

\* Each document that a command writes keeps what the receipt and the documents promise.
LEMMA WriteKept ==
  ASSUME DesktopInv, Write, ~command.undoing
  PROVE  Kept(desk)'
<1> DEFINE w == desk'  h == Head(command.left)
<1>1. /\ command \in DeskCommands /\ command.left # <<>> /\ InTurn(command) /\ Meant(command)
      /\ Kept(desk) /\ Kept(command.from) /\ desk \in DeskDocs /\ DesktopTypeOK
  BY WriteStep DEF DesktopInv, DeskKept, DesktopTypeOK, Write
<1>2. /\ w \in DeskDocs
      /\ IF h = "receipt" THEN w.receipt = command.to.receipt ELSE w.receipt = desk.receipt
      /\ IF h = "profile" THEN w.profile = command.to.profile ELSE w.profile = desk.profile
      /\ IF h = "library" THEN w.library = command.to.library ELSE w.library = desk.library
      /\ IF h = "mode" THEN w.mode = command.to.mode ELSE w.mode = desk.mode
  BY <1>1, WriteStep DEF DesktopInv
<1>3. /\ command.left \in LeftOf(command)
      /\ IF "receipt" \in Pending(command) THEN desk.receipt = command.from.receipt
         ELSE desk.receipt = command.to.receipt
      /\ IF "profile" \in Pending(command) THEN desk.profile = command.from.profile
         ELSE desk.profile = command.to.profile
      /\ IF "library" \in Pending(command) THEN desk.library = command.from.library
         ELSE desk.library = command.to.library
      /\ IF "mode" \in Pending(command) THEN desk.mode = command.from.mode
         ELSE desk.mode = command.to.mode
  BY <1>1, TurnFields, Zenon
<1> HIDE DEF w, h
<1>4. ASSUME Kept(w) PROVE Kept(desk)'
  BY <1>4 DEF w, Write, desktopHistory, Kept, StillApplied, BackLibrary, BackMode, Snapshot, Usable
<1>5. CASE command.kind = "configure"
  <2>1. /\ command.to \in DeskDocs /\ command.to.receipt # NoSetup
        /\ command.to.receipt.applied = own.library.applied
        /\ command.to.receipt.mode = Snapshot(own).mode
        /\ Ours \notin own.library.listed /\ own.library.applied # Ours
        /\ command.to.library.listed = command.from.library.listed \cup {Ours}
        /\ command.to.library.applied = Ours
        /\ command.to.mode.deployment = "3p" /\ ~command.to.mode.awaiting
    BY <1>1, <1>5, ConfiguredReceipt
  <2>2. CASE h = "receipt"
    <3>1. Pending(command) = {"receipt", "profile", "library", "mode"}
      BY <1>1, <1>3, <1>5, <2>2, ConfigureTurns DEF h
    <3>2. w.receipt = command.to.receipt /\ w.library = command.from.library /\ w.mode = command.from.mode
      BY <1>2, <1>3, <2>2, <3>1
    <3>3. ASSUME command.from.receipt = NoSetup PROVE Kept(w)
      BY <1>1, <2>1, <3>2, <3>3 DEF Kept, StillApplied, BackLibrary
    <3>4. ASSUME command.from.receipt # NoSetup PROVE Kept(w)
      BY <1>1, <2>1, <3>2, <3>4 DEF Kept, StillApplied
    <3> QED BY <1>4, <3>3, <3>4
  <2>3. CASE h = "profile"
    <3>1. Pending(command) = {"profile", "library", "mode"}
      BY <1>1, <1>3, <1>5, <2>3, ConfigureTurns DEF h
    <3>2. /\ w.receipt = command.to.receipt /\ desk.receipt = command.to.receipt
          /\ w.library = desk.library /\ w.mode = desk.mode
      BY <1>2, <1>3, <2>3, <3>1
    <3> QED BY <1>1, <1>4, <2>1, <3>2 DEF Kept, StillApplied
  <2>4. CASE h = "library"
    <3>1. Pending(command) = {"library", "mode"}
      BY <1>1, <1>3, <1>5, <2>4, ConfigureTurns DEF h
    <3>2. /\ w.receipt = command.to.receipt /\ desk.receipt = command.to.receipt
          /\ desk.library = command.from.library /\ w.library = command.to.library /\ w.mode = desk.mode
      BY <1>2, <1>3, <2>4, <3>1
    <3>3. desk.mode \in ModeDocs
      BY <1>1, DocFields
    <3>4. untouched => /\ desk.mode.deployment \in {"3p", Snapshot(own).mode.deployment}
                       /\ desk.mode.awaiting => own.mode.awaiting
      BY <1>1, <2>1, <3>2, <3>3, BackModeMayStay DEF Kept
    <3>5. untouched => desk.library.listed \ {Ours} = own.library.listed
      BY <1>1, <2>1, <3>2 DEF Kept
    <3> QED BY <1>4, <2>1, <3>2, <3>4, <3>5 DEF Kept, StillApplied
  <2>5. CASE h = "mode"
    <3>1. Pending(command) = {"mode"}
      BY <1>1, <1>3, <1>5, <2>5, ConfigureTurns DEF h
    <3>2. /\ w.receipt = command.to.receipt /\ desk.receipt = command.to.receipt
          /\ w.library = command.to.library /\ desk.library = command.to.library
          /\ w.mode = command.to.mode
      BY <1>2, <1>3, <2>5, <3>1
    <3> QED BY <1>1, <1>4, <2>1, <3>2 DEF Kept, StillApplied
  <2> QED BY <1>1, <1>3, <1>5, <2>2, <2>3, <2>4, <2>5, ConfigureTurns DEF h
<1>6. CASE command.kind = "unconfigure"
  <2>1. command.from.receipt # NoSetup /\ command.to \in Unconfigured(command.from) /\ command.from \in DeskDocs
    BY <1>1, <1>6, CommandFields DEF Meant
  <2>2. /\ command.to \in DeskDocs /\ command.to.receipt = NoSetup /\ command.to.profile = "none"
    BY <2>1, UnconfiguredFields
  <2>3. /\ Ours \notin command.to.library.listed /\ command.to.library.applied # Ours
        /\ untouched => BackLibrary(command.to.library) /\ BackMode(command.to.mode)
        /\ untouched /\ StillApplied(command.from) =>
             /\ command.to.mode.deployment = command.from.receipt.mode.deployment
             /\ command.to.mode.awaiting => own.mode.awaiting
    BY <1>1, <2>1, UnconfiguredBack
  <2>4. CASE h = "mode"
    <3>1. Pending(command) = {"mode", "library", "profile", "receipt"}
      BY <1>1, <1>3, <1>6, <2>4, RestoreTurns DEF h
    <3>2. /\ w.receipt = command.from.receipt /\ w.library = command.from.library
          /\ w.mode = command.to.mode
      BY <1>2, <1>3, <2>4, <3>1
    <3> QED BY <1>1, <1>4, <2>1, <2>3, <3>2 DEF Kept, StillApplied
  <2>5. CASE h = "library"
    <3>1. Pending(command) = {"library", "profile", "receipt"}
      BY <1>1, <1>3, <1>6, <2>5, RestoreTurns DEF h
    <3>2. /\ w.receipt = command.from.receipt /\ w.library = command.to.library
          /\ w.mode = command.to.mode
      BY <1>2, <1>3, <2>5, <3>1
    <3> QED BY <1>1, <1>4, <2>1, <2>3, <3>2 DEF Kept, StillApplied, BackLibrary
  <2>6. CASE h = "profile"
    <3>1. Pending(command) = {"profile", "receipt"}
      BY <1>1, <1>3, <1>6, <2>6, RestoreTurns DEF h
    <3>2. /\ w.receipt = command.from.receipt /\ desk.receipt = command.from.receipt
          /\ w.library = desk.library /\ w.mode = desk.mode
      BY <1>2, <1>3, <2>6, <3>1
    <3> QED BY <1>1, <1>4, <2>1, <3>2 DEF Kept, StillApplied
  <2>7. CASE h = "receipt"
    <3>1. Pending(command) = {"receipt"}
      BY <1>1, <1>3, <1>6, <2>7, RestoreTurns DEF h
    <3>2. /\ w.receipt = NoSetup /\ w.profile = "none" /\ w.library = command.to.library
          /\ w.mode = command.to.mode
      BY <1>2, <1>3, <2>2, <2>7, <3>1
    <3> QED BY <1>4, <2>3, <3>2 DEF Kept
  <2> QED BY <1>1, <1>3, <1>6, <2>4, <2>5, <2>6, <2>7, RestoreTurns DEF h
<1>7. CASE command.kind = "migrate"
  <2>1. PICK e \in Endpoints : command.to = Migrated(command.from, e)
    BY <1>1, <1>7 DEF Meant
  <2>2. Owned(command.from) /\ command.from.receipt # NoSetup /\ command.from \in DeskDocs
    BY <1>1, <1>7, CommandFields DEF Meant, Owned
  <2>3. /\ command.to.receipt # NoSetup
        /\ command.to.receipt.applied = command.from.receipt.applied
        /\ command.to.receipt.mode = command.from.receipt.mode
    BY <2>1, <2>2, MigratedFields
  <2>4. "receipt" \in Pending(command)
    BY <1>1, <1>3, <1>7, MigrateTurns
  <2>5. h \in {"profile", "receipt"}
    BY <1>1, <1>3, <1>7, MigrateTurns DEF h
  <2>6. /\ desk.receipt = command.from.receipt /\ w.library = desk.library /\ w.mode = desk.mode
        /\ w.receipt # NoSetup
        /\ w.receipt.applied = desk.receipt.applied /\ w.receipt.mode = desk.receipt.mode
    BY <1>2, <1>3, <2>2, <2>3, <2>4, <2>5
  <2> QED BY <1>1, <1>4, <2>2, <2>6 DEF Kept, StillApplied
<1> QED BY <1>1, <1>5, <1>6, <1>7, CommandFields

\* The orders are of documents.
LEMMA OrdersOfDocs ==
  /\ ConfigureOrder \in Seq(Documents) /\ RestoreOrder \in Seq(Documents)
  /\ MigrateOrder \in Seq(Documents)
<1>1. /\ "receipt" \in Documents /\ "profile" \in Documents
      /\ "library" \in Documents /\ "mode" \in Documents
  BY DEF Documents
<1>2. ConfigureOrder \in Seq(Documents)
  BY <1>1 DEF ConfigureOrder
<1>3. RestoreOrder \in Seq(Documents)
  BY <1>1 DEF RestoreOrder
<1>4. MigrateOrder \in Seq(Documents)
  BY <1>1 DEF MigrateOrder
<1> QED BY <1>2, <1>3, <1>4

\* A command begins with every document of its order as it found it.
LEMMA BeginStep ==
  ASSUME DesktopInv, NEW k \in {"configure", "unconfigure", "migrate"}, NEW o, NEW t \in DeskDocs,
         BeginCommand(k, o, t),
         \/ k = "configure" /\ o = ConfigureOrder
         \/ k = "unconfigure" /\ o = RestoreOrder
         \/ k = "migrate" /\ o = MigrateOrder /\ t.library = desk.library /\ t.mode = desk.mode
  PROVE  /\ command = AtRest /\ command' \in DeskCommands /\ command' # AtRest
         /\ command'.kind = k /\ command'.to = t /\ command'.from = desk /\ ~command'.undoing
         /\ desk' = desk /\ desk \in DeskDocs /\ Kept(desk) /\ failures' = failures
         /\ InTurn(command)'
<1>1. command = AtRest /\ desk' = desk /\ desk \in DeskDocs /\ Kept(desk) /\ failures' = failures
  BY DEF BeginCommand, DesktopInv, DeskKept, DesktopTypeOK
<1>2. o \in Seq(Documents)
  BY OrdersOfDocs
<1> DEFINE n == command'
<1>3. n = [kind |-> k, left |-> o, to |-> t, from |-> desk, undoing |-> FALSE]
  BY DEF BeginCommand
<1> HIDE DEF n
<1>4. /\ n \in DeskCommands /\ n.kind = k /\ n.left = o /\ n.to = t /\ n.from = desk
      /\ ~n.undoing
  <2> DEFINE u == FALSE
  <2>1. u \in BOOLEAN /\ ~u
    OBVIOUS
  <2>2. n = [kind |-> k, left |-> o, to |-> t, from |-> desk, undoing |-> u]
    BY <1>3
  <2> HIDE DEF u
  <2>3. /\ n \in DeskCommands /\ n.kind = k /\ n.left = o /\ n.to = t /\ n.from = desk
        /\ (u <=> n.undoing)
    BY <1>1, <1>2, <2>1, <2>2, MadeCommand
  <2> QED BY <2>1, <2>3
<1>5. n.left \in LeftOf(n)
  BY <1>4 DEF LeftOf, ConfigureOrder, RestoreOrder, MigrateOrder
<1>6. /\ k # "migrate" => Pending(n) = Documents
      /\ k = "migrate" => Pending(n) = {"profile", "receipt"}
  BY <1>4, PendingOf DEF ConfigureOrder, RestoreOrder, MigrateOrder, Documents
<1>7. k = "migrate" => desk["library"] = t["library"] /\ desk["mode"] = t["mode"]
  BY <1>1, DocFields
<1>8. /\ \A doc \in Documents \ Pending(n) : desk[doc] = n.to[doc]
      /\ \A doc \in Pending(n) : desk[doc] = n.from[doc]
  BY <1>4, <1>6, <1>7 DEF Documents
<1>9. InTurn(command)'
  BY <1>1, <1>5, <1>8 DEF InTurn, n, Pending, LeftOf
<1>10. n # AtRest
  BY <1>4, CommandFields
<1> QED BY <1>1, <1>4, <1>9, <1>10 DEF n

\* Beginning a configure takes note of what is there.
LEMMA ConfigureKeeps ==
  ASSUME DesktopInv, NEW e \in Endpoints, Configure(e)
  PROVE  DesktopInv'
<1> DEFINE t == ConfiguredDocs(desk, e)
<1>1. t \in DeskDocs
  BY ConfiguredFields DEF DesktopInv, DesktopTypeOK
<1> HIDE DEF t
<1>2. /\ command = AtRest /\ command' \in DeskCommands /\ command' # AtRest
      /\ command'.kind = "configure" /\ command'.to = t /\ command'.from = desk
      /\ ~command'.undoing
      /\ desk' = desk /\ desk \in DeskDocs /\ Kept(desk) /\ failures' = failures
      /\ InTurn(command)'
  <2>1. BeginCommand("configure", ConfigureOrder, t)
    BY DEF Configure, t
  <2> QED BY <1>1, <2>1, BeginStep
<1>3. /\ own' \in [library : Libraries, mode : ModeDocs] /\ untouched' \in BOOLEAN
      /\ failures' \in Nat
  <2>1. own \in [library : Libraries, mode : ModeDocs] /\ untouched \in BOOLEAN /\ failures \in Nat
    BY DEF DesktopInv, DesktopTypeOK
  <2>2. desk.library \in Libraries /\ desk.mode \in ModeDocs
    BY <1>2, DocFields
  <2>3. CASE desk.receipt # NoSetup
    <3>1. own' = own /\ untouched' = untouched
      BY <2>3 DEF Configure, desktopHistory
    <3> QED BY <1>2, <2>1, <3>1
  <2>4. CASE desk.receipt = NoSetup
    <3>1. own' = [library |-> desk.library, mode |-> desk.mode] /\ untouched' = TRUE
      BY <2>4 DEF Configure
    <3> QED BY <1>2, <2>1, <2>2, <3>1, SMT
  <2> QED BY <2>3, <2>4
<1>4. DesktopTypeOK'
  BY <1>2, <1>3 DEF DesktopTypeOK
<1>5. Kept(desk)'
  <2>1. CASE desk.receipt = NoSetup
    <3>1. own'.library = desk.library /\ own'.mode = desk.mode /\ untouched'
      BY <2>1 DEF Configure
    <3> QED BY <1>2, <2>1, <3>1 DEF Kept, BackLibrary, BackMode
  <2>2. CASE desk.receipt # NoSetup
    <3>1. own' = own /\ untouched' = untouched
      BY <2>2 DEF Configure, desktopHistory
    <3> QED BY <1>2, <3>1 DEF Kept, StillApplied, BackLibrary, BackMode, Snapshot, Usable
  <2> QED BY <2>1, <2>2
<1>6. Kept(command.from)'
  BY <1>2, <1>5 DEF Kept, StillApplied, BackLibrary, BackMode, Snapshot, Usable
<1>7. Meant(command)'
  <2>1. desk.receipt = NoSetup => own' = [library |-> desk.library, mode |-> desk.mode] /\ untouched'
    BY DEF Configure
  <2> QED BY <1>2, <2>1 DEF Meant, t
<1> QED BY <1>2, <1>4, <1>5, <1>6, <1>7 DEF DesktopInv, DeskKept, TakingBack

\* A removal and a migration begin from the documents as they are.
LEMMA UnconfigureKeeps ==
  ASSUME DesktopInv, UnconfigureDesktop
  PROVE  DesktopInv'
<1>1. PICK t \in Unconfigured(desk) : BeginCommand("unconfigure", RestoreOrder, t)
  BY DEF UnconfigureDesktop
<1>2. desk \in DeskDocs /\ desk.receipt # NoSetup
  BY DEF UnconfigureDesktop, DesktopInv, DesktopTypeOK
<1>3. t \in DeskDocs
  BY <1>2, UnconfiguredFields
<1>4. /\ command' \in DeskCommands /\ command' # AtRest
      /\ command'.kind = "unconfigure" /\ command'.to = t /\ command'.from = desk
      /\ ~command'.undoing
      /\ desk' = desk /\ Kept(desk) /\ failures' = failures /\ InTurn(command)'
  BY <1>1, <1>3, BeginStep
<1>5. own' = own /\ untouched' = untouched
  BY DEF UnconfigureDesktop, desktopHistory
<1>6. DesktopTypeOK'
  BY <1>2, <1>4, <1>5 DEF DesktopTypeOK, DesktopInv
<1>7. Kept(desk)' /\ Kept(command.from)'
  BY <1>4, <1>5 DEF Kept, StillApplied, BackLibrary, BackMode, Snapshot, Usable
<1>8. Meant(command)'
  BY <1>2, <1>4 DEF Meant, Unconfigured
<1> QED BY <1>4, <1>6, <1>7, <1>8 DEF DesktopInv, DeskKept, TakingBack

\* A migrate writes the endpoint of a setup that is there.
LEMMA MigrateKeeps ==
  ASSUME DesktopInv, NEW e \in Endpoints, Migrate(e)
  PROVE  DesktopInv'
<1> DEFINE t == Migrated(desk, e)
<1>1. desk \in DeskDocs /\ Owned(desk) /\ BeginCommand("migrate", MigrateOrder, t)
  BY DEF Migrate, DesktopInv, DesktopTypeOK
<1>2. t \in DeskDocs /\ t.library = desk.library /\ t.mode = desk.mode
  BY <1>1, MigratedFields
<1> HIDE DEF t
<1>3. /\ command' \in DeskCommands /\ command' # AtRest
      /\ command'.kind = "migrate" /\ command'.to = t /\ command'.from = desk
      /\ ~command'.undoing
      /\ desk' = desk /\ Kept(desk) /\ failures' = failures /\ InTurn(command)'
  BY <1>1, <1>2, BeginStep
<1>4. own' = own /\ untouched' = untouched
  BY DEF Migrate, desktopHistory
<1>5. DesktopTypeOK'
  BY <1>1, <1>3, <1>4 DEF DesktopTypeOK, DesktopInv
<1>6. Kept(desk)' /\ Kept(command.from)'
  BY <1>3, <1>4 DEF Kept, StillApplied, BackLibrary, BackMode, Snapshot, Usable
<1>7. Meant(command)'
  BY <1>1, <1>3 DEF Meant, t
<1> QED BY <1>3, <1>5, <1>6, <1>7 DEF DesktopInv, DeskKept, TakingBack

\* A failed write turns the command round.
LEMMA FailKeeps ==
  ASSUME DesktopInv, Fail, ~SecondFault
  PROVE  DesktopInv'
<1>1. /\ command \in DeskCommands /\ command.left # <<>> /\ ~command.undoing /\ InTurn(command)
      /\ Meant(command) /\ Kept(command.from) /\ desk \in DeskDocs /\ DesktopTypeOK
  <2>1. command \in DeskCommands /\ command.left # <<>> /\ command # AtRest /\ DesktopTypeOK
    BY DEF DesktopInv, DesktopTypeOK, Fail
  <2>2. ~command.undoing
    BY <2>1 DEF Fail, SecondFault, DesktopTypeOK
  <2> QED BY <2>1, <2>2 DEF DesktopInv, DeskKept, DesktopTypeOK
<1>2. /\ command.left \in LeftOf(command)
      /\ IF "profile" \in Pending(command) THEN desk.profile = command.from.profile
         ELSE desk.profile = command.to.profile
      /\ IF "library" \in Pending(command) THEN desk.library = command.from.library
         ELSE desk.library = command.to.library
      /\ IF "mode" \in Pending(command) THEN desk.mode = command.from.mode
         ELSE desk.mode = command.to.mode
  BY <1>1, TurnFields
<1>3. command.from \in DeskDocs /\ command.kind \in {"configure", "unconfigure", "migrate"}
  BY <1>1, CommandFields
<1> DEFINE o == IF command.kind = "migrate" THEN MigrateOrder ELSE RestoreOrder
           n == command'
<1>4. /\ n \in DeskCommands /\ n.kind = command.kind /\ n.left = o /\ n.to = command.from
      /\ n.from = command.from /\ n.undoing
  <2>1. n = [command EXCEPT !.left = o, !.to = command.from, !.undoing = TRUE]
    BY <1>1 DEF Fail
  <2>2. o \in Seq(Documents)
    BY OrdersOfDocs
  <2> HIDE DEF n, o
  <2>3. n = [kind |-> command.kind, left |-> o, to |-> command.from, from |-> command.from,
             undoing |-> TRUE]
    BY <1>1, <2>1, Zenon DEF DeskCommands
  <2>4. n \in DeskCommands
    <3>1. TRUE \in BOOLEAN
      OBVIOUS
    <3> QED BY <1>3, <2>2, <2>3, <3>1, Zenon DEF DeskCommands
  <2>5. n.kind = command.kind /\ n.left = o /\ n.to = command.from /\ n.from = command.from
    BY <2>3
  <2>6. n.undoing
    BY <2>3, Zenon
  <2> QED BY <2>4, <2>5, <2>6
<1>5. n # AtRest
  BY <1>4, CommandFields
<1>6. desk' = desk /\ own' = own /\ untouched' = untouched /\ failures' \in Nat
  BY <1>1 DEF Fail, desktopHistory, DesktopTypeOK
<1>7. DesktopTypeOK'
  BY <1>1, <1>4, <1>6 DEF DesktopTypeOK
<1>8. Kept(command.from)'
  BY <1>1, <1>4, <1>6 DEF Kept, StillApplied, BackLibrary, BackMode, Snapshot, Usable
<1>9. CASE command.kind = "configure"
  <2>1. "mode" \in Pending(command) /\ ("library" \notin Pending(command) => "profile" \notin Pending(command))
    BY <1>1, <1>2, <1>9, ConfigureTurns
  <2>2. /\ command.to.profile \in Endpoints
        /\ command.to.library.listed = command.from.library.listed \cup {Ours}
        /\ command.to.library.applied = Ours
    BY <1>1, <1>9, ConfiguredReceipt
  <2>3. TakingBack'
    BY <1>2, <1>4, <1>6, <2>1, <2>2 DEF TakingBack, Usable
  <2>4. Pending(n) = Documents /\ n.left \in LeftOf(n)
    BY <1>4, <1>9, PendingOf DEF RestoreOrder, Documents, LeftOf
  <2>5. InTurn(command)' /\ Meant(command)'
    BY <1>4, <2>4 DEF InTurn, Meant, Pending, LeftOf
  <2> QED BY <1>4, <1>5, <1>7, <1>8, <2>3, <2>5 DEF DesktopInv, DeskKept
<1>10. CASE command.kind = "unconfigure"
  <2>1. Pending(n) = Documents /\ n.left \in LeftOf(n)
    BY <1>4, <1>10, PendingOf DEF RestoreOrder, Documents, LeftOf
  <2>2. InTurn(command)' /\ Meant(command)'
    BY <1>4, <2>1 DEF InTurn, Meant, Pending, LeftOf
  <2> QED BY <1>4, <1>5, <1>7, <1>8, <1>10, <2>2 DEF DesktopInv, DeskKept, TakingBack
<1>11. CASE command.kind = "migrate"
  <2>1. PICK e \in Endpoints : command.to = Migrated(command.from, e)
    BY <1>1, <1>11 DEF Meant
  <2>2. command.to.profile \in Endpoints /\ command.to.library = command.from.library
        /\ command.to.mode = command.from.mode
    BY <1>1, <1>3, <1>11, <2>1, MigratedFields DEF Meant
  <2>3. desk.library = command.from.library /\ desk.mode = command.from.mode
        /\ desk.profile \in {command.from.profile} \cup Endpoints
    BY <1>2, <2>2
  <2>4. TakingBack'
    BY <1>4, <1>6, <2>3 DEF TakingBack
  <2>5. Pending(n) = {"profile", "receipt"} /\ n.left \in LeftOf(n)
    BY <1>4, <1>11, PendingOf DEF MigrateOrder, LeftOf
  <2>6. desk["library"] = n.to["library"] /\ desk["mode"] = n.to["mode"]
    BY <1>1, <1>3, <1>4, <2>3, DocFields
  <2>7. InTurn(command)' /\ Meant(command)'
    BY <1>4, <1>6, <2>5, <2>6 DEF InTurn, Meant, Pending, LeftOf, Documents
  <2> QED BY <1>4, <1>5, <1>7, <1>8, <2>4, <2>7 DEF DesktopInv, DeskKept
<1> QED BY <1>3, <1>9, <1>10, <1>11

\* Writing the next document, or putting it back.
LEMMA WriteKeeps ==
  ASSUME DesktopInv, Write
  PROVE  DesktopInv'
<1>1. /\ command \in DeskCommands /\ InTurn(command) /\ Meant(command) /\ TakingBack
      /\ Kept(command.from) /\ desk \in DeskDocs /\ DesktopTypeOK
  BY DEF DesktopInv, DeskKept, DesktopTypeOK, Write
<1>2. /\ command.left # <<>>
      /\ command' \in DeskCommands /\ command'.kind = command.kind
      /\ command'.to = command.to /\ command'.from = command.from
      /\ command'.undoing = command.undoing
      /\ desk' \in DeskDocs
      /\ IF Head(command.left) = "profile" THEN desk'.profile = command.to.profile
         ELSE desk'.profile = desk.profile
      /\ IF Head(command.left) = "library" THEN desk'.library = command.to.library
         ELSE desk'.library = desk.library
      /\ IF Head(command.left) = "mode" THEN desk'.mode = command.to.mode
         ELSE desk'.mode = desk.mode
      /\ InTurn(command)'
  BY <1>1, WriteStep
<1>3. own' = own /\ untouched' = untouched /\ failures' = failures
  BY DEF Write, desktopHistory
<1>4. DesktopTypeOK'
  BY <1>1, <1>2, <1>3 DEF DesktopTypeOK
<1>5. command # AtRest /\ command' # AtRest
  BY <1>1, <1>2, CommandFields
<1>6. Kept(command.from)'
  BY <1>1, <1>2, <1>3 DEF Kept, StillApplied, BackLibrary, BackMode, Snapshot, Usable
<1>7. Meant(command)'
  BY <1>1, <1>2, <1>3 DEF Meant
<1>8. CASE ~command.undoing
  <2>1. Kept(desk)'
    BY <1>8, WriteKept
  <2> QED BY <1>2, <1>4, <1>5, <1>6, <1>7, <1>8, <2>1 DEF DesktopInv, DeskKept, TakingBack
<1>9. CASE command.undoing /\ command.kind = "unconfigure"
  BY <1>2, <1>4, <1>5, <1>6, <1>7, <1>9 DEF DesktopInv, DeskKept, TakingBack
<1>10. CASE command.undoing /\ command.kind # "unconfigure"
  <2>1. command.to = command.from
    BY <1>1, <1>10 DEF Meant
  <2>2. /\ command.left \in LeftOf(command)
        /\ "library" \notin Pending(command) => desk.library = command.to.library
    BY <1>1, TurnFields
  <2>3. Head(command.left) = "profile" => "library" \notin Pending(command)
    <3>1. CASE command.kind = "migrate"
      BY <1>1, <1>2, <2>2, <3>1, MigrateTurns
    <3>2. CASE command.kind # "migrate"
      BY <1>1, <1>2, <1>10, <2>2, <3>2, RestoreTurns
    <3> QED BY <3>1, <3>2
  <2>4. /\ desk.mode = command.from.mode
        /\ desk.profile \in {command.from.profile} \cup Endpoints
        /\ \/ desk.library = command.from.library
           \/ Usable(desk) /\ desk.profile \in Endpoints
    BY <1>1, <1>5, <1>10 DEF TakingBack
  <2>5. /\ desk'.mode = command.from.mode
        /\ desk'.profile \in {command.from.profile} \cup Endpoints
        /\ \/ desk'.library = command.from.library
           \/ Usable(desk') /\ desk'.profile \in Endpoints
    BY <1>2, <2>1, <2>2, <2>3, <2>4 DEF Usable
  <2>6. TakingBack'
    BY <1>2, <2>5 DEF TakingBack, Usable
  <2> QED BY <1>2, <1>4, <1>5, <1>6, <1>7, <1>10, <2>6 DEF DesktopInv, DeskKept
<1> QED BY <1>8, <1>9, <1>10

\* A command that has ended has written everything, or put everything back.
LEMMA EndCommandKeeps ==
  ASSUME DesktopInv, EndCommand
  PROVE  DesktopInv'
<1>1. /\ command \in DeskCommands /\ command.left = <<>> /\ InTurn(command) /\ Meant(command)
      /\ Kept(command.from) /\ desk \in DeskDocs
      /\ ~command.undoing => Kept(desk)
  BY DEF DesktopInv, DeskKept, DesktopTypeOK, EndCommand
<1>2. Kept(desk)
  <2>1. CASE command.undoing
    <3>1. command.to = command.from
      BY <1>1, <2>1 DEF Meant
    <3>2. Pending(command) = {}
      BY <1>1, PendingOf
    <3>3. /\ desk.receipt = command.from.receipt /\ desk.profile = command.from.profile
          /\ desk.library = command.from.library /\ desk.mode = command.from.mode
      BY <1>1, <3>1, <3>2, TurnFields
    <3> QED BY <1>1, <3>3 DEF Kept, StillApplied
  <2> QED BY <1>1, <2>1
<1>3. Kept(desk)'
  BY <1>2 DEF EndCommand, desktopHistory, Kept, StillApplied, BackLibrary, BackMode, Snapshot, Usable
<1>4. DesktopTypeOK'
  BY DEF EndCommand, desktopHistory, DesktopInv, DesktopTypeOK
<1>5. command' = AtRest
  BY DEF EndCommand
<1> QED BY <1>3, <1>4, <1>5 DEF DesktopInv, DeskKept, TakingBack

\* A command that is killed leaves what it has written.
LEMMA KillCommandKeeps ==
  ASSUME DesktopInv, KillCommand
  PROVE  DesktopInv'
<1>1. Kept(desk)'
  <2>1. Kept(desk)
    BY DEF DesktopInv, DeskKept, KillCommand
  <2> QED BY <2>1 DEF KillCommand, desktopHistory, Kept, StillApplied, BackLibrary, BackMode, Snapshot, Usable
<1>2. DesktopTypeOK'
  BY DEF KillCommand, desktopHistory, DesktopInv, DesktopTypeOK
<1>3. command' = AtRest
  BY DEF KillCommand
<1> QED BY <1>1, <1>2, <1>3 DEF DesktopInv, DeskKept, TakingBack

\* What the user does in the app.
LEMMA EditKept ==
  ASSUME DesktopInv, NEW d \in DeskDocs, Edit(d), d.receipt = desk.receipt,
         desk.receipt = NoSetup =>
           d.profile = desk.profile /\ Ours \notin d.library.listed /\ d.library.applied # Ours
  PROVE  DesktopInv'
<1>1. /\ command = AtRest /\ command' = AtRest /\ desk' = d /\ untouched' = FALSE /\ own' = own
      /\ failures' = failures
  BY DEF Edit
<1>2. Kept(desk)
  BY <1>1 DEF DesktopInv, DeskKept
<1>3. Kept(desk)'
  <2>1. Snapshot(own)' = Snapshot(own)
    BY <1>1
  <2> QED BY <1>1, <1>2, <2>1 DEF Kept
<1>4. DesktopTypeOK'
  BY <1>1 DEF DesktopInv, DesktopTypeOK
<1> QED BY <1>1, <1>3, <1>4 DEF DesktopInv, DeskKept, TakingBack

\* Documents with another library, mode or profile.
LEMMA OtherDocs ==
  ASSUME NEW d \in DeskDocs, NEW l \in Libraries, NEW m \in ModeDocs,
         NEW p \in {"none", "edited"} \cup Endpoints
  PROVE  /\ [d EXCEPT !.library = l] =
              [receipt |-> d.receipt, profile |-> d.profile, library |-> l, mode |-> d.mode]
         /\ [d EXCEPT !.mode = m] =
              [receipt |-> d.receipt, profile |-> d.profile, library |-> d.library, mode |-> m]
         /\ [d EXCEPT !.profile = p] =
              [receipt |-> d.receipt, profile |-> p, library |-> d.library, mode |-> d.mode]
<1>1. ASSUME NEW n, n = [d EXCEPT !.library = l]
      PROVE  n = [receipt |-> d.receipt, profile |-> d.profile, library |-> l, mode |-> d.mode]
  BY <1>1, Zenon DEF DeskDocs
<1>2. ASSUME NEW n, n = [d EXCEPT !.mode = m]
      PROVE  n = [receipt |-> d.receipt, profile |-> d.profile, library |-> d.library, mode |-> m]
  BY <1>2, Zenon DEF DeskDocs
<1>3. ASSUME NEW n, n = [d EXCEPT !.profile = p]
      PROVE  n = [receipt |-> d.receipt, profile |-> p, library |-> d.library, mode |-> d.mode]
  BY <1>3, Zenon DEF DeskDocs
<1> QED BY <1>1, <1>2, <1>3

\* What an edit makes of the documents.
LEMMA Edits ==
  ASSUME DesktopInv, Apply \/ Remove \/ LeaveMode \/ EditEndpoint
  PROVE  /\ command = AtRest /\ DesktopInv'
         /\ Stranded(desk') => Stranded(desk)
<1>1. command = AtRest /\ desk \in DeskDocs /\ Kept(desk)
  BY DEF Apply, Remove, LeaveMode, EditEndpoint, Edit, DesktopInv, DesktopTypeOK, DeskKept
<1>2. /\ desk.receipt \in DeskReceipts /\ desk.profile \in {"none", "edited"} \cup Endpoints
      /\ desk.library \in Libraries /\ desk.mode \in ModeDocs
      /\ desk.library.listed \subseteq Profiles /\ desk.library.applied \in Profiles \cup {"absent"}
      /\ desk.mode.awaiting \in BOOLEAN
  BY <1>1, DocFields
<1>3. CASE Apply
  <2> DEFINE l == [listed |-> desk.library.listed \cup {Theirs}, applied |-> Theirs]
             d == [desk EXCEPT !.library = l]
  <2>1. l \in Libraries /\ l.listed = desk.library.listed \cup {Theirs} /\ l.applied = Theirs
    BY <1>2, MadeLibrary DEF Profiles
  <2>2. Edit(d)
    BY <1>3 DEF Apply
  <2> HIDE DEF l
  <2>3. d = [receipt |-> desk.receipt, profile |-> desk.profile, library |-> l, mode |-> desk.mode]
    BY <1>1, <1>2, <2>1, OtherDocs
  <2> HIDE DEF d
  <2>4. /\ d \in DeskDocs /\ d.receipt = desk.receipt /\ d.profile = desk.profile /\ d.library = l
    BY <1>2, <2>1, <2>3, MadeDocs
  <2>5. desk.receipt = NoSetup => Ours \notin l.listed /\ l.applied # Ours
    BY <1>1, <2>1 DEF Kept
  <2>6. DesktopInv'
    BY <2>2, <2>4, <2>5, EditKept
  <2>7. ~Stranded(desk')
    BY <2>1, <2>2, <2>4 DEF Edit, Stranded, Usable
  <2> QED BY <1>1, <2>6, <2>7
<1>4. CASE Remove
  <2> DEFINE l == [listed |-> desk.library.listed \ {Theirs}, applied |-> desk.library.applied]
             d == [desk EXCEPT !.library = l]
  <2>1. l \in Libraries /\ l.listed = desk.library.listed \ {Theirs} /\ l.applied = desk.library.applied
    BY <1>2, MadeLibrary
  <2>2. Edit(d)
    <3>1. [desk.library EXCEPT !.listed = desk.library.listed \ {Theirs}] = l
      <4>1. ASSUME NEW k \in Libraries, NEW x, NEW n, n = [k EXCEPT !.listed = x]
            PROVE  n = [listed |-> x, applied |-> k.applied]
        BY <4>1, Zenon DEF Libraries
      <4> QED BY <1>2, <4>1, Zenon
    <3> QED BY <1>4, <3>1 DEF Remove
  <2> HIDE DEF l
  <2>3. d = [receipt |-> desk.receipt, profile |-> desk.profile, library |-> l, mode |-> desk.mode]
    BY <1>1, <1>2, <2>1, OtherDocs
  <2> HIDE DEF d
  <2>4. /\ d \in DeskDocs /\ d.receipt = desk.receipt /\ d.profile = desk.profile /\ d.library = l
        /\ d.mode = desk.mode
    BY <1>2, <2>1, <2>3, MadeDocs
  <2>5. desk.receipt = NoSetup => Ours \notin l.listed /\ l.applied # Ours
    BY <1>1, <2>1 DEF Kept
  <2>6. DesktopInv'
    BY <2>2, <2>4, <2>5, EditKept
  <2>7. Stranded(desk') => Stranded(desk)
    BY <1>4, <2>1, <2>2, <2>4 DEF Remove, Edit, Stranded, Usable
  <2> QED BY <1>1, <2>6, <2>7
<1>5. CASE LeaveMode
  <2> DEFINE m == [desk.mode EXCEPT !.deployment = "1p"]
             d == [desk EXCEPT !.mode = m]
  <2>1. m \in ModeDocs /\ m = [deployment |-> "1p", awaiting |-> desk.mode.awaiting]
    BY <1>2, ModeSet DEF Modes
  <2>2. Edit(d)
    BY <1>5 DEF LeaveMode
  <2> HIDE DEF m
  <2>3. d = [receipt |-> desk.receipt, profile |-> desk.profile, library |-> desk.library, mode |-> m]
    BY <1>1, <1>2, <2>1, OtherDocs
  <2> HIDE DEF d
  <2>4. /\ d \in DeskDocs /\ d.receipt = desk.receipt /\ d.profile = desk.profile
        /\ d.library = desk.library /\ d.mode = m
    BY <1>2, <2>1, <2>3, MadeDocs
  <2>5. DesktopInv'
    BY <1>1, <2>2, <2>4, EditKept DEF Kept
  <2>6. ~Stranded(desk')
    BY <2>1, <2>2, <2>4 DEF Edit, Stranded
  <2> QED BY <1>1, <2>5, <2>6
<1>6. CASE EditEndpoint
  <2> DEFINE d == [desk EXCEPT !.profile = "edited"]
  <2>1. Edit(d) /\ desk.profile # "none"
    BY <1>6 DEF EditEndpoint
  <2>2. d = [receipt |-> desk.receipt, profile |-> "edited", library |-> desk.library, mode |-> desk.mode]
    BY <1>1, <1>2, OtherDocs
  <2> HIDE DEF d
  <2>3. /\ d \in DeskDocs /\ d.receipt = desk.receipt /\ d.profile = "edited"
        /\ d.library = desk.library /\ d.mode = desk.mode
    BY <1>2, <2>2, MadeDocs
  <2>4. desk.receipt # NoSetup
    BY <1>1, <2>1 DEF Kept
  <2>5. DesktopInv'
    BY <2>1, <2>3, <2>4, EditKept
  <2>6. Stranded(desk') => Stranded(desk)
    BY <2>1, <2>3 DEF Edit, Stranded, Usable
  <2> QED BY <1>1, <2>5, <2>6
<1> QED BY <1>3, <1>4, <1>5, <1>6

\* Initially there is no setup, and nothing has been touched.
LEMMA DesktopInitially == DesktopInit => DesktopInv
<1> SUFFICES ASSUME DesktopInit PROVE DesktopInv
  OBVIOUS
<1>1. /\ desk.receipt = NoSetup /\ desk.profile = "none"
      /\ desk.library \in [listed : {{}, {Theirs}}, applied : {"absent", Theirs}]
      /\ desk.mode \in ModeDocs
  BY DEF DesktopInit, ModeDocs
<1>2. desk.library \in Libraries
  BY <1>1, SMT DEF Libraries, Profiles
<1>3. desk \in DeskDocs
  <2>1. desk = [receipt |-> desk.receipt, profile |-> desk.profile, library |-> desk.library,
                mode |-> desk.mode]
    BY Zenon DEF DesktopInit
  <2>2. NoSetup \in DeskReceipts
    BY DEF DeskReceipts
  <2> QED BY <1>1, <1>2, <2>1, <2>2, Zenon DEF DeskDocs
<1>4. /\ own = [library |-> desk.library, mode |-> desk.mode] /\ untouched = TRUE
      /\ command = AtRest /\ failures = MaxFailures
  BY DEF DesktopInit
<1>5. own \in [library : Libraries, mode : ModeDocs] /\ own.library = desk.library /\ own.mode = desk.mode
  BY <1>1, <1>2, <1>4, SMT
<1>6. DesktopTypeOK
  BY <1>3, <1>4, <1>5 DEF DesktopTypeOK
<1>7. Ours \notin desk.library.listed /\ desk.library.applied # Ours
  BY <1>1 DEF Profiles
<1>8. Kept(desk)
  BY <1>1, <1>5, <1>7 DEF Kept, BackLibrary, BackMode
<1> QED BY <1>4, <1>6, <1>8 DEF DesktopInv, DeskKept, TakingBack

\* Every step keeps the invariant, but for a second failure.
LEMMA DesktopSteps == DesktopInv /\ [DesktopNext]_desktopVars /\ [~SecondFault]_desktopVars => DesktopInv'
<1> SUFFICES ASSUME DesktopInv, [DesktopNext]_desktopVars, [~SecondFault]_desktopVars
             PROVE  DesktopInv'
  OBVIOUS
<1>1. CASE UNCHANGED desktopVars \/ OpenOrQuit
  BY <1>1 DEF OpenOrQuit, desktopVars, desktopHistory, DesktopInv, DesktopTypeOK, DeskKept, TakingBack,
              Kept, StillApplied, BackLibrary, BackMode, Snapshot, Usable, InTurn, LeftOf, Pending, Meant
<1>2. ASSUME NEW e \in Endpoints, Configure(e) \/ Migrate(e) PROVE DesktopInv'
  BY <1>2, ConfigureKeeps, MigrateKeeps
<1>3. CASE UnconfigureDesktop
  BY <1>3, UnconfigureKeeps
<1>4. CASE Write
  BY <1>4, WriteKeeps
<1>5. CASE Fail
  <2>1. ~SecondFault
    BY <1>5 DEF Fail, DesktopInv, DesktopTypeOK, SecondFault, desktopVars
  <2> QED BY <1>5, <2>1, FailKeeps
<1>6. CASE EndCommand \/ KillCommand
  BY <1>6, EndCommandKeeps, KillCommandKeeps
<1>7. CASE Apply \/ Remove \/ LeaveMode \/ EditEndpoint
  BY <1>7, Edits
<1> QED BY <1>1, <1>2, <1>3, <1>4, <1>5, <1>6, <1>7 DEF DesktopNext

\* What the setup knows of the settings holds in every state, as long as nothing fails
\* while a failed write is taken back.  (_configure_stopped, _unconfigure_stopped,
\* _restore_document: the undo of a command is an attempt, made once.)
THEOREM DesktopInductive == DesktopSpec /\ [][~SecondFault]_desktopVars => []DesktopInv
BY DesktopInitially, DesktopSteps, PTL DEF DesktopSpec

\* When no receipt is left and the user has changed nothing, the settings are what they
\* were: whatever was written, failed or killed before.  (_restore_owned_key)
THEOREM SettingsRestored == DesktopSpec /\ [][~SecondFault]_desktopVars => []SettingsComeBack
<1>1. DesktopInv => SettingsComeBack
  BY DEF DesktopInv, DeskKept, Kept, SettingsComeBack, BackLibrary, BackMode
<1> QED BY <1>1, DesktopInductive, PTL

\* What a write does to a mode with nothing to apply.
LEMMA WriteStrands ==
  ASSUME DesktopInv, Write, Stranded(desk')
  PROVE  \/ Stranded(desk)
         \/ command.undoing /\ (Stranded(command.from) \/ command.kind = "unconfigure")
<1> DEFINE w == desk'  h == Head(command.left)
<1>1. /\ command \in DeskCommands /\ command # AtRest /\ command.left # <<>> /\ InTurn(command)
      /\ Meant(command) /\ Kept(command.from) /\ DesktopTypeOK
      /\ command.kind \in {"configure", "unconfigure", "migrate"} /\ command.from \in DeskDocs
  BY CommandFields DEF DesktopInv, DeskKept, DesktopTypeOK, Write
<1>2. /\ IF h = "profile" THEN w.profile = command.to.profile ELSE w.profile = desk.profile
      /\ IF h = "library" THEN w.library = command.to.library ELSE w.library = desk.library
      /\ IF h = "mode" THEN w.mode = command.to.mode ELSE w.mode = desk.mode
      /\ command' \in DeskCommands /\ command'.kind = command.kind
      /\ command'.from = command.from /\ command'.undoing = command.undoing
  BY <1>1, WriteStep DEF DesktopInv
<1>3. /\ command.left \in LeftOf(command)
      /\ "profile" \notin Pending(command) => desk.profile = command.to.profile
      /\ "library" \notin Pending(command) => desk.library = command.to.library
      /\ "mode" \notin Pending(command) => desk.mode = command.to.mode
      /\ ~command.undoing =>
           /\ "library" \in Pending(command) => desk.library = command.from.library
           /\ "mode" \in Pending(command) => desk.mode = command.from.mode
  BY <1>1, TurnFields DEF DesktopInv, DesktopTypeOK
<1>4. Stranded(w)
  OBVIOUS
<1> HIDE DEF w, h
<1>5. CASE command.undoing
  <2>1. command.kind # "unconfigure" =>
          /\ w.mode = command.from.mode
          /\ w.profile \in {command.from.profile} \cup Endpoints
          /\ \/ w.library = command.from.library
             \/ Usable(w) /\ w.profile \in Endpoints
    <3>1. TakingBack' /\ command' # AtRest
      BY <1>2, CommandFields, WriteKeeps DEF DesktopInv
    <3> QED BY <1>2, <1>5, <3>1 DEF TakingBack, w, Usable
  <2> QED BY <1>4, <1>5, <2>1 DEF Stranded, Usable, Endpoints
<1>6. CASE ~command.undoing /\ command.kind = "configure"
  <2>1. /\ command.to.profile \in Endpoints /\ command.to.library.applied = Ours
        /\ command.to.library.listed = command.from.library.listed \cup {Ours}
    BY <1>1, <1>6, ConfiguredReceipt
  <2>2. h \in {"receipt", "profile", "library", "mode"}
    BY <1>1, <1>3, <1>6, ConfigureTurns DEF h
  <2>3. h \in {"library", "mode"} => "profile" \notin Pending(command)
    BY <1>1, <1>3, <1>6, ConfigureTurns DEF h
  <2>4. h = "mode" => "library" \notin Pending(command)
    BY <1>1, <1>3, <1>6, ConfigureTurns DEF h
  <2>5. h \in {"library", "mode"} => w.profile \in Endpoints /\ w.library = command.to.library
    BY <1>2, <1>3, <2>1, <2>3, <2>4
  <2>6. h \notin {"library", "mode"}
    BY <1>4, <2>1, <2>5 DEF Stranded, Usable, Endpoints
  <2>7. w.library = desk.library /\ w.mode = desk.mode /\ (w.profile = desk.profile \/ w.profile \in Endpoints)
    BY <1>2, <2>1, <2>6
  <2> QED BY <1>4, <2>7 DEF Stranded, Usable, Endpoints
<1>7. CASE ~command.undoing /\ command.kind = "unconfigure"
  <2>1. command.from.receipt # NoSetup /\ command.to \in Unconfigured(command.from)
    BY <1>1, <1>7 DEF Meant
  <2>2. command.to.library.applied # Ours
    BY <1>1, <2>1, UnconfiguredBack
  <2>3. command.to.mode.deployment = "3p" =>
          Usable(command.to) /\ DeploymentBefore(command.from) = "3p"
    BY <1>1, <2>1, UnconfiguredFields
  <2>4. command.to.mode.deployment = "3p" => command.from.mode.deployment = "3p"
    BY <2>3 DEF DeploymentBefore
  <2>5. h \in {"mode", "library", "profile", "receipt"}
    BY <1>1, <1>3, <1>7, RestoreTurns DEF h
  <2>6. CASE h = "mode"
    <3>1. "mode" \in Pending(command) /\ "library" \in Pending(command)
      BY <1>1, <1>3, <1>7, <2>6, RestoreTurns DEF h
    <3>2. /\ w.mode = command.to.mode /\ desk.mode = command.from.mode
          /\ w.library = desk.library /\ w.profile = desk.profile
      BY <1>2, <1>3, <1>7, <2>6, <3>1
    <3> QED BY <1>4, <2>4, <3>2 DEF Stranded, Usable
  <2>7. CASE h # "mode"
    <3>1. "mode" \notin Pending(command) /\ (h # "library" => "library" \notin Pending(command))
      BY <1>1, <1>3, <1>7, <2>5, <2>7, RestoreTurns DEF h
    <3>2. w.mode = command.to.mode /\ w.library = command.to.library
      BY <1>2, <1>3, <2>7, <3>1
    <3> QED BY <1>4, <2>2, <2>3, <3>2 DEF Stranded, Usable
  <2> QED BY <2>6, <2>7
<1>8. CASE ~command.undoing /\ command.kind = "migrate"
  <2>1. PICK e \in Endpoints : command.to = Migrated(command.from, e)
    BY <1>1, <1>8 DEF Meant
  <2>2. command.to.profile \in Endpoints
    BY <1>1, <1>8, <2>1, MigratedFields DEF Meant
  <2>3. h \in {"profile", "receipt"}
    BY <1>1, <1>3, <1>8, MigrateTurns DEF h
  <2>4. w.library = desk.library /\ w.mode = desk.mode /\ (w.profile = desk.profile \/ w.profile \in Endpoints)
    BY <1>2, <2>2, <2>3
  <2> QED BY <1>4, <2>4 DEF Stranded, Usable, Endpoints
<1> QED BY <1>1, <1>5, <1>6, <1>7, <1>8

\* The documents change only when they are written, and when the user edits them.
LEMMA OnlyWrites ==
  ASSUME [DesktopNext]_desktopVars
  PROVE  desk' = desk \/ Write \/ Apply \/ Remove \/ LeaveMode \/ EditEndpoint
BY DEF DesktopNext, Configure, Migrate, UnconfigureDesktop, BeginCommand, Fail, EndCommand, KillCommand,
       OpenOrQuit, desktopVars

\* No step leaves the app in a mode with nothing to apply that was not so before, the
\* writes that take back a failed configure or migrate included.
\* (The order of the writes in _configure_stopped and _unconfigure_stopped.)
THEOREM AppNotStranded == DesktopSpec /\ [][~SecondFault]_desktopVars => NeverStranded
<1> DEFINE Step == Stranded(desk') =>
                     \/ Stranded(desk)
                     \/ command.undoing /\ (Stranded(command.from) \/ command.kind = "unconfigure")
<1>1. DesktopInv /\ [DesktopNext]_desktopVars => [Step]_desktopVars
  <2> SUFFICES ASSUME DesktopInv, [DesktopNext]_desktopVars PROVE Step
    OBVIOUS
  <2>1. CASE desk' = desk
    BY <2>1
  <2>2. CASE Write
    BY <2>2, WriteStrands
  <2>3. CASE Apply \/ Remove \/ LeaveMode \/ EditEndpoint
    BY <2>3, Edits
  <2> QED BY <2>1, <2>2, <2>3, OnlyWrites
<1> QED BY <1>1, DesktopInductive, PTL DEF DesktopSpec, NeverStranded

\* What the user has chosen in the app since stands but for a configure.
\* (_validate_owned_profile_fields, _restore_owned_key)
THEOREM UserChoicesStand == DesktopSpec /\ [][~SecondFault]_desktopVars => ChoicesStand
<1> DEFINE Choice == command # AtRest /\ command.kind # "configure" /\ ~command.undoing
           Step == Choice =>
             /\ desk.profile = "edited" /\ command.kind = "migrate" => desk'.profile = "edited"
             /\ desk.library.applied = Theirs => desk'.library.applied = Theirs
             /\ desk.mode.deployment = "1p" => desk'.mode.deployment = "1p"
<1>1. DesktopInv /\ [DesktopNext]_desktopVars => [Step]_desktopVars
  <2> SUFFICES ASSUME DesktopInv, [DesktopNext]_desktopVars, Choice PROVE Step
    OBVIOUS
  <2>1. CASE desk' = desk
    BY <2>1
  <2>2. CASE Apply \/ Remove \/ LeaveMode \/ EditEndpoint
    BY <2>2, Edits
  <2>3. CASE Write
    <3> DEFINE w == desk'  h == Head(command.left)
    <3>1. /\ command \in DeskCommands /\ command.left # <<>> /\ InTurn(command) /\ Meant(command)
          /\ DesktopTypeOK /\ command.kind \in {"unconfigure", "migrate"} /\ ~command.undoing
          /\ command.from \in DeskDocs
      BY <2>3, CommandFields DEF DesktopInv, DesktopTypeOK, Write
    <3>2. /\ IF h = "profile" THEN w.profile = command.to.profile ELSE w.profile = desk.profile
          /\ IF h = "library" THEN w.library = command.to.library ELSE w.library = desk.library
          /\ IF h = "mode" THEN w.mode = command.to.mode ELSE w.mode = desk.mode
      BY <2>3, WriteStep DEF DesktopInv
    <3>3. /\ command.left \in LeftOf(command)
          /\ "profile" \in Pending(command) => desk.profile = command.from.profile
          /\ "library" \in Pending(command) => desk.library = command.from.library
          /\ "mode" \in Pending(command) => desk.mode = command.from.mode
      BY <3>1, TurnFields DEF DesktopTypeOK
    <3> HIDE DEF w, h
    <3>4. CASE command.kind = "unconfigure"
      <4>1. command.from.receipt # NoSetup /\ command.to \in Unconfigured(command.from)
        BY <3>1, <3>4 DEF Meant
      <4>2. /\ command.from.library.applied = Theirs => command.to.library.applied = Theirs
            /\ command.from.mode.deployment = "1p" => command.to.mode.deployment = "1p"
        BY <3>1, <4>1, UnconfiguredFields DEF StillApplied, DeploymentBefore
      <4>3. h = "library" => "library" \in Pending(command)
        BY <3>1, <3>3, <3>4, RestoreTurns DEF h
      <4>4. h = "mode" => "mode" \in Pending(command)
        BY <3>1, <3>3, <3>4, RestoreTurns DEF h
      <4>5. /\ desk.library.applied = Theirs => w.library.applied = Theirs
            /\ desk.mode.deployment = "1p" => w.mode.deployment = "1p"
        BY <3>2, <3>3, <4>2, <4>3, <4>4
      <4> QED BY <3>4, <4>5 DEF w
    <3>5. CASE command.kind = "migrate"
      <4>1. h \in {"profile", "receipt"} /\ (h = "profile" => "profile" \in Pending(command))
        BY <3>1, <3>3, <3>5, MigrateTurns DEF h
      <4>2. command.from.profile \in Endpoints
        <5>1. command.from.receipt # NoSetup /\ command.from.profile = command.from.receipt.endpoint
          BY <3>1, <3>5 DEF Meant, Owned
        <5> QED BY <3>1, <5>1, DocFields, ReceiptFields
      <4>3. /\ desk.profile = "edited" => w.profile = "edited"
            /\ w.library = desk.library /\ w.mode = desk.mode
        BY <3>2, <3>3, <4>1, <4>2 DEF Endpoints
      <4> QED BY <4>3 DEF w
    <3> QED BY <3>1, <3>4, <3>5
  <2> QED BY <2>1, <2>2, <2>3, OnlyWrites
<1> QED BY <1>1, DesktopInductive, PTL DEF DesktopSpec, ChoicesStand

-----------------------------------------------------------------------------
(* Codex: runs and receipts.                                                *)

Configuring == {"index", "receipt", "config", "sync", "undo", "undoConfig", "undoReceipt"}
Restoring == {"restore", "redo", "own", "reclaim", "remove"}
ThreadSets == SUBSET Threads
EntryMaps == [Threads -> Entries]
Flags == BOOLEAN
ThreadReceipts == [entries : EntryMaps, preexisting : ThreadSets, written : Flags]
Stages == Configuring \cup Restoring
NameIndexes == [Threads -> Places \cup {"unread"}]
Configures ==
  [at : Configuring, found : EntryMaps, previous : ThreadReceipts,
   provider : {"own", "router"}, entries : EntryMaps, todo : ThreadSets,
   missed : ThreadSets, again : Flags, names : NameIndexes]
Restores ==
  [at : Restoring, entries : EntryMaps, todo : ThreadSets,
   missed : ThreadSets, again : Flags, names : NameIndexes]
AtWork == Configures \cup Restores

RewriteTypes ==
  /\ transcript \in [Threads -> Tags] /\ indexRow \in [Threads -> Tags]
  /\ place \in [Threads -> Places]
  /\ threadReceipt \in ThreadReceipts
  /\ activeProvider \in {"own", "router"}
  /\ owed \in [Threads -> [tag : Tags, row : Tags]]
  /\ halfway \in BOOLEAN
  /\ rewrite \in {Idle} \cup AtWork

\* A run is of one kind, which its stage tells.
LEMMA RunKinds ==
  ASSUME rewrite \in {Idle} \cup AtWork
  PROVE  /\ rewrite.at \in Configuring => rewrite \in Configures
         /\ rewrite.at \in Restoring => rewrite \in Restores
         /\ rewrite # Idle => rewrite.at \in Stages
         /\ rewrite.at \in {"idle"} \cup Stages
         /\ rewrite = Idle <=> rewrite.at = "idle"
<1>1. rewrite = Idle => rewrite.at = "idle"
  BY DEF Idle
<1>2. rewrite \in Configures => rewrite.at \in Configuring
  BY Zenon DEF Configures
<1>3. rewrite \in Restores => rewrite.at \in Restoring
  BY Zenon DEF Restores
<1>4. Configuring \cap Restoring = {} /\ "idle" \notin Stages
  BY DEF Configuring, Restoring, Stages
<1>5. QED BY <1>1, <1>2, <1>3, <1>4 DEF AtWork, Stages

\* What a run holds.
LEMMA RunParts ==
  /\ \A r \in Configures : r.found \in EntryMaps /\ r.previous \in ThreadReceipts
                           /\ r.provider \in {"own", "router"}
  /\ \A r \in AtWork :
       /\ r.entries \in EntryMaps /\ r.todo \in ThreadSets
       /\ r.missed \in ThreadSets /\ r.again \in Flags /\ r.names \in NameIndexes
BY Zenon DEF Configures, Restores, AtWork

\* A run with other parts.
With(r, at, entries, todo, missed, again, names) ==
  [r EXCEPT !.at = at, !.entries = entries, !.todo = todo, !.missed = missed, !.again = again,
            !.names = names]
PartsOk(entries, todo, missed, again, names) ==
  /\ entries \in EntryMaps /\ todo \in ThreadSets /\ missed \in ThreadSets /\ again \in Flags
  /\ names \in NameIndexes
SameKind(a, b) == a \in Configuring <=> b \in Configuring

\* A run whose parts are replaced is a run of its kind, with those parts.
LEMMA RunWith ==
  ASSUME NEW r \in AtWork, NEW entries, NEW todo, NEW missed, NEW again, NEW names,
         PartsOk(entries, todo, missed, again, names),
         NEW at \in Stages, SameKind(at, r.at), NEW n, n = With(r, at, entries, todo, missed, again, names)
  PROVE  /\ n \in AtWork
         /\ n.at = at /\ n.entries = entries /\ n.todo = todo /\ n.missed = missed
         /\ n.again = again /\ n.names = names
         /\ r.at \in Configuring => n.found = r.found /\ n.previous = r.previous
                                    /\ n.provider = r.provider
<1>p. /\ entries \in EntryMaps /\ todo \in ThreadSets /\ missed \in ThreadSets /\ again \in Flags
      /\ names \in NameIndexes
  BY Zenon DEF PartsOk
<1>1. CASE r \in Configures
  <2>1. n = [at |-> at, found |-> r.found, previous |-> r.previous, provider |-> r.provider,
             entries |-> entries, todo |-> todo, missed |-> missed, again |-> again, names |-> names]
    BY <1>1, Zenon DEF Configures, With
  <2>2. r.at \in Configuring
    BY <1>1, Zenon DEF Configures
  <2>3. at \in Configuring
    BY <2>2, Zenon DEF SameKind
  <2>4. n \in Configures
    <3>1. r.found \in EntryMaps /\ r.previous \in ThreadReceipts
          /\ r.provider \in {"own", "router"}
      BY <1>1, RunParts, Zenon
    <3>2. QED BY ONLY <2>1, <2>3, <3>1, <1>p, Zenon
              DEF Configures
  <2>5. n \in AtWork
    BY <2>4, Zenon DEF AtWork
  <2>6. QED BY ONLY <2>1, <2>5, Zenon
<1>2. CASE r \in Restores
  <2>1. n = [at |-> at, entries |-> entries, todo |-> todo, missed |-> missed, again |-> again,
             names |-> names]
    BY <1>2, Zenon DEF Restores, With
  <2>2. r.at \in Restoring
    BY <1>2, Zenon DEF Restores
  <2>3. r.at \notin Configuring /\ at \in Restoring
    BY <2>2 DEF SameKind, Configuring, Restoring, Stages
  <2>4. n \in Restores
    BY ONLY <2>1, <2>3, <1>p, Zenon DEF Restores
  <2>5. n \in AtWork
    BY <2>4, Zenon DEF AtWork
  <2>6. QED BY ONLY <2>1, <2>2, <2>3, <2>5, Zenon
<1>3. QED BY <1>1, <1>2, Zenon DEF AtWork

\* EXCEPT leaves alone what it does not name.
LEMMA RunsAsThey ==
  ASSUME NEW r \in AtWork, NEW x
  PROVE  /\ [r EXCEPT !.at = x] = With(r, x, r.entries, r.todo, r.missed, r.again, r.names)
         /\ [r EXCEPT !.todo = x] = With(r, r.at, r.entries, x, r.missed, r.again, r.names)
<1>1. CASE r \in Configures
  BY <1>1, Zenon DEF Configures, With
<1>2. CASE r \in Restores
  BY <1>2, Zenon DEF Restores, With
<1>3. QED BY <1>1, <1>2, Zenon DEF AtWork
-----------------------------------------------------------------------------
(* Codex: what each step does to its run.                                   *)

SameFound ==
  rewrite.at \in Configuring => /\ rewrite'.found = rewrite.found
                                /\ rewrite'.previous = rewrite.previous
                                /\ rewrite'.provider = rewrite.provider
SamePass == /\ rewrite'.todo = rewrite.todo /\ rewrite'.missed = rewrite.missed
            /\ rewrite'.again = rewrite.again /\ rewrite'.names = rewrite.names

\* A step to the next stage.
LEMMA Turns ==
  ASSUME RewriteTypes, rewrite # Idle, NEW step \in Stages,
         SameKind(step, rewrite.at), Turn(step)
  PROVE  /\ rewrite' \in AtWork /\ rewrite'.at = step
         /\ rewrite'.entries = rewrite.entries /\ SamePass /\ SameFound
<1>1. rewrite \in AtWork
  BY Zenon DEF RewriteTypes
<1>2. /\ rewrite.entries \in EntryMaps /\ rewrite.todo \in ThreadSets
      /\ rewrite.missed \in ThreadSets /\ rewrite.again \in Flags
      /\ rewrite.names \in NameIndexes
  BY <1>1, RunParts, Zenon
<1>3. rewrite' = With(rewrite, step, rewrite.entries, rewrite.todo, rewrite.missed,
                      rewrite.again, rewrite.names)
  BY <1>1, RunsAsThey, Zenon DEF Turn
<1>p. PartsOk(rewrite.entries, rewrite.todo, rewrite.missed, rewrite.again, rewrite.names)
  BY <1>2, Zenon DEF PartsOk
<1>4. /\ rewrite' \in AtWork
      /\ rewrite'.at = step /\ rewrite'.entries = rewrite.entries /\ rewrite'.todo = rewrite.todo
      /\ rewrite'.missed = rewrite.missed
      /\ rewrite'.again = rewrite.again /\ rewrite'.names = rewrite.names
      /\ rewrite.at \in Configuring => /\ rewrite'.found = rewrite.found
                                       /\ rewrite'.previous = rewrite.previous
                                       /\ rewrite'.provider = rewrite.provider
  BY <1>1, <1>p, <1>3, RunWith
<1>5. QED BY <1>4, Zenon DEF SamePass, SameFound

\* A pass begins.
LEMMA PassesBegin ==
  ASSUME RewriteTypes, rewrite # Idle, NEW step \in Stages,
         SameKind(step, rewrite.at),
         NEW es \in EntryMaps, BeginPass(step, es)
  PROVE  /\ rewrite' \in AtWork /\ rewrite'.at = step
         /\ rewrite'.entries = es /\ rewrite'.todo = Recorded(es) /\ rewrite'.missed = {}
         /\ rewrite'.again = FALSE /\ SameFound
<1> DEFINE nobody == {}
           no == FALSE
<1>1. rewrite \in AtWork
  BY Zenon DEF RewriteTypes
<1>2. /\ Recorded(es) \in ThreadSets /\ nobody \in ThreadSets /\ no \in Flags
      /\ Unread \in NameIndexes
  BY DEF Recorded, Unread, NameIndexes, Flags, ThreadSets
<1>3. rewrite' = With(rewrite, step, es, Recorded(es), nobody, no, Unread)
  BY Zenon DEF BeginPass, With
<1> HIDE DEF nobody, no
<1>p. PartsOk(es, Recorded(es), nobody, no, Unread)
  BY <1>2, Zenon DEF PartsOk
<1>4. /\ rewrite' \in AtWork
      /\ rewrite'.at = step /\ rewrite'.entries = es /\ rewrite'.todo = Recorded(es)
      /\ rewrite'.missed = nobody /\ rewrite'.again = no
      /\ rewrite.at \in Configuring => /\ rewrite'.found = rewrite.found
                                       /\ rewrite'.previous = rewrite.previous
                                       /\ rewrite'.provider = rewrite.provider
  BY <1>1, <1>p, <1>3, RunWith
<1>5. QED BY <1>4, Zenon DEF SameFound, nobody, no

\* A run goes on with other threads to do.
LEMMA Continues ==
  ASSUME RewriteTypes, rewrite # Idle, NEW todo \in ThreadSets, NEW missed \in ThreadSets,
         NEW again \in Flags, NEW names \in NameIndexes,
         \/ /\ rewrite' = [rewrite EXCEPT !.todo = todo] /\ missed = rewrite.missed
            /\ again = rewrite.again /\ names = rewrite.names
         \/ /\ rewrite' = [rewrite EXCEPT !.todo = todo, !.names = names, !.missed = missed]
            /\ again = rewrite.again
         \/ rewrite' = [rewrite EXCEPT !.todo = todo, !.missed = missed, !.again = again,
                                       !.names = names]
  PROVE  /\ rewrite' \in AtWork /\ rewrite'.at = rewrite.at
         /\ rewrite'.entries = rewrite.entries /\ rewrite'.todo = todo /\ rewrite'.missed = missed
         /\ rewrite'.again = again /\ rewrite'.names = names /\ SameFound
<1>1. rewrite \in AtWork
  BY Zenon DEF RewriteTypes
<1>2. rewrite.entries \in EntryMaps
  BY <1>1, RunParts, Zenon
<1>3. rewrite' = With(rewrite, rewrite.at, rewrite.entries, todo, missed, again, names)
  <2>1. CASE /\ rewrite' = [rewrite EXCEPT !.todo = todo] /\ missed = rewrite.missed
             /\ again = rewrite.again /\ names = rewrite.names
    <3>1. rewrite' = With(rewrite, rewrite.at, rewrite.entries, todo, rewrite.missed,
                          rewrite.again, rewrite.names)
      BY <1>1, <2>1, RunsAsThey, Zenon
    <3>2. QED BY ONLY <3>1, <2>1, Zenon
  <2>2. CASE /\ rewrite' = [rewrite EXCEPT !.todo = todo, !.names = names, !.missed = missed]
             /\ again = rewrite.again
    <3>1. rewrite' = With(rewrite, rewrite.at, rewrite.entries, todo, missed, rewrite.again, names)
      <4>1. CASE rewrite \in Configures
        BY ONLY <4>1, <2>2, Zenon DEF Configures, With
      <4>2. CASE rewrite \in Restores
        BY ONLY <4>2, <2>2, Zenon DEF Restores, With
      <4>3. QED BY <1>1, <4>1, <4>2, Zenon DEF AtWork
    <3>2. QED BY ONLY <3>1, <2>2, Zenon
  <2>3. CASE rewrite' = [rewrite EXCEPT !.todo = todo, !.missed = missed, !.again = again,
                                        !.names = names]
    <3>1. CASE rewrite \in Configures
      BY ONLY <3>1, <2>3, Zenon DEF Configures, With
    <3>2. CASE rewrite \in Restores
      BY ONLY <3>2, <2>3, Zenon DEF Restores, With
    <3>3. QED BY <1>1, <3>1, <3>2, Zenon DEF AtWork
  <2>4. QED BY <2>1, <2>2, <2>3, Zenon
<1>4. rewrite.at \in Stages
  BY <1>1, RunKinds, Zenon DEF RewriteTypes, Stages
<1>s. SameKind(rewrite.at, rewrite.at)
  BY DEF SameKind
<1>p. PartsOk(rewrite.entries, todo, missed, again, names)
  BY <1>2, Zenon DEF PartsOk
<1>5. /\ rewrite' \in AtWork
      /\ rewrite'.at = rewrite.at /\ rewrite'.entries = rewrite.entries /\ rewrite'.todo = todo
      /\ rewrite'.missed = missed
      /\ rewrite'.again = again /\ rewrite'.names = names
      /\ rewrite.at \in Configuring => /\ rewrite'.found = rewrite.found
                                       /\ rewrite'.previous = rewrite.previous
                                       /\ rewrite'.provider = rewrite.provider
  BY <1>1, <1>p, <1>3, <1>4, <1>s, RunWith
<1>6. QED BY <1>5, Zenon DEF SameFound

\* A thread is visited.
LEMMA Visits ==
  ASSUME RewriteTypes, NEW t \in Threads, Visit(t)
  PROVE  /\ rewrite' \in AtWork /\ rewrite'.at = rewrite.at
         /\ rewrite'.entries = rewrite.entries /\ rewrite'.todo = rewrite.todo \ {t}
         /\ rewrite'.missed \in {rewrite.missed, rewrite.missed \cup {t}}
         /\ rewrite'.missed = rewrite.missed => rewrite.entries[t].tag = "none" \/ Found(t) \/ t \in rewrite.missed
         /\ rewrite'.missed = rewrite.missed \/ ~Found(t)
         /\ rewrite'.again = rewrite.again
         /\ rewrite'.names \in {Names, rewrite.names} /\ SameFound
<1>1. rewrite \in AtWork /\ rewrite # Idle
  <2>1. rewrite.at # "idle"
    BY DEF Visit, Passes, ToRouter
  <2>2. QED BY <2>1, RunKinds, Zenon DEF RewriteTypes
<1>2. /\ rewrite.entries \in EntryMaps /\ rewrite.todo \in ThreadSets
      /\ rewrite.missed \in ThreadSets /\ rewrite.again \in Flags
      /\ rewrite.names \in NameIndexes /\ place \in NameIndexes
  <2>1. place \in NameIndexes
    BY DEF RewriteTypes, NameIndexes
  <2>2. QED BY <1>1, <2>1, RunParts, Zenon
<1> DEFINE tag == rewrite.entries[t].tag
           names == IF tag # "none" /\ Stale(t) THEN Names ELSE rewrite.names
           missed == IF tag # "none" /\ ~Found(t) THEN rewrite.missed \cup {t} ELSE rewrite.missed
           todo == rewrite.todo \ {t}
<1>3. rewrite' = [rewrite EXCEPT !.todo = todo, !.names = names, !.missed = missed]
  BY <1>1, Zenon DEF Visit
<1>4. names \in NameIndexes /\ missed \in ThreadSets /\ todo \in ThreadSets
      /\ names \in {Names, rewrite.names} /\ missed \in {rewrite.missed, rewrite.missed \cup {t}}
  <2>1. Names \in NameIndexes
    BY <1>2, Zenon DEF Names
  <2>2. QED BY <1>2, <2>1 DEF ThreadSets
<1>5. /\ missed = rewrite.missed => tag = "none" \/ Found(t) \/ t \in rewrite.missed
      /\ missed = rewrite.missed \/ ~Found(t)
  OBVIOUS
<1> HIDE DEF names, missed, todo
<1>6. /\ rewrite' \in AtWork /\ rewrite'.at = rewrite.at
      /\ rewrite'.entries = rewrite.entries /\ rewrite'.todo = todo /\ rewrite'.missed = missed
      /\ rewrite'.again = rewrite.again /\ rewrite'.names = names /\ SameFound
  BY <1>1, <1>2, <1>3, <1>4, Continues, Zenon
<1>7. QED BY <1>4, <1>5, <1>6, Zenon DEF todo

\* The next look.
LEMMA LooksAgain ==
  ASSUME RewriteTypes, LookAgain
  PROVE  /\ rewrite' \in AtWork /\ rewrite'.at = rewrite.at
         /\ rewrite'.entries = rewrite.entries /\ rewrite'.todo = rewrite.missed
         /\ rewrite'.missed = {} /\ rewrite'.again = TRUE /\ rewrite'.names = place /\ SameFound
<1>1. rewrite \in AtWork /\ rewrite # Idle
  <2>1. rewrite.at # "idle"
    BY DEF LookAgain, Passes, ToRouter
  <2>2. QED BY <2>1, RunKinds, Zenon DEF RewriteTypes
<1>2. /\ rewrite.missed \in ThreadSets /\ {} \in ThreadSets /\ TRUE \in Flags
      /\ place \in NameIndexes
  <2>1. place \in NameIndexes
    BY DEF RewriteTypes, NameIndexes
  <2>2. rewrite.missed \in ThreadSets
    BY <1>1, RunParts, Zenon
  <2>3. QED BY <2>1, <2>2 DEF Flags, ThreadSets
<1>3. rewrite' = [rewrite EXCEPT !.todo = rewrite.missed, !.missed = {}, !.again = TRUE,
                                 !.names = place]
  BY Zenon DEF LookAgain
<1>4. QED BY ONLY <1>1, <1>2, <1>3, Continues, ZenonT(40), RewriteTypes

\* A thread is reclaimed.
LEMMA Reclaims ==
  ASSUME RewriteTypes, NEW t \in Threads, Reclaim(t)
  PROVE  /\ rewrite' \in AtWork /\ rewrite'.at = "reclaim"
         /\ rewrite'.entries = rewrite.entries /\ rewrite'.todo = rewrite.todo \ {t}
<1>1. rewrite \in AtWork /\ rewrite # Idle
  <2>1. rewrite.at # "idle"
    BY DEF Reclaim
  <2>2. QED BY <2>1, RunKinds, Zenon DEF RewriteTypes
<1>2. rewrite.todo \ {t} \in ThreadSets
  <2>1. rewrite.todo \in ThreadSets
    BY <1>1, RunParts, Zenon
  <2>2. QED BY <2>1 DEF ThreadSets
<1>3. /\ rewrite.missed \in ThreadSets /\ rewrite.again \in Flags
      /\ rewrite.names \in NameIndexes
  BY <1>1, RunParts, Zenon
<1>4. rewrite' = [rewrite EXCEPT !.todo = rewrite.todo \ {t}] /\ rewrite.at = "reclaim"
  BY Zenon DEF Reclaim
<1>5. QED BY ONLY <1>1, <1>2, <1>3, <1>4, Continues, Zenon, RewriteTypes

\* The restored provider is active: all threads are to be looked at.
LEMMA Reclaiming ==
  ASSUME RewriteTypes, PointAtOwn
  PROVE  /\ rewrite' \in AtWork /\ rewrite'.at = "reclaim"
         /\ rewrite'.entries = rewrite.entries /\ rewrite'.todo = Threads
<1>1. rewrite.at = "own"
  BY DEF PointAtOwn
<1>2. rewrite \in Restores
  <2>1. "own" \in Restoring
    BY DEF Restoring
  <2>2. QED BY <1>1, <2>1, RunKinds, Zenon DEF RewriteTypes
<1>3. rewrite' = [at |-> "reclaim", entries |-> rewrite.entries, todo |-> Threads,
                  missed |-> rewrite.missed, again |-> rewrite.again, names |-> rewrite.names]
  BY <1>2, Zenon DEF PointAtOwn, Restores
<1>4. "reclaim" \in Restoring /\ Threads \in ThreadSets
  BY DEF Restoring, ThreadSets
<1>5. rewrite' \in Restores
  BY <1>2, <1>3, <1>4, RunParts, Zenon DEF Restores
<1>6. QED BY <1>3, <1>5, Zenon DEF AtWork

\* The index is read.
LEMMA IndexReads ==
  ASSUME RewriteTypes, ReadIndex
  PROVE  /\ rewrite.at = "index" /\ rewrite \in Configures /\ rewrite'.at = "receipt"
         /\ rewrite'.found = WithIndex(rewrite.found)
         /\ rewrite'.previous = rewrite.previous /\ rewrite'.provider = rewrite.provider
         /\ WithIndex(rewrite.found) \in EntryMaps => rewrite' \in Configures
<1>1. rewrite.at = "index"
  BY DEF ReadIndex
<1>2. rewrite \in Configures
  <2>1. "index" \in Configuring
    BY DEF Configuring
  <2>2. QED BY <1>1, <2>1, RunKinds, Zenon DEF RewriteTypes
<1>3. rewrite' = [at |-> "receipt", found |-> WithIndex(rewrite.found),
                  previous |-> rewrite.previous, provider |-> rewrite.provider,
                  entries |-> rewrite.entries, todo |-> rewrite.todo, missed |-> rewrite.missed,
                  again |-> rewrite.again, names |-> rewrite.names]
  BY <1>2, Zenon DEF ReadIndex, Configures
<1>4. "receipt" \in Configuring
  BY DEF Configuring
<1>5. WithIndex(rewrite.found) \in EntryMaps => rewrite' \in Configures
  BY <1>2, <1>3, <1>4, RunParts, Zenon DEF Configures
<1>6. QED BY <1>1, <1>2, <1>3, <1>5, Zenon
-----------------------------------------------------------------------------
(* Codex: entries.                                                          *)

\* An entry that says something is one.
LEMMA EntriesSay ==
  /\ NoEntry \in Entries /\ NoEntry.tag = "none" /\ NoEntry.row = "none"
  /\ \A e \in Entries : /\ e.tag \in Tags \ {"router"} /\ e.row \in Tags /\ e.place \in Places
                        /\ e.tag # "none" \/ e.row # "none" => e # NoEntry
BY DEF NoEntry, Entries, Tags, Providers, Places

\* What is found in the transcripts.
LEMMA FoundInTranscripts ==
  ASSUME transcript \in [Threads -> Tags], place \in [Threads -> Places]
  PROVE  /\ FromTranscripts \in EntryMaps
         /\ \A t \in Threads :
              \/ transcript[t] \in {"none", "router"} /\ FromTranscripts[t] = NoEntry
              \/ /\ transcript[t] \notin {"none", "router"}
                 /\ FromTranscripts[t].tag = transcript[t] /\ FromTranscripts[t].row = "none"
<1>1. ASSUME NEW t \in Threads
      PROVE  LET f == IF transcript[t] \in {"none", "router"} THEN NoEntry
                      ELSE [tag |-> transcript[t], row |-> "none", place |-> place[t]]
             IN /\ f \in Entries
                /\ \/ transcript[t] \in {"none", "router"} /\ f = NoEntry
                   \/ /\ transcript[t] \notin {"none", "router"}
                      /\ f.tag = transcript[t] /\ f.row = "none"
  BY <1>1, EntriesSay DEF Entries, Tags
<1>2. QED BY <1>1, Zenon DEF FromTranscripts, EntryMaps

\* A row is added to an entry.
LEMMA EntryWithRow ==
  ASSUME NEW e \in Entries, NEW row \in Tags
  PROVE  /\ [e EXCEPT !.row = row] \in Entries
         /\ [e EXCEPT !.row = row].tag = e.tag /\ [e EXCEPT !.row = row].row = row
BY Zenon DEF Entries

\* What the index adds.
LEMMA FoundInIndex ==
  ASSUME indexRow \in [Threads -> Tags], place \in [Threads -> Places], NEW found \in EntryMaps
  PROVE  /\ WithIndex(found) \in EntryMaps
         /\ \A t \in Threads :
              \/ /\ found[t] # NoEntry
                 /\ WithIndex(found)[t].tag = found[t].tag /\ WithIndex(found)[t].row = indexRow[t]
              \/ /\ found[t] = NoEntry /\ indexRow[t] \in {"none", "router"}
                 /\ WithIndex(found)[t] = NoEntry
              \/ /\ found[t] = NoEntry /\ indexRow[t] \notin {"none", "router"}
                 /\ WithIndex(found)[t].tag = "none" /\ WithIndex(found)[t].row = indexRow[t]
<1>1. ASSUME NEW t \in Threads
      PROVE  LET f == found[t]
                 g == IF f # NoEntry THEN [f EXCEPT !.row = indexRow[t]]
                      ELSE IF indexRow[t] \in {"none", "router"} THEN NoEntry
                      ELSE [tag |-> "none", row |-> indexRow[t], place |-> place[t]]
             IN /\ g \in Entries
                /\ \/ f # NoEntry /\ g.tag = f.tag /\ g.row = indexRow[t]
                   \/ f = NoEntry /\ indexRow[t] \in {"none", "router"} /\ g = NoEntry
                   \/ /\ f = NoEntry /\ indexRow[t] \notin {"none", "router"}
                      /\ g.tag = "none" /\ g.row = indexRow[t]
  <2>1. found[t] \in Entries /\ indexRow[t] \in Tags /\ place[t] \in Places
    BY <1>1 DEF EntryMaps
  <2>2. CASE found[t] # NoEntry
    BY <2>1, <2>2, EntryWithRow, Zenon
  <2>3. CASE found[t] = NoEntry
    BY <2>1, <2>3, EntriesSay DEF Entries, Tags
  <2>4. QED BY <2>2, <2>3
<1>2. QED BY <1>1, Zenon DEF WithIndex, EntryMaps

\* A recorded entry stays.
LEMMA MergedEntries ==
  ASSUME NEW kept \in EntryMaps, NEW found \in EntryMaps
  PROVE  /\ Merged(kept, found) \in EntryMaps
         /\ \A t \in Threads :
              \/ kept[t] = NoEntry /\ Merged(kept, found)[t] = found[t]
              \/ /\ kept[t] # NoEntry /\ kept[t].tag = "none" /\ found[t].tag # "none"
                 /\ Merged(kept, found)[t].tag = found[t].tag
                 /\ Merged(kept, found)[t].row = kept[t].row
              \/ kept[t] # NoEntry /\ Merged(kept, found)[t] = kept[t]
<1>1. ASSUME NEW t \in Threads
      PROVE  LET a == kept[t]
                 b == found[t]
                 m == IF a = NoEntry THEN b
                      ELSE IF a.tag = "none" /\ b.tag # "none" THEN [b EXCEPT !.row = a.row] ELSE a
             IN /\ m \in Entries
                /\ \/ a = NoEntry /\ m = b
                   \/ /\ a # NoEntry /\ a.tag = "none" /\ b.tag # "none"
                      /\ m.tag = b.tag /\ m.row = a.row
                   \/ a # NoEntry /\ m = a
  <2>1. kept[t] \in Entries /\ found[t] \in Entries /\ kept[t].row \in Tags
    BY <1>1, EntriesSay DEF EntryMaps
  <2>2. QED BY <2>1, EntryWithRow, Zenon
<1>2. QED BY <1>1, Zenon DEF Merged, EntryMaps

\* The rows of a map of entries.
LEMMA RowsWritten ==
  ASSUME indexRow \in [Threads -> Tags], NEW es \in EntryMaps
  PROVE  /\ RowsToRouter(es) \in [Threads -> Tags] /\ RowsRestored(es) \in [Threads -> Tags]
         /\ \A t \in Threads :
              /\ RowsToRouter(es)[t] = indexRow[t]
                 \/ /\ RowsToRouter(es)[t] = "router" /\ indexRow[t] # "none"
                    /\ \/ es[t].row # "none" /\ indexRow[t] = es[t].row
                       \/ es[t].row = "none" /\ indexRow[t] = es[t].tag
              /\ \/ indexRow[t] = "router" /\ es[t].row # "none" /\ RowsRestored(es)[t] = es[t].row
                 \/ ~(indexRow[t] = "router" /\ es[t].row # "none")
                    /\ RowsRestored(es)[t] = indexRow[t]
<1>1. ASSUME NEW t \in Threads
      PROVE  /\ indexRow[t] \in Tags /\ es[t].row \in Tags /\ "router" \in Tags
  BY <1>1, EntriesSay DEF EntryMaps, Tags, Providers
<1>2. QED BY <1>1 DEF RowsToRouter, RowsRestored

\* Retagging one transcript.
LEMMA Retags ==
  ASSUME transcript \in [Threads -> Tags], NEW t \in Threads, NEW from \in Tags, NEW to \in Tags,
         Retag(t, from, to)
  PROVE  /\ transcript' \in [Threads -> Tags]
         /\ transcript'[t] = IF transcript[t] = from THEN to ELSE transcript[t]
         /\ \A u \in Threads \ {t} : transcript'[u] = transcript[u]
BY DEF Retag
-----------------------------------------------------------------------------
(* Codex: every step keeps the types.                                       *)

\* What is read of a run at work.
LEMMA PartsAtWork ==
  ASSUME RewriteTypes, rewrite # Idle
  PROVE  /\ rewrite \in AtWork /\ rewrite.entries \in EntryMaps /\ rewrite.todo \in SUBSET Threads
         /\ rewrite.missed \in SUBSET Threads
         /\ rewrite.at \in Configuring =>
              /\ rewrite \in Configures /\ rewrite.found \in EntryMaps
              /\ rewrite.previous \in ThreadReceipts /\ rewrite.provider \in {"own", "router"}
<1>1. rewrite \in AtWork
  BY Zenon DEF RewriteTypes
<1>2. /\ rewrite.entries \in EntryMaps /\ rewrite.todo \in ThreadSets
      /\ rewrite.missed \in ThreadSets
  BY <1>1, RunParts, Zenon
<1>3. rewrite.at \in Configuring => rewrite \in Configures
  BY RunKinds, Zenon DEF RewriteTypes
<1>4. rewrite \in Configures => /\ rewrite.found \in EntryMaps
                                /\ rewrite.previous \in ThreadReceipts
                                /\ rewrite.provider \in {"own", "router"}
  BY RunParts, Zenon
<1>5. rewrite.todo \in SUBSET Threads /\ rewrite.missed \in SUBSET Threads
  BY <1>2, Zenon DEF ThreadSets
<1>6. QED BY <1>1, <1>2, <1>3, <1>4, <1>5, Zenon

\* A receipt has its parts.
LEMMA ReceiptParts ==
  /\ \A r \in ThreadReceipts : /\ r.entries \in EntryMaps /\ r.preexisting \in SUBSET Threads
                               /\ r.written \in BOOLEAN
  /\ NoReceipt \in ThreadReceipts
  /\ NoReceipt.preexisting = Threads /\ NoReceipt.written = FALSE
  /\ \A t \in Threads : NoReceipt.entries[t] = NoEntry
<1>1. [t \in Threads |-> NoEntry] \in EntryMaps
  BY EntriesSay DEF EntryMaps
<1>2. \A r \in ThreadReceipts : /\ r.entries \in EntryMaps /\ r.preexisting \in SUBSET Threads
                                /\ r.written \in BOOLEAN
  <2>1. \A r \in ThreadReceipts : /\ r.entries \in EntryMaps /\ r.preexisting \in ThreadSets
                                  /\ r.written \in Flags
    BY Zenon DEF ThreadReceipts
  <2>2. QED BY <2>1 DEF ThreadSets, Flags
<1> DEFINE es == [t \in Threads |-> NoEntry]
           no == FALSE
<1>3. NoReceipt = [entries |-> es, preexisting |-> Threads, written |-> no]
  BY Zenon DEF NoReceipt
<1>4. \A t \in Threads : es[t] = NoEntry
  BY Zenon
<1>5. Threads \in ThreadSets /\ no \in Flags
  BY DEF ThreadSets, Flags
<1>6. es \in EntryMaps
  BY <1>1, Zenon
<1> HIDE DEF es, no
<1>7. NoReceipt \in ThreadReceipts
  BY ONLY <1>3, <1>5, <1>6, Zenon DEF ThreadReceipts
<1>8. NoReceipt.entries = es /\ NoReceipt.preexisting = Threads /\ NoReceipt.written = no
  BY ONLY <1>3, Zenon
<1>9. QED BY <1>2, <1>4, <1>7, <1>8, Zenon DEF no

\* A configure begins.
LEMMA Configures1 ==
  ASSUME RewriteTypes, BeginConfigure
  PROVE  /\ rewrite' \in Configures /\ rewrite'.at = "index" /\ rewrite'.found = FromTranscripts
         /\ rewrite'.previous = threadReceipt /\ rewrite'.provider = activeProvider
<1> DEFINE es == NoReceipt.entries
           nobody == {}
           no == FALSE
           index == "index"
<1>1. rewrite' = [at |-> index, found |-> FromTranscripts, previous |-> threadReceipt,
                  provider |-> activeProvider, entries |-> es, todo |-> nobody,
                  missed |-> nobody, again |-> no, names |-> Unread]
  BY Zenon DEF BeginConfigure
<1>2. /\ FromTranscripts \in EntryMaps /\ threadReceipt \in ThreadReceipts
      /\ activeProvider \in {"own", "router"} /\ nobody \in ThreadSets
      /\ no \in Flags /\ index \in Configuring
  BY FoundInTranscripts DEF RewriteTypes, ThreadSets, Flags, Configuring
<1>3. Unread \in NameIndexes
  BY DEF Unread, NameIndexes
<1>4. es \in EntryMaps
  BY ReceiptParts
<1> HIDE DEF es, nobody, no, index
<1>5. rewrite' \in Configures
  BY ONLY <1>1, <1>2, <1>3, <1>4, Zenon DEF Configures
<1>6. /\ rewrite'.at = index /\ rewrite'.found = FromTranscripts
      /\ rewrite'.previous = threadReceipt /\ rewrite'.provider = activeProvider
  BY ONLY <1>1, Zenon
<1>7. QED BY <1>5, <1>6, Zenon DEF index

\* An unconfigure begins.
LEMMA Restores1 ==
  ASSUME RewriteTypes, BeginRestore
  PROVE  /\ rewrite' \in Restores /\ rewrite'.at = "restore"
         /\ rewrite'.entries = threadReceipt.entries
         /\ rewrite'.todo = Recorded(threadReceipt.entries) /\ rewrite'.missed = {}
         /\ rewrite'.again = FALSE
<1> DEFINE es == threadReceipt.entries
           todo == Recorded(es)
           nobody == {}
           no == FALSE
           restore == "restore"
<1>1. rewrite' = [at |-> restore, entries |-> es, todo |-> todo, missed |-> nobody, again |-> no,
                  names |-> Unread]
  BY Zenon DEF BeginRestore
<1>2. nobody \in ThreadSets /\ no \in Flags /\ restore \in Restoring /\ Unread \in NameIndexes
      /\ todo \in ThreadSets
  BY DEF ThreadSets, Flags, Restoring, Unread, NameIndexes, Recorded
<1>3. es \in EntryMaps
  BY ReceiptParts DEF RewriteTypes
<1> HIDE DEF es, nobody, no, restore, todo
<1>4. rewrite' \in Restores
  BY ONLY <1>1, <1>2, <1>3, Zenon DEF Restores
<1>5. /\ rewrite'.at = restore /\ rewrite'.entries = es /\ rewrite'.todo = todo
      /\ rewrite'.missed = nobody /\ rewrite'.again = no
  BY ONLY <1>1, Zenon
<1>6. QED BY <1>4, <1>5, Zenon DEF es, nobody, no, restore, todo

\* A receipt is saved.
LEMMA ReceiptSaved ==
  ASSUME RewriteTypes, SaveReceipt
  PROVE  /\ threadReceipt' \in ThreadReceipts /\ threadReceipt'.written = TRUE
         /\ threadReceipt'.entries = Merged(threadReceipt.entries, rewrite.found)
         /\ threadReceipt'.preexisting = IF threadReceipt.written THEN threadReceipt.preexisting
                                         ELSE OnRouter
<1> DEFINE es == Merged(threadReceipt.entries, rewrite.found)
           before == IF threadReceipt.written THEN threadReceipt.preexisting ELSE OnRouter
           yes == TRUE
<1>1. threadReceipt' = [entries |-> es, written |-> yes, preexisting |-> before]
  BY Zenon DEF SaveReceipt
<1>2. rewrite.found \in EntryMaps
  <2>1. rewrite.at \in Configuring
    BY DEF SaveReceipt, Configuring
  <2>2. rewrite # Idle
    BY <2>1, RunKinds DEF RewriteTypes, Configuring
  <2>3. QED BY <2>1, <2>2, PartsAtWork, Zenon
<1>3. threadReceipt.entries \in EntryMaps /\ threadReceipt.preexisting \in SUBSET Threads
  BY ReceiptParts DEF RewriteTypes
<1>4. es \in EntryMaps
  BY <1>2, <1>3, MergedEntries, Zenon
<1>5. before \in ThreadSets /\ yes \in Flags
  BY <1>3 DEF OnRouter, ThreadSets, Flags
<1> HIDE DEF es, before, yes
<1>6. threadReceipt' \in ThreadReceipts
  <2>1. [entries |-> es, written |-> yes, preexisting |-> before]
          = [entries |-> es, preexisting |-> before, written |-> yes]
    BY ONLY SMT
  <2>2. [entries |-> es, preexisting |-> before, written |-> yes] \in ThreadReceipts
    BY ONLY <1>4, <1>5, Zenon DEF ThreadReceipts
  <2>3. QED BY ONLY <1>1, <2>1, <2>2, Zenon
<1>7. threadReceipt'.written = yes /\ threadReceipt'.entries = es
      /\ threadReceipt'.preexisting = before
  BY ONLY <1>1, Zenon
<1>8. QED BY <1>6, <1>7, Zenon DEF es, before, yes
\* A stage is a place in a run.
LEMMA RewriteStages ==
  ASSUME RewriteTypes
  PROVE  /\ rewrite = Idle <=> rewrite.at = "idle"
         /\ rewrite.at \in {"idle"} \cup Configuring \cup Restoring
         /\ Idle.at = "idle"
<1>1. rewrite.at \in {"idle"} \cup Configuring \cup Restoring /\ (rewrite = Idle <=> rewrite.at = "idle")
  BY RunKinds, Zenon DEF RewriteTypes, Stages
<1>2. Idle.at = "idle"
  BY DEF Idle
<1>3. QED BY <1>1, <1>2, Zenon

\* Every step keeps the types.
LEMMA RewriteTypesKept ==
  ASSUME RewriteTypes, ThreadsNext
  PROVE  RewriteTypes'
<1> DEFINE Files == /\ transcript \in [Threads -> Tags] /\ indexRow \in [Threads -> Tags]
                    /\ place \in [Threads -> Places] /\ threadReceipt \in ThreadReceipts
                    /\ activeProvider \in {"own", "router"}
                    /\ owed \in [Threads -> [tag : Tags, row : Tags]] /\ halfway \in BOOLEAN
<1>1. Files
  BY DEF RewriteTypes
<1>2. SUFFICES Files' /\ (rewrite' = Idle \/ rewrite' \in AtWork)
  BY DEF RewriteTypes, AtWork
<1>3. Configuring \cup Restoring = Stages
  BY DEF Stages
<1>4. CASE BeginConfigure
  <2>1. rewrite' \in AtWork
    BY <1>4, Configures1, Zenon DEF AtWork
  <2>2. Files'
    BY <1>1, <1>4 DEF BeginConfigure, files, history
  <2>3. QED BY <2>1, <2>2
<1>5. CASE ReadIndex
  <2>1. rewrite.at \in Configuring /\ rewrite # Idle
    BY <1>5, RewriteStages DEF ReadIndex, Configuring
  <2>2. WithIndex(rewrite.found) \in EntryMaps
    BY <2>1, PartsAtWork, FoundInIndex DEF RewriteTypes
  <2>3. rewrite' \in Configures
    BY <1>5, <2>2, IndexReads, Zenon
  <2>4. Files'
    BY <1>1, <1>5 DEF ReadIndex, files, history
  <2>5. QED BY <2>3, <2>4, Zenon DEF AtWork
<1>6. CASE SaveReceipt
  <2>1. rewrite' \in AtWork
    <3>1. Turn("config") /\ rewrite.at = "receipt"
      BY <1>6 DEF SaveReceipt
    <3>2. rewrite # Idle
      BY <3>1, RewriteStages
    <3>3. "config" \in Stages /\ SameKind("config", rewrite.at)
      BY <3>1 DEF Stages, Configuring, SameKind
    <3>4. QED BY <3>1, <3>2, <3>3, Turns, Zenon
  <2>2. threadReceipt' \in ThreadReceipts
    BY <1>6, ReceiptSaved, Zenon
  <2>3. Files'
    BY <1>1, <1>6, <2>2 DEF SaveReceipt, history
  <2>4. QED BY <2>1, <2>3
<1>7. CASE PointAtRouter
  <2>1. BeginPass("sync", threadReceipt.entries) /\ rewrite.at = "config"
    BY <1>7 DEF PointAtRouter
  <2>2. rewrite # Idle
    BY <2>1, RewriteStages
  <2>3. "sync" \in Stages /\ SameKind("sync", rewrite.at) /\ threadReceipt.entries \in EntryMaps
    BY <1>1, <2>1, ReceiptParts DEF Stages, Configuring, SameKind
  <2>4. rewrite' \in AtWork
    BY <2>1, <2>2, <2>3, PassesBegin, Zenon
  <2>5. Files'
    BY <1>1, <1>7 DEF PointAtRouter, history
  <2>6. QED BY <2>4, <2>5
<1>8. CASE FailConfigure
  <2>1. BeginPass("undo", rewrite.found) /\ rewrite.at \in {"receipt", "config", "sync"}
    BY <1>8 DEF FailConfigure, EntriesToUndo
  <2>2. rewrite # Idle /\ rewrite.at \in Configuring
    BY <2>1, RewriteStages DEF Configuring
  <2>3. "undo" \in Stages /\ SameKind("undo", rewrite.at)
    BY <2>2 DEF Stages, Configuring, SameKind
  <2>4. rewrite' \in AtWork
    BY <2>1, <2>2, <2>3, PartsAtWork, PassesBegin, Zenon
  <2>5. Files'
    BY <1>1, <1>8 DEF FailConfigure, files, history
  <2>6. QED BY <2>4, <2>5
<1>9. CASE UndoRows \/ FailUndo
  <2>1. Turn("undoConfig") /\ rewrite.at = "undo"
    BY <1>9 DEF UndoRows, FailUndo
  <2>2. rewrite # Idle /\ rewrite.at \in Configuring
    BY <2>1, RewriteStages DEF Configuring
  <2>3. "undoConfig" \in Stages /\ SameKind("undoConfig", rewrite.at)
    BY <2>2 DEF Stages, Configuring, SameKind
  <2>4. rewrite' \in AtWork
    BY <2>1, <2>2, <2>3, Turns, Zenon
  <2>5. rewrite.entries \in EntryMaps
    BY <2>2, PartsAtWork, Zenon
  <2>6. RowsRestored(rewrite.entries) \in [Threads -> Tags]
    BY <1>1, <2>5, RowsWritten
  <2>7. Files'
    BY <1>1, <1>9, <2>6 DEF UndoRows, FailUndo, files, history
  <2>8. QED BY <2>4, <2>7
<1>10. CASE UndoConfig
  <2>1. Turn("undoReceipt") /\ rewrite.at = "undoConfig"
    BY <1>10 DEF UndoConfig
  <2>2. rewrite # Idle /\ rewrite.at \in Configuring
    BY <2>1, RewriteStages DEF Configuring
  <2>3. "undoReceipt" \in Stages /\ SameKind("undoReceipt", rewrite.at)
    BY <2>2 DEF Stages, Configuring, SameKind
  <2>4. rewrite' \in AtWork
    BY <2>1, <2>2, <2>3, Turns, Zenon
  <2>5. rewrite.provider \in {"own", "router"}
    BY <2>2, PartsAtWork, Zenon
  <2>6. Files'
    BY <1>1, <1>10, <2>5 DEF UndoConfig, history
  <2>7. QED BY <2>4, <2>6
<1>11. CASE RestoreRows
  <2>1. Turn("own") /\ rewrite.at = "restore"
    BY <1>11 DEF RestoreRows
  <2>2. rewrite # Idle
    BY <2>1, RewriteStages
  <2>3. "own" \in Stages /\ SameKind("own", rewrite.at)
    BY <2>1 DEF Stages, Configuring, Restoring, SameKind
  <2>4. rewrite' \in AtWork
    BY <2>1, <2>2, <2>3, Turns, Zenon
  <2>5. RowsRestored(rewrite.entries) \in [Threads -> Tags]
    BY <1>1, <2>2, PartsAtWork, RowsWritten
  <2>6. Files'
    BY <1>1, <1>11, <2>5 DEF RestoreRows, history
  <2>7. QED BY <2>4, <2>6
<1>12. CASE ReclaimRows
  <2>1. Turn("remove") /\ rewrite.at = "reclaim"
    BY <1>12 DEF ReclaimRows
  <2>2. rewrite # Idle
    BY <2>1, RewriteStages
  <2>3. "remove" \in Stages /\ SameKind("remove", rewrite.at)
    BY <2>1 DEF Stages, Configuring, Restoring, SameKind
  <2>4. rewrite' \in AtWork
    BY <2>1, <2>2, <2>3, Turns, Zenon
  <2>5. Files'
    BY <1>1, <1>12 DEF ReclaimRows, history, Tags, Providers
  <2>6. QED BY <2>4, <2>5
<1>13. CASE SyncRows
  <2>1. rewrite' = Idle /\ rewrite.at \in {"sync", "redo"}
    BY <1>13 DEF SyncRows
  <2>2. rewrite # Idle
    BY <2>1, RewriteStages
  <2>3. RowsToRouter(rewrite.entries) \in [Threads -> Tags]
    BY <1>1, <2>2, PartsAtWork, RowsWritten
  <2>4. Files'
    BY <1>1, <1>13, <2>3 DEF SyncRows, history
  <2>5. QED BY <2>1, <2>4
<1>14. CASE UndoReceipt
  <2>1. rewrite' = Idle /\ rewrite.at = "undoReceipt"
    BY <1>14 DEF UndoReceipt
  <2>2. rewrite # Idle /\ rewrite.at \in Configuring
    BY <2>1, RewriteStages DEF Configuring
  <2>3. Files'
    BY <1>1, <1>14, <2>2, PartsAtWork DEF UndoReceipt, history
  <2>4. QED BY <2>1, <2>3
<1>15. CASE BeginRestore
  <2>1. rewrite' \in AtWork
    BY <1>15, Restores1, Zenon DEF AtWork
  <2>2. Files'
    BY <1>1, <1>15 DEF BeginRestore, files, history
  <2>3. QED BY <2>1, <2>2
<1>16. CASE FailRestore
  <2>1. BeginPass("redo", rewrite.entries) /\ rewrite.at \in {"restore", "own"}
    BY <1>16 DEF FailRestore
  <2>2. rewrite # Idle
    BY <2>1, RewriteStages
  <2>3. "redo" \in Stages /\ SameKind("redo", rewrite.at)
    BY <2>1 DEF Stages, Configuring, Restoring, SameKind
  <2>4. rewrite' \in AtWork
    BY <2>1, <2>2, <2>3, PartsAtWork, PassesBegin, Zenon
  <2>5. Files'
    BY <1>1, <1>16 DEF FailRestore, files, history
  <2>6. QED BY <2>4, <2>5
<1>17. CASE FailRedo \/ FailReclaim \/ KillRewrite
  BY <1>1, <1>17 DEF FailRedo, FailReclaim, KillRewrite, files, history
<1>18. CASE PointAtOwn
  <2>1. rewrite' \in AtWork
    BY <1>18, Reclaiming, Zenon
  <2>2. Files'
    BY <1>1, <1>18 DEF PointAtOwn
  <2>3. QED BY <2>1, <2>2
<1>19. CASE RemoveReceipt
  BY <1>1, <1>19, ReceiptParts DEF RemoveReceipt
<1>20. CASE LookAgain
  <2>1. rewrite' \in AtWork
    BY <1>20, LooksAgain, Zenon
  <2>2. Files'
    BY <1>1, <1>20 DEF LookAgain, files, history
  <2>3. QED BY <2>1, <2>2
<1>21. ASSUME NEW t \in Threads, Visit(t)
       PROVE  Files' /\ rewrite' \in AtWork
  <2>1. rewrite' \in AtWork
    BY <1>21, Visits, Zenon
  <2>2. rewrite # Idle
    BY <1>21, RewriteStages DEF Visit, Passes, ToRouter
  <2>3. rewrite.entries[t].tag \in Tags /\ "router" \in Tags
    BY <2>2, PartsAtWork, EntriesSay DEF EntryMaps, Tags, Providers
  <2>4. transcript' \in [Threads -> Tags]
    BY <1>1, <1>21, <2>3, Retags DEF Visit
  <2>5. Files'
    BY <1>1, <1>21, <2>4 DEF Visit, history
  <2>6. QED BY <2>1, <2>5
<1>22. ASSUME NEW t \in Threads, Reclaim(t)
       PROVE  Files' /\ rewrite' \in AtWork
  <2>1. rewrite' \in AtWork
    BY <1>22, Reclaims, Zenon
  <2>2. rewrite # Idle
    BY <1>22, RewriteStages DEF Reclaim
  <2>3. rewrite.entries[t].row \in Tags /\ "router" \in Tags /\ "own" \in Tags
    BY <2>2, PartsAtWork, EntriesSay DEF EntryMaps, Tags, Providers
  <2>4. transcript' \in [Threads -> Tags]
    BY <1>1, <1>22, <2>3, Retags DEF Reclaim
  <2>5. Files'
    BY <1>1, <1>22, <2>4 DEF Reclaim, history
  <2>6. QED BY <2>1, <2>5
<1>23. ASSUME NEW t \in Threads, StartThread(t) \/ Archive(t) \/ ChooseProvider(t)
       PROVE  Files' /\ rewrite' = rewrite
  <2>1. CASE StartThread(t)
    BY <1>1, <2>1 DEF StartThread, Tags, Providers
  <2>2. CASE Archive(t)
    BY <1>1, <2>2 DEF Archive, history, Places
  <2>3. CASE ChooseProvider(t)
    BY <1>1, <2>3 DEF ChooseProvider, Tags, Providers
  <2>4. QED BY <1>23, <2>1, <2>2, <2>3
<1>24. rewrite = Idle \/ rewrite \in AtWork
  BY Zenon DEF RewriteTypes, AtWork
<1>25. QED
  BY <1>4, <1>5, <1>6, <1>7, <1>8, <1>9, <1>10, <1>11, <1>12, <1>13, <1>14, <1>15, <1>16, <1>17,
     <1>18, <1>19, <1>20, <1>21, <1>22, <1>23, <1>24, Zenon DEF ThreadsNext
-----------------------------------------------------------------------------
(* Codex: what each step does.                                              *)

SameThreads == transcript' = transcript /\ indexRow' = indexRow /\ owed' = owed
SameReceipt == threadReceipt' = threadReceipt
SameProvider == activeProvider' = activeProvider /\ halfway' = halfway
SameFiles == SameThreads /\ SameReceipt /\ SameProvider
FoundStays == /\ rewrite'.found = rewrite.found /\ rewrite'.previous = rewrite.previous
              /\ rewrite'.provider = rewrite.provider

\* A configure begins with what the transcripts say, and the receipt of before in hand.
LEMMA BeginConfigureDoes ==
  ASSUME RewriteTypes, BeginConfigure
  PROVE  /\ rewrite.at = "idle" /\ (halfway => Impatient) /\ SameFiles
         /\ rewrite'.at = "index" /\ rewrite'.found = FromTranscripts
         /\ rewrite'.previous = threadReceipt /\ rewrite'.provider = activeProvider
<1>1. rewrite.at = "idle" /\ (halfway => Impatient) /\ SameFiles
  BY RewriteStages DEF BeginConfigure, files, history, SameFiles, SameThreads, SameReceipt, SameProvider
<1>2. QED BY <1>1, Configures1, Zenon

\* What is found has the rows of the index too.
LEMMA ReadIndexDoes ==
  ASSUME RewriteTypes, ReadIndex
  PROVE  /\ rewrite.at = "index" /\ SameFiles
         /\ rewrite'.at = "receipt" /\ rewrite'.found = WithIndex(rewrite.found)
         /\ rewrite'.previous = rewrite.previous /\ rewrite'.provider = rewrite.provider
<1>1. SameFiles
  BY DEF ReadIndex, files, history, SameFiles, SameThreads, SameReceipt, SameProvider
<1>2. QED BY <1>1, IndexReads, Zenon

\* What is found joins the receipt; the first receipt of a setup keeps which threads
\* were on Router before.
LEMMA SaveReceiptDoes ==
  ASSUME RewriteTypes, SaveReceipt
  PROVE  /\ rewrite.at = "receipt" /\ SameThreads /\ SameProvider
         /\ rewrite'.at = "config" /\ FoundStays
         /\ threadReceipt'.written = TRUE
         /\ threadReceipt'.entries = Merged(threadReceipt.entries, rewrite.found)
         /\ threadReceipt'.preexisting = IF threadReceipt.written THEN threadReceipt.preexisting
                                         ELSE OnRouter
<1>1. rewrite.at = "receipt" /\ rewrite.at \in Configuring /\ rewrite # Idle /\ Turn("config")
  BY RewriteStages DEF SaveReceipt, Configuring
<1>2. "config" \in Stages /\ SameKind("config", rewrite.at)
  BY <1>1 DEF Stages, Configuring, SameKind
<1>3. rewrite'.at = "config" /\ SameFound
  BY <1>1, <1>2, Turns, Zenon
<1>4. FoundStays
  BY <1>1, <1>3, Zenon DEF SameFound, FoundStays
<1>5. SameThreads /\ SameProvider
  BY DEF SaveReceipt, history, SameThreads, SameProvider
<1>6. QED BY <1>1, <1>3, <1>4, <1>5, ReceiptSaved, Zenon

\* Config.toml points at Router, and the pass over the receipt's entries begins.
LEMMA PointAtRouterDoes ==
  ASSUME RewriteTypes, PointAtRouter
  PROVE  /\ rewrite.at = "config" /\ SameThreads /\ SameReceipt
         /\ activeProvider' = "router" /\ halfway' = halfway
         /\ rewrite'.at = "sync" /\ rewrite'.entries = threadReceipt.entries
         /\ rewrite'.todo = Recorded(threadReceipt.entries) /\ rewrite'.again = FALSE /\ FoundStays
<1>1. rewrite.at = "config" /\ rewrite.at \in Configuring /\ rewrite # Idle
      /\ BeginPass("sync", threadReceipt.entries)
  BY RewriteStages DEF PointAtRouter, Configuring
<1>2. "sync" \in Stages /\ SameKind("sync", rewrite.at) /\ threadReceipt.entries \in EntryMaps
  BY <1>1, ReceiptParts DEF RewriteTypes, Stages, Configuring, SameKind
<1>3. /\ rewrite'.at = "sync" /\ rewrite'.entries = threadReceipt.entries
      /\ rewrite'.todo = Recorded(threadReceipt.entries) /\ rewrite'.again = FALSE /\ SameFound
  BY <1>1, <1>2, PassesBegin, Zenon
<1>4. FoundStays
  BY <1>1, <1>3, Zenon DEF SameFound, FoundStays
<1>5. SameThreads /\ SameReceipt /\ activeProvider' = "router" /\ halfway' = halfway
  BY DEF PointAtRouter, history, SameThreads, SameReceipt
<1>6. QED BY <1>1, <1>3, <1>4, <1>5, Zenon

\* A configure that fails begins a pass over what it has found.
LEMMA FailConfigureDoes ==
  ASSUME RewriteTypes, FailConfigure
  PROVE  /\ rewrite.at \in {"receipt", "config", "sync"} /\ SameFiles
         /\ rewrite'.at = "undo" /\ rewrite'.entries = rewrite.found
         /\ rewrite'.todo = Recorded(rewrite.found) /\ rewrite'.again = FALSE /\ FoundStays
<1>1. rewrite.at \in {"receipt", "config", "sync"} /\ rewrite.at \in Configuring
      /\ rewrite # Idle /\ BeginPass("undo", rewrite.found)
  BY RewriteStages DEF FailConfigure, EntriesToUndo, Configuring
<1>2. "undo" \in Stages /\ SameKind("undo", rewrite.at) /\ rewrite.found \in EntryMaps
  BY <1>1, PartsAtWork DEF Stages, Configuring, SameKind
<1>3. /\ rewrite'.at = "undo" /\ rewrite'.entries = rewrite.found
      /\ rewrite'.todo = Recorded(rewrite.found) /\ rewrite'.again = FALSE /\ SameFound
  BY <1>1, <1>2, PassesBegin, Zenon
<1>4. FoundStays
  BY <1>1, <1>3, Zenon DEF SameFound, FoundStays
<1>5. SameFiles
  BY DEF FailConfigure, files, history, SameFiles, SameThreads, SameReceipt, SameProvider
<1>6. QED BY <1>1, <1>3, <1>4, <1>5, Zenon

\* The rows follow when the pass is done, and the run ends.
LEMMA SyncRowsDoes ==
  ASSUME RewriteTypes, SyncRows
  PROVE  /\ rewrite.at \in {"sync", "redo"} /\ PassDone /\ rewrite # Idle /\ rewrite'.at = "idle"
         /\ transcript' = transcript /\ indexRow' = RowsToRouter(rewrite.entries) /\ owed' = owed
         /\ SameReceipt /\ SameProvider
BY RewriteStages DEF SyncRows, history, SameReceipt, SameProvider

\* The rows that were found are back when the pass is done.
LEMMA UndoRowsDoes ==
  ASSUME RewriteTypes, UndoRows
  PROVE  /\ rewrite.at = "undo" /\ PassDone /\ rewrite'.at = "undoConfig" /\ FoundStays
         /\ transcript' = transcript /\ indexRow' = RowsRestored(rewrite.entries) /\ owed' = owed
         /\ SameReceipt /\ SameProvider
<1>1. rewrite.at = "undo" /\ PassDone /\ rewrite.at \in Configuring /\ rewrite # Idle
      /\ Turn("undoConfig")
  BY RewriteStages DEF UndoRows, Configuring
<1>2. "undoConfig" \in Stages /\ SameKind("undoConfig", rewrite.at)
  BY <1>1 DEF Stages, Configuring, SameKind
<1>3. rewrite'.at = "undoConfig" /\ SameFound
  BY <1>1, <1>2, Turns, Zenon
<1>4. FoundStays
  BY <1>1, <1>3, Zenon DEF SameFound, FoundStays
<1>5. /\ transcript' = transcript /\ indexRow' = RowsRestored(rewrite.entries) /\ owed' = owed
      /\ SameReceipt /\ SameProvider
  BY DEF UndoRows, history, SameReceipt, SameProvider
<1>6. QED BY <1>1, <1>3, <1>4, <1>5, Zenon

\* A rollback that fails leaves the threads, and is remembered.
LEMMA FailUndoDoes ==
  ASSUME RewriteTypes, FailUndo
  PROVE  /\ rewrite.at = "undo" /\ rewrite'.at = "undoConfig" /\ FoundStays /\ SameFiles
         /\ spoiled' = TRUE
<1>1. rewrite.at = "undo" /\ rewrite.at \in Configuring /\ rewrite # Idle /\ Turn("undoConfig")
  BY RewriteStages DEF FailUndo, Configuring
<1>2. "undoConfig" \in Stages /\ SameKind("undoConfig", rewrite.at)
  BY <1>1 DEF Stages, Configuring, SameKind
<1>3. rewrite'.at = "undoConfig" /\ SameFound
  BY <1>1, <1>2, Turns, Zenon
<1>4. FoundStays
  BY <1>1, <1>3, Zenon DEF SameFound, FoundStays
<1>5. SameFiles /\ spoiled' = TRUE
  BY DEF FailUndo, files, SameFiles, SameThreads, SameReceipt, SameProvider
<1>6. QED BY <1>1, <1>3, <1>4, <1>5, Zenon

\* Config.toml has the provider of before.
LEMMA UndoConfigDoes ==
  ASSUME RewriteTypes, UndoConfig
  PROVE  /\ rewrite.at = "undoConfig" /\ rewrite'.at = "undoReceipt" /\ FoundStays
         /\ SameThreads /\ SameReceipt /\ activeProvider' = rewrite.provider /\ halfway' = halfway
<1>1. rewrite.at = "undoConfig" /\ rewrite.at \in Configuring /\ rewrite # Idle
      /\ Turn("undoReceipt")
  BY RewriteStages DEF UndoConfig, Configuring
<1>2. "undoReceipt" \in Stages /\ SameKind("undoReceipt", rewrite.at)
  BY <1>1 DEF Stages, Configuring, SameKind
<1>3. rewrite'.at = "undoReceipt" /\ SameFound
  BY <1>1, <1>2, Turns, Zenon
<1>4. FoundStays
  BY <1>1, <1>3, Zenon DEF SameFound, FoundStays
<1>5. SameThreads /\ SameReceipt /\ activeProvider' = rewrite.provider /\ halfway' = halfway
  BY DEF UndoConfig, history, SameThreads, SameReceipt
<1>6. QED BY <1>1, <1>3, <1>4, <1>5, Zenon

\* The receipt is the one of before, and the run ends.
LEMMA UndoReceiptDoes ==
  ASSUME RewriteTypes, UndoReceipt
  PROVE  /\ rewrite.at = "undoReceipt" /\ rewrite # Idle /\ rewrite'.at = "idle"
         /\ SameThreads /\ SameProvider /\ threadReceipt' = rewrite.previous
BY RewriteStages DEF UndoReceipt, history, SameThreads, SameProvider

\* An unconfigure begins with a pass over the receipt's entries.
LEMMA BeginRestoreDoes ==
  ASSUME RewriteTypes, BeginRestore
  PROVE  /\ rewrite.at = "idle" /\ threadReceipt.written /\ SameFiles
         /\ rewrite'.at = "restore" /\ rewrite'.entries = threadReceipt.entries
         /\ rewrite'.todo = Recorded(threadReceipt.entries) /\ rewrite'.again = FALSE
<1>1. rewrite.at = "idle" /\ threadReceipt.written /\ SameFiles
  BY RewriteStages DEF BeginRestore, files, history, SameFiles, SameThreads, SameReceipt, SameProvider
<1>2. QED BY <1>1, Restores1, Zenon

\* The rows of the receipt are back when the pass is done.
LEMMA RestoreRowsDoes ==
  ASSUME RewriteTypes, RestoreRows
  PROVE  /\ rewrite.at = "restore" /\ rewrite # Idle /\ PassDone
         /\ rewrite'.at = "own" /\ rewrite'.entries = rewrite.entries
         /\ transcript' = transcript /\ indexRow' = RowsRestored(rewrite.entries) /\ owed' = owed
         /\ SameReceipt /\ SameProvider
<1>1. rewrite.at = "restore" /\ PassDone /\ rewrite # Idle /\ Turn("own")
  BY RewriteStages DEF RestoreRows
<1>2. "own" \in Stages /\ SameKind("own", rewrite.at)
  BY <1>1 DEF Stages, Configuring, Restoring, SameKind
<1>3. rewrite'.at = "own" /\ rewrite'.entries = rewrite.entries
  BY <1>1, <1>2, Turns, Zenon
<1>4. /\ transcript' = transcript /\ indexRow' = RowsRestored(rewrite.entries) /\ owed' = owed
      /\ SameReceipt /\ SameProvider
  BY DEF RestoreRows, history, SameReceipt, SameProvider
<1>5. QED BY <1>1, <1>3, <1>4, Zenon

\* An unconfigure that fails begins a pass to Router over the same entries.
LEMMA FailRestoreDoes ==
  ASSUME RewriteTypes, FailRestore
  PROVE  /\ rewrite.at \in {"restore", "own"} /\ SameFiles
         /\ rewrite'.at = "redo" /\ rewrite'.entries = rewrite.entries /\ rewrite'.again = FALSE
<1>1. rewrite.at \in {"restore", "own"} /\ rewrite # Idle /\ BeginPass("redo", rewrite.entries)
  BY RewriteStages DEF FailRestore
<1>2. "redo" \in Stages /\ SameKind("redo", rewrite.at) /\ rewrite.entries \in EntryMaps
  BY <1>1, PartsAtWork DEF Stages, Configuring, Restoring, SameKind
<1>3. rewrite'.at = "redo" /\ rewrite'.entries = rewrite.entries /\ rewrite'.again = FALSE
  BY <1>1, <1>2, PassesBegin, Zenon
<1>4. SameFiles
  BY DEF FailRestore, files, history, SameFiles, SameThreads, SameReceipt, SameProvider
<1>5. QED BY <1>1, <1>3, <1>4, Zenon

\* A run that ends early leaves the files.
LEMMA EndsDo ==
  ASSUME RewriteTypes, FailRedo \/ FailReclaim \/ KillRewrite
  PROVE  rewrite'.at = "idle" /\ SameFiles
BY RewriteStages DEF FailRedo, FailReclaim, KillRewrite, files, history, SameFiles, SameThreads,
                 SameReceipt, SameProvider

\* Config.toml has one's own provider, and every thread is to be looked at.
LEMMA PointAtOwnDoes ==
  ASSUME RewriteTypes, PointAtOwn
  PROVE  /\ rewrite.at = "own" /\ SameThreads /\ SameReceipt
         /\ activeProvider' = "own" /\ halfway' = TRUE
         /\ rewrite'.at = "reclaim" /\ rewrite'.entries = rewrite.entries /\ rewrite'.todo = Threads
<1>1. /\ rewrite.at = "own" /\ SameThreads /\ SameReceipt
      /\ activeProvider' = "own" /\ halfway' = TRUE
  BY DEF PointAtOwn, SameThreads, SameReceipt
<1>2. QED BY <1>1, Reclaiming, Zenon

\* A thread on Router that is not protected moves to its row's provider, or one's own.
LEMMA ReclaimDoes ==
  ASSUME RewriteTypes, NEW t \in Threads, Reclaim(t)
  PROVE  /\ rewrite.at = "reclaim" /\ indexRow' = indexRow /\ owed' = owed
         /\ SameReceipt /\ SameProvider
         /\ rewrite'.at = "reclaim" /\ rewrite'.entries = rewrite.entries
         /\ rewrite'.todo = rewrite.todo \ {t}
         /\ \A u \in Threads \ {t} : transcript'[u] = transcript[u]
         /\ \/ t \in Protected /\ transcript'[t] = transcript[t]
            \/ t \notin Protected /\ transcript[t] # "router" /\ transcript'[t] = transcript[t]
            \/ /\ t \notin Protected /\ transcript[t] = "router"
               /\ transcript'[t] = IF rewrite.entries[t].row = "none" THEN "own"
                                   ELSE rewrite.entries[t].row
<1>1. /\ rewrite.at = "reclaim" /\ indexRow' = indexRow /\ owed' = owed
      /\ SameReceipt /\ SameProvider
  BY DEF Reclaim, history, SameReceipt, SameProvider
<1>2. /\ rewrite'.at = "reclaim" /\ rewrite'.entries = rewrite.entries
      /\ rewrite'.todo = rewrite.todo \ {t}
  BY Reclaims
<1>3. \A u \in Threads \ {t} : transcript'[u] = transcript[u]
  BY DEF Reclaim, Retag, RewriteTypes
<1>4. \/ t \in Protected /\ transcript'[t] = transcript[t]
      \/ t \notin Protected /\ transcript[t] # "router" /\ transcript'[t] = transcript[t]
      \/ /\ t \notin Protected /\ transcript[t] = "router"
         /\ transcript'[t] = IF rewrite.entries[t].row = "none" THEN "own"
                             ELSE rewrite.entries[t].row
  BY DEF Reclaim, Retag, RewriteTypes
<1>5. QED BY <1>1, <1>2, <1>3, <1>4, Zenon

\* The rows on Router that are not protected move to one's own provider.
LEMMA ReclaimRowsDoes ==
  ASSUME RewriteTypes, ReclaimRows
  PROVE  /\ rewrite.at = "reclaim" /\ rewrite.todo = {}
         /\ rewrite'.at = "remove" /\ rewrite'.entries = rewrite.entries
         /\ transcript' = transcript /\ owed' = owed /\ SameReceipt /\ SameProvider
         /\ \A t \in Threads :
              indexRow'[t] = IF indexRow[t] = "router" /\ t \notin Protected THEN "own"
                             ELSE indexRow[t]
<1>1. rewrite.at = "reclaim" /\ rewrite # Idle /\ Turn("remove") /\ rewrite.todo = {}
  BY RewriteStages DEF ReclaimRows
<1>2. "remove" \in Stages /\ SameKind("remove", rewrite.at)
  BY <1>1 DEF Stages, Configuring, Restoring, SameKind
<1>3. rewrite'.at = "remove" /\ rewrite'.entries = rewrite.entries
  BY <1>1, <1>2, Turns, Zenon
<1>4. transcript' = transcript /\ owed' = owed /\ SameReceipt /\ SameProvider
  BY DEF ReclaimRows, history, SameReceipt, SameProvider
<1>5. \A t \in Threads :
        indexRow'[t] = IF indexRow[t] = "router" /\ t \notin Protected THEN "own" ELSE indexRow[t]
  BY DEF ReclaimRows
<1>6. QED BY <1>1, <1>3, <1>4, <1>5, Zenon

\* The receipt is removed, and the run ends.
LEMMA RemoveReceiptDoes ==
  ASSUME RewriteTypes, RemoveReceipt
  PROVE  /\ rewrite.at = "remove" /\ rewrite'.at = "idle" /\ SameThreads
         /\ activeProvider' = activeProvider /\ threadReceipt' = NoReceipt /\ halfway' = FALSE
BY RewriteStages DEF RemoveReceipt, SameThreads

\* A visit retags the transcript if it is found, and otherwise notes that it was missed.
LEMMA VisitDoes ==
  ASSUME RewriteTypes, NEW t \in Threads, Visit(t)
  PROVE  /\ rewrite.at \in {"sync", "redo", "restore", "undo"}
         /\ indexRow' = indexRow /\ owed' = owed /\ place' = place /\ SameReceipt /\ SameProvider
         /\ rewrite'.at = rewrite.at /\ rewrite'.entries = rewrite.entries
         /\ rewrite'.todo = rewrite.todo \ {t}
         /\ rewrite'.missed \in {rewrite.missed, rewrite.missed \cup {t}}
         /\ t \notin rewrite'.missed => rewrite.entries[t].tag = "none" \/ Found(t)
         /\ rewrite'.missed = rewrite.missed \/ ~Found(t)
         /\ rewrite'.again = rewrite.again /\ rewrite'.names \in {Names, rewrite.names}
         /\ rewrite.at \in {"sync", "undo"} => FoundStays
         /\ \A u \in Threads \ {t} : transcript'[u] = transcript[u]
         /\ \/ /\ transcript'[t] = transcript[t]
               /\ rewrite.entries[t].tag = "none" \/ ~Found(t)
            \/ /\ rewrite.entries[t].tag # "none" /\ rewrite.at \in {"sync", "redo"}
               /\ transcript'[t] = IF transcript[t] = rewrite.entries[t].tag THEN "router"
                                   ELSE transcript[t]
            \/ /\ rewrite.entries[t].tag # "none" /\ rewrite.at \in {"restore", "undo"}
               /\ transcript'[t] = IF transcript[t] = "router" THEN rewrite.entries[t].tag
                                   ELSE transcript[t]
<1>1. /\ rewrite.at \in {"sync", "redo", "restore", "undo"}
      /\ indexRow' = indexRow /\ owed' = owed /\ place' = place /\ SameReceipt /\ SameProvider
  BY DEF Visit, Passes, ToRouter, history, SameReceipt, SameProvider
<1>2. /\ rewrite'.at = rewrite.at /\ rewrite'.entries = rewrite.entries
      /\ rewrite'.todo = rewrite.todo \ {t}
      /\ rewrite'.missed \in {rewrite.missed, rewrite.missed \cup {t}}
      /\ rewrite'.missed = rewrite.missed =>
           rewrite.entries[t].tag = "none" \/ Found(t) \/ t \in rewrite.missed
      /\ rewrite'.missed = rewrite.missed \/ ~Found(t)
      /\ rewrite'.again = rewrite.again
      /\ rewrite'.names \in {Names, rewrite.names} /\ SameFound
  BY Visits, Zenon
<1>3. rewrite.at \in {"sync", "undo"} => FoundStays
  <2>1. rewrite.at \in {"sync", "undo"} => rewrite.at \in Configuring
    BY DEF Configuring
  <2>2. QED BY <1>2, <2>1, Zenon DEF SameFound, FoundStays
<1>4. \A u \in Threads \ {t} : transcript'[u] = transcript[u]
  BY DEF Visit, Retag, RewriteTypes
<1>5. \/ /\ transcript'[t] = transcript[t]
         /\ rewrite.entries[t].tag = "none" \/ ~Found(t)
      \/ /\ rewrite.entries[t].tag # "none" /\ rewrite.at \in {"sync", "redo"}
         /\ transcript'[t] = IF transcript[t] = rewrite.entries[t].tag THEN "router"
                             ELSE transcript[t]
      \/ /\ rewrite.entries[t].tag # "none" /\ rewrite.at \in {"restore", "undo"}
         /\ transcript'[t] = IF transcript[t] = "router" THEN rewrite.entries[t].tag
                             ELSE transcript[t]
  BY <1>1 DEF Visit, Retag, ToRouter, RewriteTypes
<1>6. t \notin rewrite'.missed => rewrite.entries[t].tag = "none" \/ Found(t)
  BY <1>2
<1>7. QED BY <1>1, <1>2, <1>3, <1>4, <1>5, <1>6, Zenon

\* The second look is for those missed, by names read anew.
LEMMA LookAgainDoes ==
  ASSUME RewriteTypes, LookAgain
  PROVE  /\ rewrite.at \in {"sync", "redo", "restore", "undo"} /\ rewrite.todo = {}
         /\ SameFiles /\ place' = place
         /\ rewrite'.at = rewrite.at /\ rewrite'.entries = rewrite.entries
         /\ rewrite'.todo = rewrite.missed /\ rewrite'.missed = {} /\ rewrite'.again = TRUE
         /\ rewrite'.names = place
         /\ rewrite.at \in {"sync", "undo"} => FoundStays
<1>1. /\ rewrite.at \in {"sync", "redo", "restore", "undo"} /\ rewrite.todo = {}
      /\ SameFiles /\ place' = place
  BY DEF LookAgain, Passes, ToRouter, files, history, SameFiles, SameThreads, SameReceipt,
         SameProvider
<1>2. /\ rewrite'.at = rewrite.at /\ rewrite'.entries = rewrite.entries
      /\ rewrite'.todo = rewrite.missed /\ rewrite'.missed = {} /\ rewrite'.again = TRUE
      /\ rewrite'.names = place /\ SameFound
  BY LooksAgain
<1>3. rewrite.at \in {"sync", "undo"} => FoundStays
  <2>1. rewrite.at \in {"sync", "undo"} => rewrite.at \in Configuring
    BY DEF Configuring
  <2>2. QED BY <1>2, <2>1, Zenon DEF SameFound, FoundStays
<1>4. QED BY <1>1, <1>2, <1>3, Zenon

\* A thread begins under the active provider.
LEMMA StartThreadDoes ==
  ASSUME RewriteTypes, NEW t \in Threads, StartThread(t)
  PROVE  /\ ~Exists(t) /\ rewrite.at \notin {"sync", "undo", "undoConfig"}
         /\ place' = place /\ rewrite' = rewrite /\ SameReceipt /\ SameProvider
         /\ activeProvider \in {"own", "router"}
         /\ transcript'[t] = activeProvider /\ owed'[t].tag = "own"
         /\ \/ indexRow'[t] = "none" /\ owed'[t].row = "none"
            \/ indexRow'[t] = activeProvider /\ owed'[t].row = "own"
         /\ \A u \in Threads \ {t} : /\ transcript'[u] = transcript[u]
                                     /\ indexRow'[u] = indexRow[u] /\ owed'[u] = owed[u]
<1>1. /\ ~Exists(t) /\ rewrite.at \notin {"sync", "undo", "undoConfig"}
      /\ place' = place /\ rewrite' = rewrite /\ SameReceipt /\ SameProvider
      /\ activeProvider \in {"own", "router"}
  BY DEF StartThread, RewriteTypes, SameReceipt, SameProvider
<1>2. PICK row \in {activeProvider, "none"} :
         /\ indexRow' = [indexRow EXCEPT ![t] = row]
         /\ owed' = [owed EXCEPT ![t] = [tag |-> "own", row |-> IF row = "none" THEN row ELSE "own"]]
  BY DEF StartThread
<1>3. transcript'[t] = activeProvider /\ indexRow'[t] = row /\ owed'[t].tag = "own"
      /\ owed'[t].row = IF row = "none" THEN "none" ELSE "own"
  BY <1>2 DEF StartThread, RewriteTypes
<1>4. \A u \in Threads \ {t} : /\ transcript'[u] = transcript[u]
                               /\ indexRow'[u] = indexRow[u] /\ owed'[u] = owed[u]
  BY <1>2 DEF StartThread, RewriteTypes
<1>5. QED BY <1>1, <1>2, <1>3, <1>4

\* A thread moves to another provider, transcript and row.
LEMMA ChooseProviderDoes ==
  ASSUME RewriteTypes, NEW t \in Threads, ChooseProvider(t)
  PROVE  /\ transcript[t] # "none" /\ indexRow[t] # "none"
         /\ place' = place /\ rewrite' = rewrite /\ SameReceipt /\ SameProvider
         /\ transcript'[t] = "other" /\ indexRow'[t] = "other" /\ owed'[t].tag = "other"
         /\ owed'[t].row = "other"
         /\ \A u \in Threads \ {t} : /\ transcript'[u] = transcript[u]
                                     /\ indexRow'[u] = indexRow[u] /\ owed'[u] = owed[u]
BY DEF ChooseProvider, RewriteTypes, SameReceipt, SameProvider

\* Archiving moves a transcript and changes no provider.
LEMMA ArchiveDoes ==
  ASSUME RewriteTypes, NEW t \in Threads, Archive(t)
  PROVE  rewrite' = rewrite /\ SameFiles
BY DEF Archive, history, SameFiles, SameThreads, SameReceipt, SameProvider

\* A stuttering step leaves all that the invariants read.
LEMMA NothingDoes ==
  ASSUME UNCHANGED threadVars
  PROVE  rewrite' = rewrite /\ SameFiles /\ place' = place /\ spoiled' = spoiled
BY DEF threadVars, files, history, SameFiles, SameThreads, SameReceipt, SameProvider
-----------------------------------------------------------------------------
(* Codex: what holds of a thread, and of a run.                             *)

\* An entry says what the user's thread was, and that it is there.
EntryTrue(t, e) ==
  /\ e.tag \in {"none", owed[t].tag} \/ owed[t].tag = "other"
  /\ e.tag = "other" => owed[t].tag = "other"
  /\ e.row \in {"none", owed[t].row} \/ owed[t].row = "other"
  /\ e.row = "other" => owed[t].row = "other"
  /\ e # NoEntry => Exists(t)
  /\ e # NoEntry /\ e.row = "none" => indexRow[t] = "none"

ReceiptTrue(t, r) ==
  /\ EntryTrue(t, r.entries[t])
  /\ "router" \in {owed[t].tag, owed[t].row} => t \in r.preexisting
  /\ r.written /\ t \in r.preexisting => Exists(t)

\* The thread was born on Router, under a setup that stays.
Born(t) ==
  /\ threadReceipt.written /\ threadReceipt.entries[t] = NoEntry
  /\ t \notin threadReceipt.preexisting
  /\ rewrite.at \in Configuring => rewrite.previous.written
  /\ owed[t].tag = "own"

\* A thread is as it is without Router, or on Router and the receipt tells the way back.
TagKnown(t) ==
  \/ transcript[t] = owed[t].tag
  \/ /\ transcript[t] = "router"
     /\ \/ threadReceipt.entries[t].tag = owed[t].tag /\ owed[t].tag # "none"
        \/ Born(t)
RowKnown(t) ==
  \/ indexRow[t] = owed[t].row
  \/ /\ indexRow[t] = "router"
     /\ \/ threadReceipt.entries[t].row = owed[t].row /\ owed[t].row # "none"
        \/ owed[t].row = "own" /\ Born(t) /\ (transcript[t] = "router" \/ halfway)
BornRows(t) == Born(t) /\ transcript[t] = "router" => indexRow[t] \in {"router", "none"}
ThreadKnown(t) == TagKnown(t) /\ RowKnown(t) /\ BornRows(t) /\ ReceiptTrue(t, threadReceipt)

\* What a configure has found of a thread, beside its entry f, the receipt's e and
\* the one of before p.
FoundTrue(t, f, e, p) ==
  /\ f.tag \in {"none", owed[t].tag} \/ owed[t].tag = "other"
  /\ f.tag = "other" => owed[t].tag = "other"
  /\ e.tag = "other" => f.tag \in {"none", "other"}
  /\ f.row \in {"none", owed[t].row, "router"} \/ owed[t].row = "other"
  /\ e.row = "other" => f.row \in {"none", "other", "router"}
  /\ f.row = "router" => owed[t].row \in {"router", "other"} \/ p # NoEntry
  /\ f # NoEntry => Exists(t)
  /\ rewrite.at = "index" => f.row = "none"
  /\ rewrite.at # "index" /\ f # NoEntry /\ f.row = "none" => indexRow[t] = "none"
  /\ Born(t) /\ transcript[t] = "router" => f = NoEntry
FoundUndone(t, f) ==
  /\ rewrite.at = "undo" /\ f.tag # "none" =>
       t \in rewrite.todo \/ t \in rewrite.missed \/ transcript[t] = owed[t].tag
  /\ rewrite.at \in {"undoConfig", "undoReceipt"} =>
       /\ f.tag # "none" => transcript[t] = owed[t].tag
       /\ f.row # "none" /\ indexRow[t] = "router" => f.row = "router"
ConfigureKnows(t) == rewrite.at \in Configuring =>
  /\ FoundTrue(t, rewrite.found[t], threadReceipt.entries[t], rewrite.previous.entries[t])
  /\ FoundUndone(t, rewrite.found[t])
  /\ ReceiptTrue(t, rewrite.previous)

\* How far an unconfigure has come with a thread.
BackOrBorn(t) ==
  /\ transcript[t] = owed[t].tag \/ Born(t)
  /\ indexRow[t] = owed[t].row \/ Born(t)
RestoreKnows(t) ==
  /\ rewrite.at = "restore" /\ threadReceipt.entries[t].tag # "none" =>
       t \in rewrite.todo \/ t \in rewrite.missed \/ transcript[t] = owed[t].tag
  /\ rewrite.at \in {"own", "reclaim"} => BackOrBorn(t)
  /\ rewrite.at = "reclaim" /\ t \notin rewrite.todo => transcript[t] = owed[t].tag
  /\ rewrite.at = "remove" => transcript[t] = owed[t].tag /\ indexRow[t] = owed[t].row

ThreadInv(t) == ThreadKnown(t) /\ ConfigureKnows(t) /\ RestoreKnows(t)

\* A configure: the receipt is that of before or has all that was found.
ConfigureInv == rewrite.at \in Configuring =>
  /\ ~halfway
  /\ ~rewrite.previous.written => rewrite.previous = NoReceipt /\ rewrite.provider = "own"
  /\ ~rewrite.previous.written /\ rewrite.at \in {"index", "receipt", "config", "undoReceipt"} =>
       activeProvider = "own"
  /\ \/ threadReceipt = rewrite.previous /\ rewrite.at \notin {"config", "sync"}
     \/ /\ threadReceipt.written /\ rewrite.at \notin {"index", "receipt"}
        /\ threadReceipt.entries = Merged(rewrite.previous.entries, rewrite.found)
        /\ rewrite.previous.written => threadReceipt.preexisting = rewrite.previous.preexisting
RestoreInv == rewrite.at \in Restoring =>
  /\ threadReceipt.written /\ rewrite.entries = threadReceipt.entries
  /\ rewrite.at \in {"reclaim", "remove"} => activeProvider = "own" /\ halfway
\* The second look finds every thread.
PassInv ==
  /\ rewrite.at = "sync" => rewrite.entries = threadReceipt.entries
  /\ rewrite.at = "undo" => rewrite.entries = rewrite.found
  /\ rewrite.at \in Passes /\ rewrite.again => rewrite.names = place /\ rewrite.missed = {}
RunInv ==
  /\ ConfigureInv /\ RestoreInv /\ PassInv
  /\ ~threadReceipt.written => threadReceipt = NoReceipt /\ activeProvider = "own"

RewriteInv == RewriteTypes /\ (~spoiled => RunInv /\ \A t \in Threads : ThreadInv(t))
-----------------------------------------------------------------------------
(* Codex: the invariant, step by step.                                      *)

Sound == RewriteTypes /\ RunInv /\ \A t \in Threads : ThreadInv(t)
SoundNext == RunInv' /\ \A t \in Threads : ThreadInv(t)'

\* What is used of one thread.
LEMMA OneThread ==
  ASSUME Sound, NEW t \in Threads
  PROVE  /\ ThreadInv(t) /\ transcript[t] \in Tags /\ indexRow[t] \in Tags
         /\ owed[t].tag \in Tags /\ owed[t].row \in Tags
         /\ threadReceipt.entries[t].tag # "router"
         /\ threadReceipt.entries[t].tag # "none" \/ threadReceipt.entries[t].row # "none"
              => threadReceipt.entries[t] # NoEntry
         /\ NoEntry.tag = "none" /\ NoEntry.row = "none"
<1>1. threadReceipt.entries[t] \in Entries
  BY ReceiptParts DEF Sound, RewriteTypes, EntryMaps
<1>2. QED BY <1>1, EntriesSay DEF Sound, RewriteTypes

\* The same of what a configure has found.
LEMMA OneFound ==
  ASSUME Sound, rewrite.at \in Configuring, NEW t \in Threads
  PROVE  /\ rewrite # Idle /\ rewrite.found[t].tag # "router"
         /\ rewrite.found[t].tag # "none" \/ rewrite.found[t].row # "none"
              => rewrite.found[t] # NoEntry
         /\ rewrite.previous.entries[t].tag # "router"
         /\ rewrite.previous.entries[t].tag # "none" \/ rewrite.previous.entries[t].row # "none"
              => rewrite.previous.entries[t] # NoEntry
<1>1. rewrite # Idle
  BY RewriteStages DEF Sound, Configuring
<1>2. rewrite.found[t] \in Entries /\ rewrite.previous.entries[t] \in Entries
  BY <1>1, PartsAtWork, ReceiptParts DEF Sound, EntryMaps
<1>3. QED BY <1>1, <1>2, EntriesSay

\* A configure begins.
LEMMA ConfigureSound ==
  ASSUME Sound, BeginConfigure, ~Impatient
  PROVE  SoundNext
<1>1. /\ rewrite'.at = "index" /\ rewrite'.found = FromTranscripts
      /\ rewrite'.previous = threadReceipt /\ rewrite'.provider = activeProvider
  BY BeginConfigureDoes DEF Sound
<1>2. /\ rewrite.at = "idle" /\ ~halfway
      /\ transcript' = transcript /\ indexRow' = indexRow /\ activeProvider' = activeProvider
      /\ threadReceipt' = threadReceipt /\ owed' = owed /\ halfway' = halfway
  BY BeginConfigureDoes DEF Sound, SameFiles, SameThreads, SameReceipt, SameProvider
<1>3. RunInv'
  BY <1>1, <1>2 DEF Sound, RunInv, ConfigureInv, RestoreInv, PassInv, Configuring, Restoring,
                    Passes, ToRouter
<1>4. ASSUME NEW u \in Threads PROVE ThreadInv(u)'
  <2>1. \/ transcript[u] \in {"none", "router"} /\ rewrite'.found[u] = NoEntry
        \/ /\ transcript[u] \notin {"none", "router"}
           /\ rewrite'.found[u].tag = transcript[u] /\ rewrite'.found[u].row = "none"
    BY <1>1, FoundInTranscripts DEF Sound, RewriteTypes
  <2>2. ThreadKnown(u)'
    BY <1>1, <1>2, OneThread
       DEF ThreadInv, ThreadKnown, TagKnown, RowKnown, BornRows, Born, ReceiptTrue, EntryTrue, Exists
  <2>3. FoundTrue(u, rewrite.found[u], threadReceipt.entries[u], rewrite.previous.entries[u])'
    BY <1>1, <1>2, <2>1, OneThread
       DEF ThreadInv, ThreadKnown, TagKnown, RowKnown, BornRows, Born, ReceiptTrue, EntryTrue, Exists,
           FoundTrue
  <2>4. FoundUndone(u, rewrite.found[u])' /\ RestoreKnows(u)'
    BY <1>1 DEF FoundUndone, RestoreKnows
  <2>5. ReceiptTrue(u, rewrite.previous)'
    BY <1>1, <1>2, OneThread DEF ThreadInv, ThreadKnown, ReceiptTrue, EntryTrue, Exists
  <2>6. QED BY <2>2, <2>3, <2>4, <2>5, Zenon DEF ThreadInv, ConfigureKnows
<1>5. QED BY <1>3, <1>4, Zenon DEF SoundNext

\* The index is read.
LEMMA ReadIndexSound ==
  ASSUME Sound, ReadIndex
  PROVE  SoundNext
<1>1. /\ rewrite.at = "index" /\ rewrite'.at = "receipt"
      /\ rewrite'.found = WithIndex(rewrite.found)
      /\ rewrite'.previous = rewrite.previous /\ rewrite'.provider = rewrite.provider
  BY ReadIndexDoes DEF Sound
<1>2. /\ transcript' = transcript /\ indexRow' = indexRow /\ activeProvider' = activeProvider
      /\ threadReceipt' = threadReceipt /\ owed' = owed /\ halfway' = halfway
  BY ReadIndexDoes DEF Sound, SameFiles, SameThreads, SameReceipt, SameProvider
<1>3. rewrite.at \in Configuring /\ threadReceipt = rewrite.previous /\ ~halfway
  BY <1>1 DEF Sound, RunInv, ConfigureInv, Configuring
<1>4. RunInv'
  BY <1>1, <1>2, <1>3 DEF Sound, RunInv, ConfigureInv, RestoreInv, PassInv, Configuring, Restoring,
                    Passes, ToRouter
<1>5. ASSUME NEW u \in Threads PROVE ThreadInv(u)'
  <2>1. \/ /\ rewrite.found[u] # NoEntry
           /\ rewrite'.found[u].tag = rewrite.found[u].tag /\ rewrite'.found[u].row = indexRow[u]
        \/ /\ rewrite.found[u] = NoEntry /\ indexRow[u] \in {"none", "router"}
           /\ rewrite'.found[u] = NoEntry
        \/ /\ rewrite.found[u] = NoEntry /\ indexRow[u] \notin {"none", "router"}
           /\ rewrite'.found[u].tag = "none" /\ rewrite'.found[u].row = indexRow[u]
    <3>1. rewrite.found \in EntryMaps
      BY <1>3, OneFound, PartsAtWork DEF Sound
    <3>2. QED BY <1>1, <3>1, FoundInIndex DEF Sound, RewriteTypes
  <2>2. ThreadKnown(u)'
    BY <1>1, <1>2, <1>3, OneThread
       DEF ThreadInv, ThreadKnown, TagKnown, RowKnown, BornRows, Born, ReceiptTrue, EntryTrue, Exists,
           Configuring
  <2>3. FoundTrue(u, rewrite.found[u], threadReceipt.entries[u], rewrite.previous.entries[u])'
    BY <1>1, <1>2, <1>3, <2>1, OneThread, OneFound
       DEF ThreadInv, ThreadKnown, TagKnown, RowKnown, BornRows, Born, ReceiptTrue, EntryTrue, Exists,
           ConfigureKnows, FoundTrue, Configuring
  <2>4. FoundUndone(u, rewrite.found[u])' /\ RestoreKnows(u)'
    BY <1>1 DEF FoundUndone, RestoreKnows
  <2>5. ReceiptTrue(u, rewrite.previous)'
    BY <1>1, <1>2, <1>3, OneThread DEF ThreadInv, ConfigureKnows, ReceiptTrue, EntryTrue, Exists
  <2>6. QED BY <2>2, <2>3, <2>4, <2>5, Zenon DEF ThreadInv, ConfigureKnows
<1>6. QED BY <1>4, <1>5, Zenon DEF SoundNext

\* The receipt is saved: what was found is in it, unless it was known before.
LEMMA SaveReceiptSound ==
  ASSUME Sound, SaveReceipt
  PROVE  SoundNext
<1>1. rewrite.at = "receipt" /\ rewrite.at \in Configuring
  BY SaveReceiptDoes DEF Sound, Configuring
<1>2. /\ rewrite'.at = "config" /\ rewrite'.found = rewrite.found
      /\ rewrite'.previous = rewrite.previous /\ rewrite'.provider = rewrite.provider
  BY SaveReceiptDoes DEF Sound, FoundStays
<1>3. /\ transcript' = transcript /\ indexRow' = indexRow /\ activeProvider' = activeProvider
      /\ owed' = owed /\ halfway' = halfway
  BY SaveReceiptDoes DEF Sound, SameThreads, SameProvider
<1>4. threadReceipt = rewrite.previous /\ ~halfway
  BY <1>1 DEF Sound, RunInv, ConfigureInv
<1>5. /\ threadReceipt'.written = TRUE
      /\ threadReceipt'.entries = Merged(threadReceipt.entries, rewrite.found)
      /\ threadReceipt'.preexisting = IF threadReceipt.written THEN threadReceipt.preexisting
                                      ELSE OnRouter
  BY SaveReceiptDoes, Zenon DEF Sound
<1>6. RunInv'
  BY <1>1, <1>2, <1>3, <1>4, <1>5 DEF Sound, RunInv, ConfigureInv, RestoreInv, PassInv, Configuring, Restoring,
                    Passes, ToRouter
<1>7. ASSUME NEW u \in Threads PROVE ThreadInv(u)'
  <2>1. \/ threadReceipt.entries[u] = NoEntry /\ threadReceipt'.entries[u] = rewrite.found[u]
        \/ /\ threadReceipt.entries[u] # NoEntry /\ threadReceipt.entries[u].tag = "none"
           /\ rewrite.found[u].tag # "none"
           /\ threadReceipt'.entries[u].tag = rewrite.found[u].tag
           /\ threadReceipt'.entries[u].row = threadReceipt.entries[u].row
        \/ /\ threadReceipt.entries[u] # NoEntry
           /\ threadReceipt'.entries[u] = threadReceipt.entries[u]
    <3>1. rewrite.found \in EntryMaps /\ threadReceipt.entries \in EntryMaps
      BY <1>1, OneFound, PartsAtWork, ReceiptParts DEF Sound, RewriteTypes
    <3>2. QED BY <1>5, <3>1, MergedEntries
  <2>2. /\ threadReceipt'.entries[u].tag # "router"
        /\ threadReceipt'.entries[u].tag # "none" \/ threadReceipt'.entries[u].row # "none"
              => threadReceipt'.entries[u] # NoEntry
    <3>1. threadReceipt' \in ThreadReceipts
      BY ReceiptSaved, Zenon DEF Sound
    <3>2. threadReceipt'.entries[u] \in Entries
      BY <3>1, ReceiptParts DEF EntryMaps
    <3>3. QED BY <3>2, EntriesSay
  <2>3. u \in threadReceipt'.preexisting <=> IF threadReceipt.written THEN u \in threadReceipt.preexisting
                                             ELSE "router" \in {transcript[u], indexRow[u]}
    BY <1>5 DEF OnRouter
  <2>4. ThreadKnown(u)'
    <3>1. ReceiptTrue(u, threadReceipt)'
      <4>1. EntryTrue(u, threadReceipt.entries[u])'
        BY <1>1, <1>3, <1>4, <2>1, OneThread, OneFound, ZenonT(40)
           DEF ThreadInv, ThreadKnown, ReceiptTrue, EntryTrue, Exists, ConfigureKnows, FoundTrue
      <4>2. "router" \in {owed'[u].tag, owed'[u].row} => u \in threadReceipt'.preexisting
        BY <1>3, <2>3, OneThread DEF ThreadInv, ThreadKnown, TagKnown, RowKnown, ReceiptTrue
      <4>3. u \in threadReceipt'.preexisting => Exists(u)'
        BY <1>3, <2>3, OneThread DEF ThreadInv, ThreadKnown, ReceiptTrue, Exists
      <4>4. QED BY <4>1, <4>2, <4>3, Zenon DEF ReceiptTrue
    <3>2. Born(u)' => Born(u)
      BY <1>1, <1>2, <1>3, <1>4, <1>5, <2>1, <2>2, <2>3, OneThread, OneFound
       DEF Born, Configuring
    <3>3. Born(u) /\ transcript[u] = "router" => Born(u)'
      BY <1>1, <1>2, <1>3, <1>4, <1>5, <2>1, <2>2, <2>3, OneThread, OneFound
       DEF Born, Configuring, ThreadInv, ConfigureKnows, FoundTrue
    <3>4. TagKnown(u)'
      BY <1>3, <1>4, <2>1, <3>1, <3>3, OneThread DEF ThreadInv, ThreadKnown, TagKnown, ReceiptTrue, EntryTrue
    <3>5. RowKnown(u)'
      BY <1>3, <1>4, <2>1, <3>1, <3>3, OneThread DEF ThreadInv, ThreadKnown, RowKnown, ReceiptTrue, EntryTrue
    <3>6. BornRows(u)'
      BY <1>3, <3>2, OneThread DEF ThreadInv, ThreadKnown, BornRows
    <3>7. QED BY <3>1, <3>4, <3>5, <3>6, Zenon DEF ThreadKnown
  <2>5. FoundTrue(u, rewrite.found[u], threadReceipt.entries[u], rewrite.previous.entries[u])'
    <3>1. Born(u)' => Born(u)
      BY <1>1, <1>2, <1>3, <1>4, <1>5, <2>1, <2>2, <2>3, OneThread, OneFound
       DEF Born, Configuring
    <3>2. FoundTrue(u, rewrite.found[u], threadReceipt.entries[u], rewrite.previous.entries[u])
      BY <1>1, OneThread DEF ThreadInv, ConfigureKnows
    <3>3. /\ threadReceipt'.entries[u].tag = "other" => rewrite.found[u].tag \in {"none", "other"}
          /\ threadReceipt'.entries[u].row = "other" =>
               rewrite.found[u].row \in {"none", "other", "router"}
      BY <2>1, <3>2 DEF FoundTrue
    <3>4. QED
      BY <1>1, <1>2, <1>3, <3>1, <3>2, <3>3 DEF FoundTrue, Exists
  <2>6. FoundUndone(u, rewrite.found[u])' /\ RestoreKnows(u)'
    BY <1>2 DEF FoundUndone, RestoreKnows
  <2>7. ReceiptTrue(u, rewrite.previous)'
    BY <1>1, <1>2, <1>3, <1>4, OneThread DEF ThreadInv, ConfigureKnows, ReceiptTrue, EntryTrue, Exists
  <2>8. QED BY <2>4, <2>5, <2>6, <2>7, Zenon DEF ThreadInv, ConfigureKnows
<1>8. QED BY <1>6, <1>7, Zenon DEF SoundNext

\* Config.toml points at Router, and the pass over the transcripts begins.
LEMMA PointAtRouterSound ==
  ASSUME Sound, PointAtRouter
  PROVE  SoundNext
<1>1. rewrite.at = "config" /\ rewrite.at \in Configuring
  BY PointAtRouterDoes DEF Sound, Configuring
<1>2. /\ rewrite'.at = "sync" /\ rewrite'.entries = threadReceipt.entries
      /\ rewrite'.again = FALSE /\ rewrite'.found = rewrite.found
      /\ rewrite'.previous = rewrite.previous /\ rewrite'.provider = rewrite.provider
  BY PointAtRouterDoes DEF Sound, FoundStays
<1>3. /\ transcript' = transcript /\ indexRow' = indexRow /\ activeProvider' = "router"
      /\ threadReceipt' = threadReceipt /\ owed' = owed /\ halfway' = halfway
  BY PointAtRouterDoes DEF Sound, SameThreads, SameReceipt
<1>4. RunInv'
  BY <1>1, <1>2, <1>3 DEF Sound, RunInv, ConfigureInv, RestoreInv, PassInv, Configuring, Restoring,
                    Passes, ToRouter
<1>5. ASSUME NEW u \in Threads PROVE ThreadInv(u)'
  BY <1>1, <1>2, <1>3, OneThread
     DEF ThreadInv, ThreadKnown, TagKnown, RowKnown, BornRows, Born, ReceiptTrue, EntryTrue, Exists,
           ConfigureKnows, FoundTrue, FoundUndone, RestoreKnows, BackOrBorn, Configuring, Restoring
<1>6. QED BY <1>4, <1>5, Zenon DEF SoundNext

\* A step of a configure fails: nothing has been undone yet.
LEMMA FailConfigureSound ==
  ASSUME Sound, FailConfigure
  PROVE  SoundNext
<1>1. /\ rewrite.at \in {"receipt", "config", "sync"} /\ rewrite.at \in Configuring
  BY FailConfigureDoes DEF Sound, Configuring
<1>2. /\ rewrite'.at = "undo" /\ rewrite'.entries = rewrite.found
      /\ rewrite'.todo = Recorded(rewrite.found)
      /\ rewrite'.again = FALSE /\ rewrite'.found = rewrite.found
      /\ rewrite'.previous = rewrite.previous /\ rewrite'.provider = rewrite.provider
  BY FailConfigureDoes DEF Sound, FoundStays
<1>3. /\ transcript' = transcript /\ indexRow' = indexRow /\ activeProvider' = activeProvider
      /\ threadReceipt' = threadReceipt /\ owed' = owed /\ halfway' = halfway
  BY FailConfigureDoes DEF Sound, SameFiles, SameThreads, SameReceipt, SameProvider
<1>4. RunInv'
  BY <1>1, <1>2, <1>3 DEF Sound, RunInv, ConfigureInv, RestoreInv, PassInv, Configuring, Restoring,
                    Passes, ToRouter
<1>5. ASSUME NEW u \in Threads PROVE ThreadInv(u)'
  <2>1. rewrite.found[u].tag # "none" => u \in rewrite'.todo
    BY <1>1, <1>2, OneFound DEF Recorded
  <2>2. QED BY <1>1, <1>2, <1>3, <2>1, OneThread
            DEF ThreadInv, ThreadKnown, TagKnown, RowKnown, BornRows, Born, ReceiptTrue, EntryTrue, Exists,
           ConfigureKnows, FoundTrue, FoundUndone, RestoreKnows, BackOrBorn, Configuring, Restoring
<1>6. QED BY <1>4, <1>5, Zenon DEF SoundNext

\* Nothing is left to do of a pass that is done.
LEMMA DonePasses ==
  ASSUME Sound, PassDone, rewrite.at \in Passes
  PROVE  rewrite.todo = {} /\ rewrite.missed = {}
BY DEF Sound, RunInv, PassInv, PassDone

\* The rows follow: a row goes to Router only if the receipt has what it was.
LEMMA SyncRowsSound ==
  ASSUME Sound, SyncRows
  PROVE  SoundNext
<1>1. /\ rewrite.at \in {"sync", "redo"} /\ rewrite # Idle /\ rewrite'.at = "idle"
      /\ rewrite.entries = threadReceipt.entries /\ threadReceipt.written
  BY SyncRowsDoes
     DEF Sound, RunInv, ConfigureInv, RestoreInv, PassInv, Configuring, Restoring
<1>2. /\ transcript' = transcript /\ indexRow' = RowsToRouter(rewrite.entries)
      /\ activeProvider' = activeProvider
      /\ threadReceipt' = threadReceipt /\ owed' = owed /\ halfway' = halfway
  BY SyncRowsDoes DEF Sound, SameReceipt, SameProvider
<1>3. RunInv'
  BY <1>1, <1>2 DEF Sound, RunInv, ConfigureInv, RestoreInv, PassInv, Configuring, Restoring,
                    Passes, ToRouter
<1>4. ASSUME NEW u \in Threads PROVE ThreadInv(u)'
  <2>1. \/ indexRow'[u] = indexRow[u]
        \/ /\ indexRow'[u] = "router" /\ indexRow[u] # "none"
           /\ \/ /\ threadReceipt.entries[u].row # "none"
                 /\ indexRow[u] = threadReceipt.entries[u].row
              \/ /\ threadReceipt.entries[u].row = "none"
                 /\ indexRow[u] = threadReceipt.entries[u].tag
    BY <1>1, <1>2, PartsAtWork, RowsWritten DEF Sound, RewriteTypes
  <2>2. QED BY <1>1, <1>2, <2>1, OneThread
            DEF ThreadInv, ThreadKnown, TagKnown, RowKnown, BornRows, Born, ReceiptTrue, EntryTrue, Exists,
           ConfigureKnows, FoundTrue, FoundUndone, RestoreKnows, BackOrBorn, Configuring, Restoring
<1>5. QED BY <1>3, <1>4, Zenon DEF SoundNext

\* The rows of what this run has found are put back.
LEMMA UndoRowsSound ==
  ASSUME Sound, UndoRows
  PROVE  SoundNext
<1>1. /\ rewrite.at = "undo" /\ rewrite.at \in Configuring /\ rewrite # Idle
      /\ rewrite.entries = rewrite.found /\ ~halfway /\ rewrite.todo = {} /\ rewrite.missed = {}
  <2>1. rewrite.at = "undo" /\ PassDone
    BY UndoRowsDoes DEF Sound
  <2>2. rewrite.at \in Configuring /\ rewrite.at \in Passes
    BY <2>1 DEF Configuring, Passes
  <2>3. rewrite.todo = {} /\ rewrite.missed = {}
    BY <2>1, <2>2, DonePasses
  <2>4. QED BY <2>1, <2>2, <2>3, RewriteStages DEF Sound, RunInv, ConfigureInv, PassInv
<1>2. /\ rewrite'.at = "undoConfig" /\ rewrite'.found = rewrite.found
      /\ rewrite'.previous = rewrite.previous /\ rewrite'.provider = rewrite.provider
  BY UndoRowsDoes DEF Sound, FoundStays
<1>3. /\ transcript' = transcript /\ indexRow' = RowsRestored(rewrite.found)
      /\ activeProvider' = activeProvider
      /\ threadReceipt' = threadReceipt /\ owed' = owed /\ halfway' = halfway
  BY <1>1, UndoRowsDoes DEF Sound, SameReceipt, SameProvider
<1>4. RunInv'
  BY <1>1, <1>2, <1>3 DEF Sound, RunInv, ConfigureInv, RestoreInv, PassInv, Configuring, Restoring,
                    Passes, ToRouter
<1>5. ASSUME NEW u \in Threads PROVE ThreadInv(u)'
  <2>1. \/ /\ indexRow[u] = "router" /\ rewrite.found[u].row # "none"
           /\ indexRow'[u] = rewrite.found[u].row
        \/ ~(indexRow[u] = "router" /\ rewrite.found[u].row # "none") /\ indexRow'[u] = indexRow[u]
    BY <1>1, <1>3, PartsAtWork, RowsWritten DEF Sound, RewriteTypes
  <2>2. QED BY <1>1, <1>2, <1>3, <2>1, OneThread, OneFound
            DEF ThreadInv, ThreadKnown, TagKnown, RowKnown, BornRows, Born, ReceiptTrue, EntryTrue, Exists,
           ConfigureKnows, FoundTrue, FoundUndone, RestoreKnows, BackOrBorn, Configuring, Restoring
<1>6. QED BY <1>4, <1>5, Zenon DEF SoundNext

\* Config.toml is put back.
LEMMA UndoConfigSound ==
  ASSUME Sound, UndoConfig
  PROVE  SoundNext
<1>1. /\ rewrite.at = "undoConfig" /\ rewrite.at \in Configuring
  BY UndoConfigDoes DEF Sound, Configuring
<1>2. /\ rewrite'.at = "undoReceipt" /\ rewrite'.found = rewrite.found
      /\ rewrite'.previous = rewrite.previous /\ rewrite'.provider = rewrite.provider
  BY UndoConfigDoes DEF Sound, FoundStays
<1>3. /\ transcript' = transcript /\ indexRow' = indexRow
      /\ activeProvider' = rewrite.provider
      /\ threadReceipt' = threadReceipt /\ owed' = owed /\ halfway' = halfway
  BY UndoConfigDoes DEF Sound, SameThreads, SameReceipt
<1>4. RunInv'
  BY <1>1, <1>2, <1>3 DEF Sound, RunInv, ConfigureInv, RestoreInv, PassInv, Configuring, Restoring,
                    Passes, ToRouter
<1>5. ASSUME NEW u \in Threads PROVE ThreadInv(u)'
  BY <1>1, <1>2, <1>3, OneThread
     DEF ThreadInv, ThreadKnown, TagKnown, RowKnown, BornRows, Born, ReceiptTrue, EntryTrue, Exists,
           ConfigureKnows, FoundTrue, FoundUndone, RestoreKnows, BackOrBorn, Configuring, Restoring
<1>6. QED BY <1>4, <1>5, Zenon DEF SoundNext

\* The receipt is put back: what it loses has been given back.
LEMMA UndoReceiptSound ==
  ASSUME Sound, UndoReceipt
  PROVE  SoundNext
<1>1. /\ rewrite.at = "undoReceipt" /\ rewrite.at \in Configuring /\ rewrite # Idle
      /\ rewrite'.at = "idle" /\ ~halfway
  BY UndoReceiptDoes DEF Sound, RunInv, ConfigureInv, Configuring
<1>2. /\ transcript' = transcript /\ indexRow' = indexRow /\ activeProvider' = activeProvider
      /\ threadReceipt' = rewrite.previous /\ owed' = owed /\ halfway' = halfway
  BY UndoReceiptDoes DEF Sound, SameThreads, SameProvider
<1>3. RunInv'
  BY <1>1, <1>2 DEF Sound, RunInv, ConfigureInv, RestoreInv, PassInv, Configuring, Restoring,
                    Passes, ToRouter
<1>4. ASSUME NEW u \in Threads PROVE ThreadInv(u)'
  <2>1. CASE threadReceipt = rewrite.previous
    BY <1>1, <1>2, <2>1, OneThread
       DEF ThreadInv, ThreadKnown, TagKnown, RowKnown, BornRows, Born, ReceiptTrue, EntryTrue, Exists,
           ConfigureKnows, FoundTrue, FoundUndone, RestoreKnows, BackOrBorn, Configuring, Restoring
  <2>2. CASE /\ threadReceipt.written
             /\ threadReceipt.entries = Merged(rewrite.previous.entries, rewrite.found)
             /\ rewrite.previous.written
                  => threadReceipt.preexisting = rewrite.previous.preexisting
    <3>1. \/ /\ rewrite.previous.entries[u] = NoEntry
             /\ threadReceipt.entries[u] = rewrite.found[u]
          \/ /\ rewrite.previous.entries[u] # NoEntry /\ rewrite.previous.entries[u].tag = "none"
             /\ rewrite.found[u].tag # "none"
             /\ threadReceipt.entries[u].tag = rewrite.found[u].tag
             /\ threadReceipt.entries[u].row = rewrite.previous.entries[u].row
          \/ /\ rewrite.previous.entries[u] # NoEntry
             /\ threadReceipt.entries[u] = rewrite.previous.entries[u]
      <4>1. rewrite.found \in EntryMaps /\ rewrite.previous.entries \in EntryMaps
        BY <1>1, PartsAtWork, ReceiptParts DEF Sound
      <4>2. QED BY <2>2, <4>1, MergedEntries
    <3>2. /\ rewrite.found[u].tag # "none" => transcript[u] = owed[u].tag
          /\ rewrite.found[u].row # "none" /\ indexRow[u] = "router" =>
               rewrite.found[u].row = "router"
          /\ ReceiptTrue(u, rewrite.previous)
      BY <1>1, OneThread DEF ThreadInv, ConfigureKnows, FoundUndone
    <3>3. rewrite.found[u].row = "router" =>
            owed[u].row \in {"router", "other"} \/ rewrite.previous.entries[u] # NoEntry
      BY <1>1, OneThread DEF ThreadInv, ConfigureKnows, FoundTrue
    <3>4. Born(u) => Born(u)'
      BY <1>1, <1>2, <2>2, <3>1, OneThread, OneFound DEF Born, Configuring
    <3>5. Born(u)' => Born(u) \/ threadReceipt.entries[u] = rewrite.found[u]
      BY <1>1, <1>2, <2>2, <3>1, OneThread, OneFound DEF Born
    <3>6. TagKnown(u)'
      BY <1>1, <1>2, <3>1, <3>2, <3>4, OneThread DEF ThreadInv, ThreadKnown, TagKnown
    <3>7. RowKnown(u)'
      BY <1>1, <1>2, <3>1, <3>2, <3>3, <3>4, OneThread DEF ThreadInv, ThreadKnown, RowKnown
    <3>8. BornRows(u)'
      BY <1>1, <1>2, <3>1, <3>2, <3>5, OneThread
         DEF ThreadInv, ThreadKnown, TagKnown, BornRows, Born
    <3>9. ReceiptTrue(u, threadReceipt)'
      BY <1>2, <3>2 DEF ReceiptTrue, EntryTrue, Exists
    <3>10. ConfigureKnows(u)' /\ RestoreKnows(u)'
      BY <1>1 DEF ConfigureKnows, RestoreKnows, Configuring
    <3>11. QED BY <3>6, <3>7, <3>8, <3>9, <3>10, Zenon DEF ThreadInv, ThreadKnown
  <2>3. QED BY <1>1, <2>1, <2>2 DEF Sound, RunInv, ConfigureInv
<1>5. QED BY <1>3, <1>4, Zenon DEF SoundNext

\* An unconfigure begins.
LEMMA BeginRestoreSound ==
  ASSUME Sound, BeginRestore
  PROVE  SoundNext
<1>1. /\ rewrite.at = "idle" /\ threadReceipt.written /\ rewrite'.at = "restore"
      /\ rewrite'.entries = threadReceipt.entries
      /\ rewrite'.todo = Recorded(threadReceipt.entries) /\ rewrite'.again = FALSE
  BY BeginRestoreDoes DEF Sound
<1>2. /\ transcript' = transcript /\ indexRow' = indexRow /\ activeProvider' = activeProvider
      /\ threadReceipt' = threadReceipt /\ owed' = owed /\ halfway' = halfway
  BY BeginRestoreDoes DEF Sound, SameFiles, SameThreads, SameReceipt, SameProvider
<1>3. RunInv'
  BY <1>1, <1>2 DEF Sound, RunInv, ConfigureInv, RestoreInv, PassInv, Configuring, Restoring,
                    Passes, ToRouter
<1>4. ASSUME NEW u \in Threads PROVE ThreadInv(u)'
  <2>1. threadReceipt.entries[u].tag # "none" => u \in rewrite'.todo
    BY <1>1, OneThread DEF Recorded
  <2>2. QED BY <1>1, <1>2, <2>1, OneThread
            DEF ThreadInv, ThreadKnown, TagKnown, RowKnown, BornRows, Born, ReceiptTrue, EntryTrue, Exists,
           ConfigureKnows, FoundTrue, FoundUndone, RestoreKnows, BackOrBorn, Configuring, Restoring
<1>5. QED BY <1>3, <1>4, Zenon DEF SoundNext

\* The rows are put back.
LEMMA RestoreRowsSound ==
  ASSUME Sound, RestoreRows
  PROVE  SoundNext
<1>1. /\ rewrite.at = "restore" /\ rewrite # Idle /\ rewrite.entries = threadReceipt.entries
      /\ threadReceipt.written /\ rewrite.todo = {} /\ rewrite.missed = {}
  <2>1. rewrite.at = "restore" /\ PassDone /\ rewrite # Idle
    BY RestoreRowsDoes DEF Sound
  <2>2. rewrite.at \in Restoring /\ rewrite.at \in Passes
    BY <2>1 DEF Restoring, Passes
  <2>3. rewrite.todo = {} /\ rewrite.missed = {}
    BY <2>1, <2>2, DonePasses
  <2>4. QED BY <2>1, <2>2, <2>3 DEF Sound, RunInv, RestoreInv
<1>2. rewrite'.at = "own" /\ rewrite'.entries = rewrite.entries
  BY RestoreRowsDoes DEF Sound
<1>3. /\ transcript' = transcript /\ indexRow' = RowsRestored(rewrite.entries)
      /\ activeProvider' = activeProvider
      /\ threadReceipt' = threadReceipt /\ owed' = owed /\ halfway' = halfway
  BY RestoreRowsDoes DEF Sound, SameReceipt, SameProvider
<1>4. RunInv'
  BY <1>1, <1>2, <1>3 DEF Sound, RunInv, ConfigureInv, RestoreInv, PassInv, Configuring, Restoring,
                    Passes, ToRouter
<1>5. ASSUME NEW u \in Threads PROVE ThreadInv(u)'
  <2>1. \/ /\ indexRow[u] = "router" /\ threadReceipt.entries[u].row # "none"
           /\ indexRow'[u] = threadReceipt.entries[u].row
        \/ ~(indexRow[u] = "router" /\ threadReceipt.entries[u].row # "none")
           /\ indexRow'[u] = indexRow[u]
    BY <1>1, <1>3, PartsAtWork, RowsWritten DEF Sound, RewriteTypes
  <2>2. QED BY <1>1, <1>2, <1>3, <2>1, OneThread
            DEF ThreadInv, ThreadKnown, TagKnown, RowKnown, BornRows, Born, ReceiptTrue, EntryTrue, Exists,
           ConfigureKnows, FoundTrue, FoundUndone, RestoreKnows, BackOrBorn, Configuring, Restoring
<1>6. QED BY <1>4, <1>5, Zenon DEF SoundNext

\* An unconfigure fails before config.toml is back: the threads are tagged again.
LEMMA FailRestoreSound ==
  ASSUME Sound, FailRestore
  PROVE  SoundNext
<1>1. /\ rewrite.at \in {"restore", "own"}
      /\ rewrite.entries = threadReceipt.entries /\ threadReceipt.written
  BY FailRestoreDoes DEF Sound, RunInv, RestoreInv, Restoring
<1>2. /\ rewrite'.at = "redo" /\ rewrite'.entries = rewrite.entries /\ rewrite'.again = FALSE
  BY FailRestoreDoes DEF Sound
<1>3. /\ transcript' = transcript /\ indexRow' = indexRow /\ activeProvider' = activeProvider
      /\ threadReceipt' = threadReceipt /\ owed' = owed /\ halfway' = halfway
  BY FailRestoreDoes DEF Sound, SameFiles, SameThreads, SameReceipt, SameProvider
<1>4. RunInv'
  BY <1>1, <1>2, <1>3 DEF Sound, RunInv, ConfigureInv, RestoreInv, PassInv, Configuring, Restoring,
                    Passes, ToRouter
<1>5. ASSUME NEW u \in Threads PROVE ThreadInv(u)'
  BY <1>1, <1>2, <1>3, OneThread
     DEF ThreadInv, ThreadKnown, TagKnown, RowKnown, BornRows, Born, ReceiptTrue, EntryTrue, Exists,
           ConfigureKnows, FoundTrue, FoundUndone, RestoreKnows, BackOrBorn, Configuring, Restoring
<1>6. QED BY <1>4, <1>5, Zenon DEF SoundNext

\* A run ends, or is ended, and leaves everything as it is.
LEMMA EndsSound ==
  ASSUME Sound, FailRedo \/ FailReclaim \/ KillRewrite
  PROVE  SoundNext
<1>1. rewrite'.at = "idle"
  BY EndsDo DEF Sound
<1>2. /\ transcript' = transcript /\ indexRow' = indexRow /\ activeProvider' = activeProvider
      /\ threadReceipt' = threadReceipt /\ owed' = owed /\ halfway' = halfway
  BY EndsDo DEF Sound, SameFiles, SameThreads, SameReceipt, SameProvider
<1>3. RunInv'
  BY <1>1, <1>2 DEF Sound, RunInv, ConfigureInv, RestoreInv, PassInv, Configuring, Restoring,
                    Passes, ToRouter
<1>4. ASSUME NEW u \in Threads PROVE ThreadInv(u)'
  <2>1. Born(u) => Born(u)'
    BY <1>1, <1>2 DEF Born, Configuring
  <2>2. BornRows(u)'
    BY <1>1, <1>2, <2>1, OneThread DEF ThreadInv, ThreadKnown, TagKnown, BornRows, Born
  <2>3. QED BY <1>1, <1>2, <2>1, <2>2, OneThread
            DEF ThreadInv, ThreadKnown, TagKnown, RowKnown, ReceiptTrue, EntryTrue, Exists,
                ConfigureKnows, RestoreKnows, Configuring
<1>5. QED BY <1>3, <1>4, Zenon DEF SoundNext

\* Config.toml is back.
LEMMA PointAtOwnSound ==
  ASSUME Sound, PointAtOwn
  PROVE  SoundNext
<1>1. rewrite.at = "own" /\ threadReceipt.written /\ rewrite.entries = threadReceipt.entries
  BY PointAtOwnDoes DEF Sound, RunInv, RestoreInv, Restoring
<1>2. /\ rewrite'.at = "reclaim" /\ rewrite'.entries = rewrite.entries /\ rewrite'.todo = Threads
  BY PointAtOwnDoes DEF Sound
<1>3. /\ transcript' = transcript /\ indexRow' = indexRow /\ activeProvider' = "own"
      /\ threadReceipt' = threadReceipt /\ owed' = owed /\ halfway' = TRUE
  BY PointAtOwnDoes DEF Sound, SameThreads, SameReceipt
<1>4. RunInv'
  BY <1>1, <1>2, <1>3 DEF Sound, RunInv, ConfigureInv, RestoreInv, PassInv, Configuring, Restoring,
                    Passes, ToRouter
<1>5. ASSUME NEW u \in Threads PROVE ThreadInv(u)'
  BY <1>1, <1>2, <1>3, OneThread
     DEF ThreadInv, ThreadKnown, TagKnown, RowKnown, BornRows, Born, ReceiptTrue, EntryTrue, Exists,
           ConfigureKnows, FoundTrue, FoundUndone, RestoreKnows, BackOrBorn, Configuring, Restoring
<1>6. QED BY <1>4, <1>5, Zenon DEF SoundNext

\* A thread is protected if it was on Router before, or has an entry.
LEMMA ProtectedThreads ==
  ASSUME NEW t \in Threads
  PROVE  t \in Protected <=> \/ t \in threadReceipt.preexisting
                             \/ threadReceipt.entries[t].tag # "none"
BY DEF Protected

\* A thread born on Router moves to the restored provider; no other thread is there.
LEMMA ReclaimSound ==
  ASSUME Sound, NEW t \in Threads, Reclaim(t)
  PROVE  SoundNext
<1>1. /\ rewrite.at = "reclaim" /\ threadReceipt.written
      /\ rewrite.entries = threadReceipt.entries /\ activeProvider = "own" /\ halfway
  BY ReclaimDoes DEF Sound, RunInv, RestoreInv, Restoring
<1>2. /\ rewrite'.at = "reclaim" /\ rewrite'.entries = rewrite.entries
      /\ rewrite'.todo = rewrite.todo \ {t}
  BY ReclaimDoes DEF Sound
<1>3. /\ indexRow' = indexRow /\ activeProvider' = activeProvider
      /\ threadReceipt' = threadReceipt /\ owed' = owed /\ halfway' = halfway
  BY ReclaimDoes DEF Sound, SameReceipt, SameProvider
<1>4. RunInv'
  BY <1>1, <1>2, <1>3 DEF Sound, RunInv, ConfigureInv, RestoreInv, PassInv, Configuring, Restoring,
                    Passes, ToRouter
<1>5. ASSUME NEW u \in Threads, u # t PROVE transcript'[u] = transcript[u]
  BY <1>5, ReclaimDoes DEF Sound
<1>6. \/ t \in Protected /\ transcript'[t] = transcript[t]
      \/ t \notin Protected /\ transcript[t] # "router" /\ transcript'[t] = transcript[t]
      \/ /\ t \notin Protected /\ transcript[t] = "router"
         /\ transcript'[t] = IF threadReceipt.entries[t].row = "none" THEN "own"
                             ELSE threadReceipt.entries[t].row
  BY <1>1, ReclaimDoes DEF Sound
<1>7. transcript'[t] = owed[t].tag
  BY <1>1, <1>6, ProtectedThreads, OneThread
     DEF ThreadInv, ThreadKnown, ReceiptTrue, RestoreKnows, BackOrBorn, TagKnown, Born
<1>8. ASSUME NEW u \in Threads PROVE ThreadInv(u)'
  <2>1. transcript'[u] = transcript[u] \/ transcript'[u] = owed[u].tag
    BY <1>5, <1>7
  <2>2. u \notin rewrite'.todo => transcript'[u] = owed[u].tag
    BY <1>1, <1>2, <1>5, <1>7, OneThread DEF ThreadInv, RestoreKnows
  <2>3. Exists(u)' <=> Exists(u)
    BY <1>1, <1>3, <1>5, <1>6, <1>7, OneThread DEF ThreadInv, ThreadKnown, TagKnown, Exists
  <2>4. Born(u)' <=> Born(u)
    BY <1>1, <1>2, <1>3 DEF Born, Configuring
  <2>5. QED BY <1>1, <1>2, <1>3, <2>1, <2>2, <2>3, <2>4, OneThread
            DEF ThreadInv, ThreadKnown, TagKnown, RowKnown, BornRows, ReceiptTrue, EntryTrue,
                ConfigureKnows, RestoreKnows, BackOrBorn, Configuring
<1>9. QED BY <1>4, <1>8, Zenon DEF SoundNext

\* So do the rows of threads born on Router.
LEMMA ReclaimRowsSound ==
  ASSUME Sound, ReclaimRows
  PROVE  SoundNext
<1>1. /\ rewrite.at = "reclaim" /\ threadReceipt.written /\ rewrite.todo = {}
      /\ rewrite.entries = threadReceipt.entries /\ activeProvider = "own" /\ halfway
  BY ReclaimRowsDoes DEF Sound, RunInv, RestoreInv, Restoring
<1>2. rewrite'.at = "remove" /\ rewrite'.entries = rewrite.entries
  BY ReclaimRowsDoes DEF Sound
<1>3. /\ transcript' = transcript /\ activeProvider' = activeProvider
      /\ threadReceipt' = threadReceipt /\ owed' = owed /\ halfway' = halfway
  BY ReclaimRowsDoes DEF Sound, SameReceipt, SameProvider
<1>4. RunInv'
  BY <1>1, <1>2, <1>3 DEF Sound, RunInv, ConfigureInv, RestoreInv, PassInv, Configuring, Restoring,
                    Passes, ToRouter
<1>5. ASSUME NEW u \in Threads PROVE ThreadInv(u)'
  <2>1. indexRow'[u] = IF indexRow[u] = "router" /\ u \notin Protected THEN "own" ELSE indexRow[u]
    BY ReclaimRowsDoes DEF Sound
  <2>2. transcript[u] = owed[u].tag
    BY <1>1, OneThread DEF ThreadInv, RestoreKnows
  <2>3. indexRow'[u] = owed[u].row
    BY <1>1, <2>1, ProtectedThreads, OneThread
       DEF ThreadInv, ThreadKnown, ReceiptTrue, RestoreKnows, BackOrBorn, RowKnown, Born
  <2>4. Exists(u)' <=> Exists(u)
    BY <1>3, <2>1 DEF Exists
  <2>5. BornRows(u)'
    BY <1>3, <2>2 DEF BornRows, Born
  <2>6. ReceiptTrue(u, threadReceipt)'
    BY <1>3, <2>1, <2>4, OneThread DEF ThreadInv, ThreadKnown, ReceiptTrue, EntryTrue
  <2>7. QED BY <1>2, <1>3, <2>2, <2>3, <2>5, <2>6
            DEF ThreadInv, ThreadKnown, TagKnown, RowKnown, ConfigureKnows, RestoreKnows, Configuring
<1>6. QED BY <1>4, <1>5, Zenon DEF SoundNext

\* The receipt is removed: every thread is back.
LEMMA RemoveReceiptSound ==
  ASSUME Sound, RemoveReceipt
  PROVE  SoundNext
<1>1. rewrite.at = "remove" /\ activeProvider = "own" /\ rewrite'.at = "idle"
  BY RemoveReceiptDoes DEF Sound, RunInv, RestoreInv, Restoring
<1>2. /\ transcript' = transcript /\ indexRow' = indexRow /\ activeProvider' = activeProvider
      /\ threadReceipt' = NoReceipt /\ owed' = owed /\ halfway' = FALSE
  BY RemoveReceiptDoes DEF Sound, SameThreads
<1>3. RunInv'
  BY <1>1, <1>2 DEF Sound, RunInv, ConfigureInv, RestoreInv, PassInv, Configuring, Restoring,
                    Passes, ToRouter
<1>4. ASSUME NEW u \in Threads PROVE ThreadInv(u)'
  <2>1. NoReceipt.entries[u] = NoEntry /\ NoReceipt.preexisting = Threads /\ ~NoReceipt.written
    BY ReceiptParts
  <2>2. QED BY <1>1, <1>2, <2>1, OneThread
            DEF ThreadInv, ThreadKnown, TagKnown, RowKnown, BornRows, Born, ReceiptTrue, EntryTrue, Exists,
           ConfigureKnows, FoundTrue, FoundUndone, RestoreKnows, BackOrBorn, Configuring, Restoring
<1>5. QED BY <1>3, <1>4, Zenon DEF SoundNext

\* A visit puts a thread on Router only if the receipt has its entry, and gives back
\* what it was.
LEMMA VisitSound ==
  ASSUME Sound, NEW t \in Threads, Visit(t)
  PROVE  SoundNext
<1> DEFINE tag == rewrite.entries[t].tag
<1>1. /\ rewrite.at \in {"sync", "redo", "restore", "undo"}
      /\ rewrite.at # "undo" => rewrite.entries = threadReceipt.entries
      /\ rewrite.at = "undo" => rewrite.entries = rewrite.found
  BY VisitDoes DEF Sound, RunInv, RestoreInv, PassInv, Restoring
<1>2. /\ rewrite'.at = rewrite.at /\ rewrite'.entries = rewrite.entries
      /\ rewrite'.todo = rewrite.todo \ {t}
      /\ rewrite'.missed \in {rewrite.missed, rewrite.missed \cup {t}}
      /\ t \notin rewrite'.missed => tag = "none" \/ Found(t)
      /\ rewrite'.missed = rewrite.missed \/ ~Found(t)
      /\ rewrite'.again = rewrite.again
      /\ rewrite'.names \in {Names, rewrite.names}
  BY VisitDoes, Zenon DEF Sound
<1>3. /\ indexRow' = indexRow /\ activeProvider' = activeProvider /\ place' = place
      /\ threadReceipt' = threadReceipt /\ owed' = owed /\ halfway' = halfway
  BY VisitDoes DEF Sound, SameReceipt, SameProvider
<1>4. rewrite.at = "undo" => /\ rewrite'.found = rewrite.found
                             /\ rewrite'.previous = rewrite.previous
                             /\ rewrite'.provider = rewrite.provider
  BY VisitDoes DEF Sound, FoundStays
<1>5. rewrite.at = "sync" => /\ rewrite'.found = rewrite.found
                             /\ rewrite'.previous = rewrite.previous
                             /\ rewrite'.provider = rewrite.provider
  BY VisitDoes DEF Sound, FoundStays
<1>6. rewrite.again => rewrite'.names = place /\ rewrite'.missed = {}
  <2>1. SUFFICES ASSUME rewrite.again PROVE rewrite'.names = place /\ rewrite'.missed = {}
    OBVIOUS
  <2>2. rewrite.names = place /\ rewrite.missed = {}
    BY <1>1, <2>1 DEF Sound, RunInv, PassInv, Passes, ToRouter
  <2>3. Found(t) /\ Names = place
    BY <2>2 DEF Found, Names
  <2>4. rewrite'.missed = rewrite.missed
    BY <1>2, <2>3
  <2>5. QED BY <1>2, <2>2, <2>3, <2>4
<1>7. RunInv'
  BY <1>1, <1>2, <1>3, <1>4, <1>5, <1>6 DEF Sound, RunInv, ConfigureInv, RestoreInv, PassInv, Configuring, Restoring,
                    Passes, ToRouter
<1>8. ASSUME NEW u \in Threads, u # t PROVE transcript'[u] = transcript[u]
  BY <1>8, VisitDoes DEF Sound
<1>9. \/ transcript'[t] = transcript[t] /\ (tag = "none" \/ ~Found(t))
      \/ /\ tag # "none" /\ rewrite.at \in {"sync", "redo"}
         /\ transcript'[t] = IF transcript[t] = tag THEN "router" ELSE transcript[t]
      \/ /\ tag # "none" /\ rewrite.at \in {"restore", "undo"}
         /\ transcript'[t] = IF transcript[t] = "router" THEN tag ELSE transcript[t]
  BY VisitDoes, Zenon DEF Sound
<1>10. ASSUME rewrite.at \in {"sync", "redo"}, transcript'[t] # transcript[t]
       PROVE  /\ transcript'[t] = "router" /\ transcript[t] # "none"
              /\ threadReceipt.entries[t].tag = owed[t].tag /\ owed[t].tag # "none"
  BY <1>1, <1>9, <1>10, OneThread DEF ThreadInv, ThreadKnown, TagKnown, ReceiptTrue, EntryTrue, Born
<1>11. ASSUME rewrite.at \in {"restore", "undo"}, tag # "none", transcript[t] = "router"
       PROVE  tag = owed[t].tag
  <2>1. CASE rewrite.at = "restore"
    BY <1>1, <1>11, <2>1, OneThread
       DEF ThreadInv, ThreadKnown, TagKnown, ReceiptTrue, EntryTrue, Born
  <2>2. CASE rewrite.at = "undo"
    BY <1>1, <1>11, <2>2, OneThread, OneFound
       DEF ThreadInv, ThreadKnown, TagKnown, ConfigureKnows, FoundTrue, Born, Configuring
  <2>3. QED BY <1>11, <2>1, <2>2
<1>12. ASSUME rewrite.at \in {"restore", "undo"}, tag # "none", transcript[t] # "router"
       PROVE  transcript[t] = owed[t].tag
  BY <1>12, OneThread DEF ThreadInv, ThreadKnown, TagKnown
<1>13. ASSUME NEW u \in Threads PROVE ThreadInv(u)'
  <2>1. Exists(u)' <=> Exists(u)
    BY <1>3, <1>8, <1>9, <1>10, <1>11, <1>12 DEF Exists
  <2>2. Born(u)' <=> Born(u)
    BY <1>1, <1>2, <1>3, <1>5, <1>4 DEF Born, Configuring
  <2>3. \/ transcript'[u] = transcript[u]
        \/ transcript'[u] = owed[u].tag
        \/ /\ transcript'[u] = "router" /\ rewrite.at \in {"sync", "redo"}
           /\ threadReceipt.entries[u].tag = owed[u].tag /\ owed[u].tag # "none"
    BY <1>1, <1>8, <1>9, <1>10, <1>11
  <2>4. rewrite.at \in {"restore", "undo"} /\ rewrite.entries[u].tag # "none" =>
          u \in rewrite'.todo \/ u \in rewrite'.missed \/ transcript'[u] = owed[u].tag
    <3>1. CASE u = t
      <4>1. CASE t \in rewrite'.missed
        BY <3>1, <4>1
      <4>2. CASE t \notin rewrite'.missed
        <5>1. tag = "none" \/ Found(t)
          BY <1>2, <4>2
        <5>2. QED BY <1>9, <1>11, <1>12, <3>1, <5>1
      <4>3. QED BY <4>1, <4>2
    <3>2. CASE u # t
      <4>1. CASE rewrite.at = "restore"
        BY <1>1, <1>2, <1>8, <3>2, <4>1, OneThread DEF ThreadInv, RestoreKnows
      <4>2. CASE rewrite.at = "undo"
        BY <1>1, <1>2, <1>8, <3>2, <4>2, OneThread
           DEF ThreadInv, ConfigureKnows, FoundUndone, Configuring
      <4>3. QED BY <4>1, <4>2
    <3>3. QED BY <3>1, <3>2
  <2>5. ThreadKnown(u)'
    <3>1. ASSUME Born(u), transcript[u] = "router" PROVE transcript'[u] = "router"
      <4>1. CASE u # t
        BY <1>8, <3>1, <4>1
      <4>2. CASE u = t /\ rewrite.at = "undo"
        BY <1>1, <1>9, <3>1, <4>2, OneThread, OneFound
           DEF ThreadInv, ConfigureKnows, FoundTrue, Configuring
      <4>3. CASE u = t /\ rewrite.at # "undo"
        BY <1>1, <1>9, <3>1, <4>3, OneThread DEF Born
      <4>4. QED BY <4>1, <4>2, <4>3
    <3>2. TagKnown(u)'
      BY <1>3, <2>2, <2>3, OneThread DEF ThreadInv, ThreadKnown, TagKnown
    <3>3. RowKnown(u)'
      BY <1>3, <2>2, <3>1, OneThread DEF ThreadInv, ThreadKnown, RowKnown
    <3>4. BornRows(u)'
      BY <1>3, <2>2, <2>3, OneThread DEF ThreadInv, ThreadKnown, RowKnown, BornRows, Born
    <3>5. ReceiptTrue(u, threadReceipt)'
      BY <1>3, <2>1, OneThread DEF ThreadInv, ThreadKnown, ReceiptTrue, EntryTrue
    <3>6. QED BY <3>2, <3>3, <3>4, <3>5, Zenon DEF ThreadKnown
  <2>6. ConfigureKnows(u)'
    BY <1>1, <1>2, <1>3, <1>4, <1>5, <2>1, <2>2, <2>3, <2>4, OneThread
       DEF ThreadInv, ConfigureKnows, FoundTrue, FoundUndone, ReceiptTrue, EntryTrue, Configuring, Born
  <2>7. RestoreKnows(u)'
    BY <1>1, <1>2, <1>3, <2>4 DEF RestoreKnows
  <2>8. QED BY <2>5, <2>6, <2>7, Zenon DEF ThreadInv
<1>14. QED BY <1>7, <1>13, Zenon DEF SoundNext

\* The next look.
LEMMA LookAgainSound ==
  ASSUME Sound, LookAgain
  PROVE  SoundNext
<1>1. /\ rewrite.at \in {"sync", "redo", "restore", "undo"} /\ rewrite.todo = {}
  BY LookAgainDoes DEF Sound
<1>2. /\ rewrite'.at = rewrite.at /\ rewrite'.entries = rewrite.entries
      /\ rewrite'.todo = rewrite.missed /\ rewrite'.missed = {} /\ rewrite'.again = TRUE
      /\ rewrite'.names = place
  BY LookAgainDoes DEF Sound
<1>3. rewrite.at \in {"sync", "undo"} => /\ rewrite'.found = rewrite.found
                                         /\ rewrite'.previous = rewrite.previous
                                         /\ rewrite'.provider = rewrite.provider
  BY LookAgainDoes DEF Sound, FoundStays
<1>4. /\ transcript' = transcript /\ indexRow' = indexRow /\ activeProvider' = activeProvider
      /\ threadReceipt' = threadReceipt /\ owed' = owed /\ halfway' = halfway /\ place' = place
  BY LookAgainDoes DEF Sound, SameFiles, SameThreads, SameReceipt, SameProvider
<1>5. RunInv'
  BY <1>1, <1>2, <1>3, <1>4 DEF Sound, RunInv, ConfigureInv, RestoreInv, PassInv, Configuring, Restoring,
                    Passes, ToRouter
<1>6. ASSUME NEW u \in Threads PROVE ThreadInv(u)'
  BY <1>1, <1>2, <1>3, <1>4, OneThread
     DEF ThreadInv, ThreadKnown, TagKnown, RowKnown, BornRows, Born, ReceiptTrue, EntryTrue, Exists,
           ConfigureKnows, FoundTrue, FoundUndone, RestoreKnows, BackOrBorn, Configuring, Restoring
<1>7. QED BY <1>5, <1>6, Zenon DEF SoundNext

\* A thread begins, in a setup that stays or on the user's own provider.
LEMMA StartThreadSound ==
  ASSUME Sound, NEW t \in Threads, StartThread(t)
  PROVE  SoundNext
<1>1. /\ ~Exists(t) /\ rewrite.at \notin {"sync", "undo", "undoConfig"}
      /\ activeProvider' = activeProvider /\ place' = place
      /\ threadReceipt' = threadReceipt /\ halfway' = halfway /\ rewrite' = rewrite
  BY StartThreadDoes DEF Sound, SameReceipt, SameProvider
<1>3. /\ transcript'[t] = activeProvider /\ owed'[t].tag = "own"
      /\ \/ indexRow'[t] = "none" /\ owed'[t].row = "none"
         \/ indexRow'[t] = activeProvider /\ owed'[t].row = "own"
  BY StartThreadDoes DEF Sound
<1>4. ASSUME NEW u \in Threads, u # t
      PROVE  transcript'[u] = transcript[u] /\ indexRow'[u] = indexRow[u] /\ owed'[u] = owed[u]
  BY <1>4, StartThreadDoes DEF Sound
<1>5. activeProvider \in {"own", "router"}
  BY DEF Sound, RewriteTypes
<1>6. RunInv'
  BY <1>1 DEF Sound, RunInv, ConfigureInv, RestoreInv, PassInv, Configuring, Restoring,
                    Passes, ToRouter
<1>7. ThreadInv(t)'
  <2>1. /\ threadReceipt.entries[t] = NoEntry
        /\ threadReceipt.written => t \notin threadReceipt.preexisting
        /\ NoEntry.tag = "none" /\ NoEntry.row = "none"
    BY <1>1, OneThread DEF ThreadInv, ThreadKnown, ReceiptTrue, EntryTrue
  <2>2. rewrite.at \in Configuring =>
          /\ rewrite.found[t] = NoEntry /\ rewrite.previous.entries[t] = NoEntry
          /\ rewrite.previous.written => t \notin rewrite.previous.preexisting
    BY <1>1, OneThread DEF ThreadInv, ConfigureKnows, FoundTrue, ReceiptTrue, EntryTrue
  <2>3. activeProvider = "router" => Born(t)'
    BY <1>1, <1>3, <2>1 DEF Sound, RunInv, ConfigureInv, Born, Configuring
  <2>4. ThreadKnown(t)'
    BY <1>1, <1>3, <1>5, <2>1, <2>3
       DEF ThreadKnown, TagKnown, RowKnown, BornRows, ReceiptTrue, EntryTrue, Exists
  <2>5. ConfigureKnows(t)'
    BY <1>1, <1>3, <1>5, <2>1, <2>2
       DEF ConfigureKnows, FoundTrue, FoundUndone, ReceiptTrue, EntryTrue, Exists
  <2>6. RestoreKnows(t)'
    BY <1>1, <1>3, <1>5, <2>1, <2>3 DEF Sound, RunInv, RestoreInv, RestoreKnows, BackOrBorn, Restoring
  <2>7. QED BY <2>4, <2>5, <2>6, Zenon DEF ThreadInv
<1>8. ASSUME NEW u \in Threads, u # t PROVE ThreadInv(u)'
  BY <1>1, <1>4, <1>8, OneThread
     DEF ThreadInv, ThreadKnown, TagKnown, RowKnown, BornRows, Born, ReceiptTrue, EntryTrue, Exists,
           ConfigureKnows, FoundTrue, FoundUndone, RestoreKnows, BackOrBorn, Configuring, Restoring
<1>9. QED BY <1>6, <1>7, <1>8, Zenon DEF SoundNext

\* A thread is put on another provider by its user.
LEMMA ChooseProviderSound ==
  ASSUME Sound, NEW t \in Threads, ChooseProvider(t)
  PROVE  SoundNext
<1>1. /\ "none" \notin {transcript[t], indexRow[t]}
      /\ activeProvider' = activeProvider /\ place' = place
      /\ threadReceipt' = threadReceipt /\ halfway' = halfway /\ rewrite' = rewrite
  BY ChooseProviderDoes DEF Sound, SameReceipt, SameProvider
<1>2. transcript'[t] = "other" /\ indexRow'[t] = "other" /\ owed'[t].tag = "other"
      /\ owed'[t].row = "other"
  BY ChooseProviderDoes DEF Sound
<1>3. ASSUME NEW u \in Threads, u # t
      PROVE  transcript'[u] = transcript[u] /\ indexRow'[u] = indexRow[u] /\ owed'[u] = owed[u]
  BY <1>3, ChooseProviderDoes DEF Sound
<1>4. RunInv'
  BY <1>1 DEF Sound, RunInv, ConfigureInv, RestoreInv, PassInv, Configuring, Restoring,
                    Passes, ToRouter
<1>5. ThreadInv(t)'
  <2>1. ThreadKnown(t)'
    BY <1>1, <1>2, OneThread
       DEF ThreadInv, ThreadKnown, TagKnown, RowKnown, BornRows, ReceiptTrue, EntryTrue, Exists
  <2>2. ConfigureKnows(t)'
    <3>1. SUFFICES ASSUME rewrite.at \in Configuring PROVE ConfigureKnows(t)'
      BY <1>1 DEF ConfigureKnows
    <3>2. ReceiptTrue(t, rewrite.previous)'
      BY <1>1, <1>2, <3>1, OneThread DEF ThreadInv, ConfigureKnows, ReceiptTrue, EntryTrue, Exists
    <3>3. FoundTrue(t, rewrite.found[t], threadReceipt.entries[t], rewrite.previous.entries[t])'
      BY <1>1, <1>2, <3>1, OneThread, OneFound
         DEF ThreadInv, ThreadKnown, ReceiptTrue, EntryTrue, ConfigureKnows, FoundTrue, Exists
    <3>4. FoundUndone(t, rewrite.found[t])'
      BY <1>1, <1>2 DEF FoundUndone
    <3>5. QED BY <3>2, <3>3, <3>4, Zenon DEF ConfigureKnows
  <2>3. RestoreKnows(t)'
    BY <1>1, <1>2 DEF RestoreKnows, BackOrBorn
  <2>4. QED BY <2>1, <2>2, <2>3, Zenon DEF ThreadInv
<1>6. ASSUME NEW u \in Threads, u # t PROVE ThreadInv(u)'
  BY <1>1, <1>3, <1>6, OneThread
     DEF ThreadInv, ThreadKnown, TagKnown, RowKnown, BornRows, Born, ReceiptTrue, EntryTrue, Exists,
           ConfigureKnows, FoundTrue, FoundUndone, RestoreKnows, BackOrBorn, Configuring, Restoring
<1>7. QED BY <1>4, <1>5, <1>6, Zenon DEF SoundNext

\* A thread is archived or taken out of the archive, but not during a second look.
LEMMA ArchiveSound ==
  ASSUME Sound, NEW t \in Threads, Archive(t),
         rewrite.at \in Passes /\ rewrite.again => place' = place
  PROVE  SoundNext
<1>1. /\ transcript' = transcript /\ indexRow' = indexRow /\ activeProvider' = activeProvider
      /\ threadReceipt' = threadReceipt /\ owed' = owed /\ halfway' = halfway
      /\ rewrite' = rewrite
  BY ArchiveDoes DEF Sound, SameFiles, SameThreads, SameReceipt, SameProvider
<1>2. RunInv'
  BY <1>1 DEF Sound, RunInv, ConfigureInv, RestoreInv, PassInv
<1>3. ASSUME NEW u \in Threads PROVE ThreadInv(u)'
  BY <1>1, OneThread
     DEF ThreadInv, ThreadKnown, TagKnown, RowKnown, BornRows, Born, ReceiptTrue, EntryTrue, Exists,
           ConfigureKnows, FoundTrue, FoundUndone, RestoreKnows, BackOrBorn, Configuring, Restoring
<1>4. QED BY <1>2, <1>3, Zenon DEF SoundNext

\* Nothing moves to or from the archive while a pass looks a second time for threads
\* it has not found.
Undisturbed == rewrite.at \in Passes /\ rewrite.again => place' = place

\* Threads are as they are when no setup has been made yet.
LEMMA RewriteBegins ==
  ASSUME ThreadsInit
  PROVE  RewriteInv
<1>1. RewriteTypes
  <2>1. /\ transcript \in [Threads -> Tags] /\ indexRow \in [Threads -> Tags]
        /\ place \in [Threads -> Places] /\ activeProvider \in {"own", "router"}
        /\ halfway \in BOOLEAN
    BY DEF ThreadsInit, Tags, Providers, Places
  <2>2. owed \in [Threads -> [tag : Tags, row : Tags]]
    BY <2>1 DEF ThreadsInit
  <2>3. threadReceipt \in ThreadReceipts /\ rewrite = Idle
    BY ReceiptParts, Zenon DEF ThreadsInit
  <2>4. QED BY <2>1, <2>2, <2>3, Zenon DEF RewriteTypes
<1>2. rewrite.at = "idle"
  BY <1>1, RewriteStages DEF ThreadsInit
<1>3. RunInv
  BY <1>2 DEF ThreadsInit, RunInv, ConfigureInv, RestoreInv, PassInv, Configuring, Restoring, Passes,
              ToRouter
<1>4. ASSUME NEW t \in Threads PROVE ThreadInv(t)
  <2>1. /\ threadReceipt.entries[t] = NoEntry /\ threadReceipt.preexisting = Threads
        /\ ~threadReceipt.written
    BY ReceiptParts DEF ThreadsInit
  <2>2. owed[t].tag = transcript[t] /\ owed[t].row = indexRow[t]
    BY DEF ThreadsInit
  <2>3. QED BY <1>2, <2>1, <2>2, EntriesSay
            DEF ThreadInv, ThreadKnown, TagKnown, RowKnown, BornRows, Born, ReceiptTrue, EntryTrue,
                Exists, ConfigureKnows, RestoreKnows, Configuring
<1>5. QED BY <1>1, <1>3, <1>4, Zenon DEF RewriteInv

\* Every step keeps what is known of threads and runs.
LEMMA RewriteInvKept ==
  ASSUME ~Impatient, RewriteInv, [ThreadsNext]_threadVars, [Undisturbed]_threadVars
  PROVE  RewriteInv'
<1>1. CASE UNCHANGED threadVars
  <2>1. /\ transcript' = transcript /\ indexRow' = indexRow /\ activeProvider' = activeProvider
        /\ threadReceipt' = threadReceipt /\ owed' = owed /\ halfway' = halfway /\ place' = place
        /\ rewrite' = rewrite /\ spoiled' = spoiled
    BY <1>1 DEF threadVars, files, history
  <2>2. RewriteTypes' <=> RewriteTypes
    BY <2>1 DEF RewriteTypes
  <2>3. RunInv' <=> RunInv
    BY <2>1 DEF RunInv, ConfigureInv, RestoreInv, PassInv
  <2>4. ASSUME NEW t \in Threads PROVE ThreadInv(t)' <=> ThreadInv(t)
    BY <2>1 DEF ThreadInv, ThreadKnown, TagKnown, RowKnown, BornRows, Born, ReceiptTrue, EntryTrue, Exists,
           ConfigureKnows, FoundTrue, FoundUndone, RestoreKnows, BackOrBorn
  <2>5. QED BY <2>1, <2>2, <2>3, <2>4, Zenon DEF RewriteInv
<1>2. CASE ThreadsNext
  <2>1. RewriteTypes'
    BY <1>2, RewriteTypesKept DEF RewriteInv
  <2>2. SUFFICES ASSUME ~spoiled' PROVE SoundNext
    BY <2>1, Zenon DEF RewriteInv, SoundNext
  <2>3. CASE FailUndo
    BY <2>2, <2>3 DEF FailUndo
  <2>4. CASE ~FailUndo
    <3>1. spoiled' = spoiled
      BY <1>2, <2>4
         DEF ThreadsNext, BeginConfigure, ReadIndex, SaveReceipt, PointAtRouter, SyncRows,
             FailConfigure, UndoRows, UndoConfig, UndoReceipt, BeginRestore, RestoreRows,
             FailRestore, FailRedo, PointAtOwn, ReclaimRows, FailReclaim, RemoveReceipt,
             KillRewrite, LookAgain, Visit, Reclaim, StartThread, Archive, ChooseProvider, history
    <3>2. Sound
      BY <2>2, <3>1, Zenon DEF RewriteInv, Sound
    <3>3. ASSUME NEW t \in Threads, Archive(t) PROVE SoundNext
      <4>1. threadVars' # threadVars
        BY <3>3 DEF Archive, threadVars, files, RewriteInv, RewriteTypes
      <4>2. Undisturbed
        BY <4>1, Zenon
      <4>3. QED BY <3>2, <3>3, <4>2, ArchiveSound DEF Undisturbed
    <3>4. QED
      BY <1>2, <2>4, <3>2, <3>3, ConfigureSound, ReadIndexSound, SaveReceiptSound,
         PointAtRouterSound, FailConfigureSound, SyncRowsSound, UndoRowsSound, UndoConfigSound,
         UndoReceiptSound, BeginRestoreSound, RestoreRowsSound, FailRestoreSound, EndsSound,
         PointAtOwnSound, ReclaimSound, ReclaimRowsSound, RemoveReceiptSound, VisitSound,
         LookAgainSound, StartThreadSound, ChooseProviderSound, Zenon
         DEF ThreadsNext
  <2>5. QED BY <2>3, <2>4, Zenon
<1>3. QED BY <1>1, <1>2, Zenon

\* After an unconfigure, and after a configure undone, every thread is what it is
\* without Router, for any threads, faults and kills, if a configure does not come
\* before an unconfigure that failed half way has been finished, and nothing is
\* archived during a second look.
THEOREM ThreadsComeBackHolds ==
  ASSUME ~Impatient
  PROVE  ThreadsSpec /\ [][Undisturbed]_threadVars => []ThreadsComeBack
<1>1. ThreadsInit => RewriteInv
  BY RewriteBegins
<1>2. RewriteInv /\ [ThreadsNext]_threadVars /\ [Undisturbed]_threadVars => RewriteInv'
  BY RewriteInvKept
<1>3. RewriteInv => ThreadsComeBack
  <2>1. SUFFICES ASSUME RewriteInv, rewrite = Idle, ~threadReceipt.written, ~spoiled,
                        NEW t \in Threads
                 PROVE  transcript[t] = owed[t].tag /\ indexRow[t] = owed[t].row
    BY DEF ThreadsComeBack
  <2>2. threadReceipt.entries[t] = NoEntry
    BY <2>1, ReceiptParts DEF RewriteInv, RunInv
  <2>3. ~Born(t)
    BY <2>1 DEF Born
  <2>4. ThreadKnown(t)
    BY <2>1 DEF RewriteInv, ThreadInv
  <2>5. QED BY <2>2, <2>3, <2>4, EntriesSay DEF ThreadKnown, TagKnown, RowKnown
<1>4. QED BY <1>1, <1>2, <1>3, PTL DEF ThreadsSpec
-----------------------------------------------------------------------------
(* Codex: threads are shown.  These hold after a rollback that failed, too.  *)

Chosen(t) == owed[t].tag = "other"

\* A thread that has an entry names what the entry says, or Router.
TagFollows(t, e) == Chosen(t) \/ (e.tag # "none" => transcript[t] \in {e.tag, "router"})
RowSays(kept, row) == \/ kept = "none" /\ row = "none"
                      \/ kept # "none" /\ row \in {kept, "router"}
RowFollows(t, e) == Chosen(t) \/ (e # NoEntry => RowSays(e.row, indexRow[t]))
EntryThere(t, e) == /\ e # NoEntry => Exists(t)
                    /\ e.tag = "none" => e.row # "router"
EntryFollows(t, e) == TagFollows(t, e) /\ RowFollows(t, e) /\ EntryThere(t, e)

\* What is found f agrees with what is recorded e.
Agree(t, f, e) ==
  Chosen(t) \/ /\ e.tag # "none" /\ f.tag # "none" => f.tag = e.tag
               /\ rewrite.at # "index" /\ e # NoEntry /\ f # NoEntry =>
                    RowSays(e.row, f.row)

FoundFollows(t, f, p) ==
  /\ TagFollows(t, f) /\ EntryThere(t, f)
  /\ rewrite.at = "index" => f.row = "none" /\ (f = NoEntry \/ f.tag # "none")
  /\ rewrite.at # "index" => RowFollows(t, f)
  /\ p.tag # "none" /\ f = NoEntry =>
       \/ Chosen(t)
       \/ /\ transcript[t] \in {"router", "none"}
          /\ rewrite.at # "index" => indexRow[t] \in {"router", "none"}

ShownInv(t) ==
  /\ EntryFollows(t, threadReceipt.entries[t])
  /\ rewrite.at \in Configuring =>
       /\ EntryFollows(t, rewrite.previous.entries[t])
       /\ FoundFollows(t, rewrite.found[t], rewrite.previous.entries[t])
       /\ Agree(t, rewrite.found[t], rewrite.previous.entries[t])
       /\ Agree(t, rewrite.found[t], threadReceipt.entries[t])
  /\ rewrite.at = "sync" /\ threadReceipt.entries[t].tag # "none" =>
       t \in rewrite.todo \/ t \in rewrite.missed \/ transcript[t] = "router" \/ Chosen(t)
  /\ rewrite.at \in {"own", "reclaim", "remove"} /\ threadReceipt.entries[t].row # "none" =>
       indexRow[t] # "router" \/ threadReceipt.entries[t].row = "router" \/ Chosen(t)

\* What a run carries is the receipt's, or what it has found.
CarriedInv ==
  /\ PassInv
  /\ rewrite.at \in Restoring => rewrite.entries = threadReceipt.entries
  /\ rewrite.at \in {"index", "receipt"} => rewrite.previous = threadReceipt

ShownSound == RewriteTypes /\ CarriedInv /\ \A t \in Threads : ShownInv(t)
ShownNext == CarriedInv' /\ \A t \in Threads : ShownInv(t)'

\* What is used of one thread.
LEMMA ShownThread ==
  ASSUME ShownSound, NEW t \in Threads
  PROVE  /\ ShownInv(t) /\ transcript[t] \in Tags /\ indexRow[t] \in Tags
         /\ threadReceipt.entries[t].tag # "router"
         /\ threadReceipt.entries[t].tag # "none" \/ threadReceipt.entries[t].row # "none"
              => threadReceipt.entries[t] # NoEntry
         /\ NoEntry.tag = "none" /\ NoEntry.row = "none"
<1>1. threadReceipt.entries[t] \in Entries
  BY ReceiptParts DEF ShownSound, RewriteTypes, EntryMaps
<1>2. QED BY <1>1, EntriesSay DEF ShownSound, RewriteTypes

\* The same of what a configure has found.
LEMMA ShownFound ==
  ASSUME ShownSound, rewrite.at \in Configuring, NEW t \in Threads
  PROVE  /\ rewrite.found \in EntryMaps /\ rewrite.found[t].tag # "router"
         /\ rewrite.found[t].tag # "none" \/ rewrite.found[t].row # "none"
              => rewrite.found[t] # NoEntry
         /\ rewrite.previous.entries[t].tag # "none" \/ rewrite.previous.entries[t].row # "none"
              => rewrite.previous.entries[t] # NoEntry
<1>1. rewrite # Idle
  BY RewriteStages DEF ShownSound, Configuring
<1>2. rewrite.found \in EntryMaps /\ rewrite.previous.entries \in EntryMaps
  BY <1>1, PartsAtWork, ReceiptParts DEF ShownSound
<1>3. rewrite.found[t] \in Entries /\ rewrite.previous.entries[t] \in Entries
  BY <1>2 DEF EntryMaps
<1>4. QED BY <1>2, <1>3, EntriesSay

\* The stages of which the invariant says nothing but what it says of all.
LEMMA ShownBetween ==
  ASSUME ShownSound, SameThreads, SameReceipt,
         \/ rewrite'.at \in {"idle", "restore", "redo"}
         \/ /\ rewrite.at \in Configuring \ {"index"} /\ FoundStays
            /\ rewrite'.at \in {"config", "undo", "undoConfig", "undoReceipt"}
  PROVE  \A u \in Threads : ShownInv(u)'
<1>1. /\ transcript' = transcript /\ indexRow' = indexRow /\ owed' = owed
      /\ threadReceipt' = threadReceipt
  BY DEF SameThreads, SameReceipt
<1>2. ASSUME NEW u \in Threads PROVE ShownInv(u)'
  <2>1. CASE rewrite'.at \in {"idle", "restore", "redo"}
    BY <1>1, <2>1, ShownThread
       DEF ShownInv, EntryFollows, TagFollows, RowFollows, EntryThere, Exists, Chosen, Configuring
  <2>2. CASE /\ rewrite.at \in Configuring \ {"index"} /\ FoundStays
             /\ rewrite'.at \in {"config", "undo", "undoConfig", "undoReceipt"}
    <3>1. rewrite'.found = rewrite.found /\ rewrite'.previous = rewrite.previous
      BY <2>2 DEF FoundStays
    <3>2. QED
      BY <1>1, <2>2, <3>1, ShownThread
         DEF ShownInv, FoundFollows, Agree, EntryFollows, TagFollows, RowFollows, EntryThere,
             Exists, Chosen, Configuring
  <2>3. QED BY <2>1, <2>2
<1>3. QED BY <1>2

\* A configure begins: what it finds are the transcripts not on Router.
LEMMA ConfigureShown ==
  ASSUME ShownSound, BeginConfigure
  PROVE  ShownNext
<1>1. /\ rewrite'.at = "index" /\ rewrite'.found = FromTranscripts
      /\ rewrite'.previous = threadReceipt
  BY BeginConfigureDoes DEF ShownSound
<1>2. /\ transcript' = transcript /\ indexRow' = indexRow /\ owed' = owed
      /\ threadReceipt' = threadReceipt
  BY BeginConfigureDoes DEF ShownSound, SameFiles, SameThreads, SameReceipt
<1>3. CarriedInv'
  BY <1>1, <1>2 DEF CarriedInv, PassInv, Passes, ToRouter, Restoring
<1>4. ASSUME NEW u \in Threads PROVE ShownInv(u)'
  <2>1. \/ transcript[u] \in {"none", "router"} /\ rewrite'.found[u] = NoEntry
        \/ /\ transcript[u] \notin {"none", "router"}
           /\ rewrite'.found[u].tag = transcript[u] /\ rewrite'.found[u].row = "none"
    BY <1>1, FoundInTranscripts DEF ShownSound, RewriteTypes
  <2>2. QED
    BY <1>1, <1>2, <2>1, ShownThread
       DEF ShownInv, FoundFollows, Agree, EntryFollows, TagFollows, RowFollows, EntryThere, Exists,
           Chosen
<1>5. QED BY <1>3, <1>4, Zenon DEF ShownNext

\* The rows of the index are those the entries name.
LEMMA ReadIndexShown ==
  ASSUME ShownSound, ReadIndex
  PROVE  ShownNext
<1>1. /\ rewrite.at = "index" /\ rewrite.at \in Configuring
      /\ rewrite'.at = "receipt" /\ rewrite'.found = WithIndex(rewrite.found)
      /\ rewrite'.previous = rewrite.previous /\ rewrite.previous = threadReceipt
  BY ReadIndexDoes DEF ShownSound, Configuring, CarriedInv
<1>2. /\ transcript' = transcript /\ indexRow' = indexRow /\ owed' = owed
      /\ threadReceipt' = threadReceipt
  BY ReadIndexDoes DEF ShownSound, SameFiles, SameThreads, SameReceipt
<1>3. CarriedInv'
  BY <1>1, <1>2 DEF CarriedInv, PassInv, Passes, ToRouter, Restoring
<1>4. ASSUME NEW u \in Threads PROVE ShownInv(u)'
  <2>1. \/ /\ rewrite.found[u] # NoEntry
           /\ rewrite'.found[u].tag = rewrite.found[u].tag
           /\ rewrite'.found[u].row = indexRow[u]
        \/ /\ rewrite.found[u] = NoEntry /\ indexRow[u] \in {"none", "router"}
           /\ rewrite'.found[u] = NoEntry
        \/ /\ rewrite.found[u] = NoEntry /\ indexRow[u] \notin {"none", "router"}
           /\ rewrite'.found[u].tag = "none" /\ rewrite'.found[u].row = indexRow[u]
    BY <1>1, ShownFound, FoundInIndex DEF ShownSound, RewriteTypes
  <2>2. QED
    BY <1>1, <1>2, <2>1, ShownThread, ShownFound
       DEF ShownInv, FoundFollows, Agree, EntryFollows, TagFollows, RowFollows, RowSays,
           EntryThere, Exists, Chosen
<1>5. QED BY <1>3, <1>4, Zenon DEF ShownNext

\* The receipt has what was recorded, and what is found in addition.
LEMMA SaveReceiptShown ==
  ASSUME ShownSound, SaveReceipt
  PROVE  ShownNext
<1>1. /\ rewrite.at = "receipt" /\ rewrite.at \in Configuring
      /\ rewrite'.at = "config" /\ rewrite'.found = rewrite.found
      /\ rewrite'.previous = rewrite.previous
  BY SaveReceiptDoes DEF ShownSound, Configuring, FoundStays
<1>2. /\ transcript' = transcript /\ indexRow' = indexRow /\ owed' = owed
      /\ threadReceipt'.entries = Merged(threadReceipt.entries, rewrite.found)
  BY SaveReceiptDoes DEF ShownSound, SameThreads
<1>3. CarriedInv'
  BY <1>1 DEF CarriedInv, PassInv, Passes, ToRouter, Restoring
<1>4. ASSUME NEW u \in Threads PROVE ShownInv(u)'
  <2>1. \/ threadReceipt.entries[u] = NoEntry /\ threadReceipt'.entries[u] = rewrite.found[u]
        \/ /\ threadReceipt.entries[u] # NoEntry /\ threadReceipt.entries[u].tag = "none"
           /\ rewrite.found[u].tag # "none"
           /\ threadReceipt'.entries[u].tag = rewrite.found[u].tag
           /\ threadReceipt'.entries[u].row = threadReceipt.entries[u].row
        \/ /\ threadReceipt.entries[u] # NoEntry
           /\ threadReceipt'.entries[u] = threadReceipt.entries[u]
    <3>1. rewrite.found \in EntryMaps /\ threadReceipt.entries \in EntryMaps
      BY <1>1, ShownFound, ReceiptParts DEF ShownSound, RewriteTypes
    <3>2. QED BY <1>2, <3>1, MergedEntries
  <2>2. EntryFollows(u, threadReceipt.entries[u])'
    BY <1>1, <1>2, <2>1, ShownThread, ShownFound, ZenonT(40)
       DEF ShownInv, FoundFollows, EntryFollows, TagFollows, RowFollows, RowSays, EntryThere,
           Exists, Chosen
  <2>3. /\ EntryFollows(u, rewrite.previous.entries[u])'
        /\ FoundFollows(u, rewrite.found[u], rewrite.previous.entries[u])'
        /\ Agree(u, rewrite.found[u], rewrite.previous.entries[u])'
    BY <1>1, <1>2, ShownThread
       DEF ShownInv, FoundFollows, Agree, EntryFollows, TagFollows, RowFollows, EntryThere,
           Exists, Chosen
  <2>4. Agree(u, rewrite.found[u], threadReceipt.entries[u])'
    BY <1>1, <1>2, <2>1, ShownThread, ShownFound DEF ShownInv, Agree, RowSays, Chosen
  <2>5. QED BY <1>1, <2>2, <2>3, <2>4 DEF ShownInv
<1>5. QED BY <1>3, <1>4, Zenon DEF ShownNext

\* All that have entries are to be tagged.
LEMMA PointAtRouterShown ==
  ASSUME ShownSound, PointAtRouter
  PROVE  ShownNext
<1>1. /\ rewrite.at = "config" /\ rewrite.at \in Configuring
      /\ rewrite'.at = "sync" /\ rewrite'.entries = threadReceipt.entries
      /\ rewrite'.todo = Recorded(threadReceipt.entries) /\ rewrite'.again = FALSE
      /\ rewrite'.found = rewrite.found /\ rewrite'.previous = rewrite.previous
  BY PointAtRouterDoes DEF ShownSound, Configuring, FoundStays
<1>2. /\ transcript' = transcript /\ indexRow' = indexRow /\ owed' = owed
      /\ threadReceipt' = threadReceipt
  BY PointAtRouterDoes DEF ShownSound, SameThreads, SameReceipt
<1>3. CarriedInv'
  BY <1>1, <1>2 DEF CarriedInv, PassInv, Passes, ToRouter, Restoring
<1>4. ASSUME NEW u \in Threads PROVE ShownInv(u)'
  BY <1>1, <1>2, ShownThread
     DEF ShownInv, FoundFollows, Agree, EntryFollows, TagFollows, RowFollows, EntryThere, Exists,
         Chosen, Recorded
<1>5. QED BY <1>3, <1>4, Zenon DEF ShownNext

\* A step of a configure fails.
LEMMA FailConfigureShown ==
  ASSUME ShownSound, FailConfigure
  PROVE  ShownNext
<1>1. /\ rewrite.at \in {"receipt", "config", "sync"} /\ rewrite'.at = "undo"
      /\ rewrite'.entries = rewrite.found /\ rewrite'.found = rewrite.found
      /\ rewrite'.again = FALSE /\ SameThreads /\ SameReceipt /\ FoundStays
  BY FailConfigureDoes DEF ShownSound, FoundStays, SameFiles
<1>2. CarriedInv'
  BY <1>1 DEF CarriedInv, PassInv, Passes, ToRouter, Restoring
<1>3. \A u \in Threads : ShownInv(u)'
  BY <1>1, ShownBetween DEF Configuring
<1>4. QED BY <1>2, <1>3, Zenon DEF ShownNext

\* A rollback fails, or goes on to config.toml and the receipt.
LEMMA UndoGoesOnShown ==
  ASSUME ShownSound, FailUndo \/ UndoConfig
  PROVE  ShownNext
<1>1. /\ rewrite.at \in {"undo", "undoConfig"} /\ rewrite'.at \in {"undoConfig", "undoReceipt"}
      /\ SameThreads /\ SameReceipt /\ FoundStays
  BY FailUndoDoes, UndoConfigDoes DEF ShownSound, SameFiles
<1>2. CarriedInv'
  BY <1>1 DEF CarriedInv, PassInv, Passes, ToRouter, Restoring
<1>3. \A u \in Threads : ShownInv(u)'
  BY <1>1, ShownBetween DEF Configuring
<1>4. QED BY <1>2, <1>3, Zenon DEF ShownNext

\* The rows of the entries follow their transcripts.
LEMMA SyncRowsShown ==
  ASSUME ShownSound, SyncRows
  PROVE  ShownNext
<1>1. /\ rewrite'.at = "idle" /\ transcript' = transcript /\ owed' = owed
      /\ threadReceipt' = threadReceipt
      /\ rewrite.entries = threadReceipt.entries /\ threadReceipt.entries \in EntryMaps
      /\ indexRow' = RowsToRouter(threadReceipt.entries)
  BY SyncRowsDoes, ReceiptParts
     DEF ShownSound, SameReceipt, CarriedInv, PassInv, Restoring, RewriteTypes
<1>2. CarriedInv'
  BY <1>1 DEF CarriedInv, PassInv, Passes, ToRouter, Restoring
<1>3. ASSUME NEW u \in Threads PROVE ShownInv(u)'
  <2>1. \/ indexRow'[u] = indexRow[u]
        \/ /\ indexRow'[u] = "router" /\ indexRow[u] # "none"
           /\ \/ /\ threadReceipt.entries[u].row # "none"
                 /\ indexRow[u] = threadReceipt.entries[u].row
              \/ /\ threadReceipt.entries[u].row = "none"
                 /\ indexRow[u] = threadReceipt.entries[u].tag
    BY <1>1, RowsWritten DEF ShownSound, RewriteTypes
  <2>2. QED
    BY <1>1, <2>1, ShownThread
       DEF ShownInv, EntryFollows, TagFollows, RowFollows, RowSays, EntryThere, Exists, Chosen,
           Configuring
<1>4. QED BY <1>2, <1>3, Zenon DEF ShownNext

\* The rows this configure has found are back.
LEMMA UndoRowsShown ==
  ASSUME ShownSound, UndoRows
  PROVE  ShownNext
<1>1. /\ rewrite.at = "undo" /\ rewrite.at \in Configuring /\ rewrite'.at = "undoConfig"
      /\ rewrite'.found = rewrite.found /\ rewrite'.previous = rewrite.previous
      /\ transcript' = transcript /\ owed' = owed /\ threadReceipt' = threadReceipt
      /\ indexRow' = RowsRestored(rewrite.found)
  BY UndoRowsDoes
     DEF ShownSound, SameReceipt, FoundStays, CarriedInv, PassInv, Configuring
<1>2. CarriedInv'
  BY <1>1 DEF CarriedInv, PassInv, Passes, ToRouter, Restoring
<1>3. ASSUME NEW u \in Threads PROVE ShownInv(u)'
  <2>1. \/ /\ indexRow[u] = "router" /\ rewrite.found[u].row # "none"
           /\ indexRow'[u] = rewrite.found[u].row
        \/ indexRow'[u] = indexRow[u]
    BY <1>1, RowsWritten, ShownFound DEF ShownSound, RewriteTypes
  <2>2. EntryFollows(u, threadReceipt.entries[u])' /\ EntryFollows(u, rewrite.previous.entries[u])'
    BY <1>1, <2>1, ShownThread, ShownFound
       DEF ShownInv, FoundFollows, Agree, EntryFollows, TagFollows, RowFollows, RowSays,
           EntryThere, Exists, Chosen
  <2>3. /\ FoundFollows(u, rewrite.found[u], rewrite.previous.entries[u])'
        /\ Agree(u, rewrite.found[u], rewrite.previous.entries[u])'
        /\ Agree(u, rewrite.found[u], threadReceipt.entries[u])'
    BY <1>1, <2>1, ShownThread, ShownFound
       DEF ShownInv, FoundFollows, Agree, TagFollows, RowFollows, RowSays, EntryThere, Exists,
           Chosen
  <2>4. QED BY <1>1, <2>2, <2>3 DEF ShownInv
<1>4. QED BY <1>2, <1>3, Zenon DEF ShownNext

\* The receipt of before is back.
LEMMA UndoReceiptShown ==
  ASSUME ShownSound, UndoReceipt
  PROVE  ShownNext
<1>1. /\ rewrite.at = "undoReceipt" /\ rewrite'.at = "idle" /\ transcript' = transcript
      /\ indexRow' = indexRow /\ owed' = owed /\ threadReceipt' = rewrite.previous
  BY UndoReceiptDoes DEF ShownSound, SameThreads
<1>2. CarriedInv'
  BY <1>1 DEF CarriedInv, PassInv, Passes, ToRouter, Restoring
<1>3. ASSUME NEW u \in Threads PROVE ShownInv(u)'
  BY <1>1, ShownThread
     DEF ShownInv, EntryFollows, TagFollows, RowFollows, EntryThere, Exists, Chosen, Configuring
<1>4. QED BY <1>2, <1>3, Zenon DEF ShownNext

\* An unconfigure begins, or tags the threads for Router again.
LEMMA RestoreGoesOnShown ==
  ASSUME ShownSound, BeginRestore \/ FailRestore
  PROVE  ShownNext
<1>1. /\ rewrite'.at \in {"restore", "redo"} /\ rewrite'.entries = threadReceipt.entries
      /\ rewrite'.again = FALSE /\ SameThreads /\ SameReceipt
  BY BeginRestoreDoes, FailRestoreDoes DEF ShownSound, SameFiles, CarriedInv, Restoring
<1>2. CarriedInv'
  BY <1>1 DEF CarriedInv, PassInv, Passes, ToRouter, Restoring, SameReceipt
<1>3. \A u \in Threads : ShownInv(u)'
  BY <1>1, ShownBetween
<1>4. QED BY <1>2, <1>3, Zenon DEF ShownNext

\* A run ends early.
LEMMA EndsShown ==
  ASSUME ShownSound, FailRedo \/ FailReclaim \/ KillRewrite
  PROVE  ShownNext
<1>1. rewrite'.at = "idle" /\ SameThreads /\ SameReceipt
  BY EndsDo DEF ShownSound, SameFiles
<1>2. CarriedInv'
  BY <1>1 DEF CarriedInv, PassInv, Passes, ToRouter, Restoring
<1>3. \A u \in Threads : ShownInv(u)'
  BY <1>1, ShownBetween
<1>4. QED BY <1>2, <1>3, Zenon DEF ShownNext

\* The rows of the receipt are back.
LEMMA RestoreRowsShown ==
  ASSUME ShownSound, RestoreRows
  PROVE  ShownNext
<1>1. /\ rewrite.at = "restore" /\ rewrite'.at = "own" /\ rewrite'.entries = rewrite.entries
      /\ rewrite.entries = threadReceipt.entries /\ transcript' = transcript /\ owed' = owed
      /\ threadReceipt' = threadReceipt /\ threadReceipt.entries \in EntryMaps
      /\ indexRow' = RowsRestored(threadReceipt.entries)
  BY RestoreRowsDoes, ReceiptParts DEF ShownSound, SameReceipt, CarriedInv, Restoring, RewriteTypes
<1>2. CarriedInv'
  BY <1>1 DEF CarriedInv, PassInv, Passes, ToRouter, Restoring
<1>3. ASSUME NEW u \in Threads PROVE ShownInv(u)'
  <2>1. \/ /\ indexRow[u] = "router" /\ threadReceipt.entries[u].row # "none"
           /\ indexRow'[u] = threadReceipt.entries[u].row
        \/ /\ ~(indexRow[u] = "router" /\ threadReceipt.entries[u].row # "none")
           /\ indexRow'[u] = indexRow[u]
    BY <1>1, RowsWritten DEF ShownSound, RewriteTypes
  <2>2. QED
    BY <1>1, <2>1, ShownThread
       DEF ShownInv, EntryFollows, TagFollows, RowFollows, RowSays, EntryThere, Exists, Chosen,
           Configuring
<1>4. QED BY <1>2, <1>3, Zenon DEF ShownNext

\* The restored provider is active.
LEMMA PointAtOwnShown ==
  ASSUME ShownSound, PointAtOwn
  PROVE  ShownNext
<1>1. /\ rewrite.at = "own" /\ rewrite'.at = "reclaim" /\ rewrite'.entries = rewrite.entries
      /\ transcript' = transcript /\ indexRow' = indexRow /\ owed' = owed
      /\ threadReceipt' = threadReceipt
  BY PointAtOwnDoes DEF ShownSound, SameThreads, SameReceipt
<1>2. CarriedInv'
  BY <1>1 DEF ShownSound, CarriedInv, PassInv, Passes, ToRouter, Restoring
<1>3. ASSUME NEW u \in Threads PROVE ShownInv(u)'
  BY <1>1, ShownThread
     DEF ShownInv, EntryFollows, TagFollows, RowFollows, EntryThere, Exists, Chosen, Configuring
<1>4. QED BY <1>2, <1>3, Zenon DEF ShownNext

\* A thread without a transcript's entry is reclaimed.
LEMMA ReclaimShown ==
  ASSUME ShownSound, NEW t \in Threads, Reclaim(t)
  PROVE  ShownNext
<1>1. /\ rewrite.at = "reclaim" /\ rewrite'.at = "reclaim" /\ rewrite'.entries = rewrite.entries
      /\ indexRow' = indexRow /\ owed' = owed /\ threadReceipt' = threadReceipt
      /\ \A u \in Threads \ {t} : transcript'[u] = transcript[u]
  BY ReclaimDoes DEF ShownSound, SameReceipt
<1>2. /\ rewrite.entries[t].row = threadReceipt.entries[t].row
      /\ \/ transcript'[t] = transcript[t]
         \/ /\ threadReceipt.entries[t].tag = "none"
            /\ transcript'[t] = IF rewrite.entries[t].row = "none" THEN "own"
                                ELSE rewrite.entries[t].row
  BY ReclaimDoes DEF ShownSound, CarriedInv, Restoring, Protected
<1>3. CarriedInv'
  BY <1>1 DEF ShownSound, CarriedInv, PassInv, Passes, ToRouter, Restoring
<1>4. ASSUME NEW u \in Threads PROVE ShownInv(u)'
  <2>1. CASE u = t
    BY <1>1, <1>2, <2>1, ShownThread
       DEF ShownInv, EntryFollows, TagFollows, RowFollows, EntryThere, Exists, Chosen, Configuring
  <2>2. CASE u # t
    BY <1>1, <2>2, ShownThread
       DEF ShownInv, EntryFollows, TagFollows, RowFollows, EntryThere, Exists, Chosen, Configuring
  <2>3. QED BY <2>1, <2>2
<1>5. QED BY <1>3, <1>4, Zenon DEF ShownNext

\* So are the rows.
LEMMA ReclaimRowsShown ==
  ASSUME ShownSound, ReclaimRows
  PROVE  ShownNext
<1>1. /\ rewrite.at = "reclaim" /\ rewrite'.at = "remove" /\ rewrite'.entries = rewrite.entries
      /\ transcript' = transcript /\ owed' = owed /\ threadReceipt' = threadReceipt
  BY ReclaimRowsDoes DEF ShownSound, SameReceipt
<1>2. CarriedInv'
  BY <1>1 DEF ShownSound, CarriedInv, PassInv, Passes, ToRouter, Restoring
<1>3. ASSUME NEW u \in Threads PROVE ShownInv(u)'
  <2>1. \/ indexRow'[u] = indexRow[u]
        \/ /\ indexRow[u] = "router" /\ threadReceipt.entries[u].tag = "none"
           /\ indexRow'[u] = "own"
    BY ReclaimRowsDoes DEF ShownSound, Protected
  <2>2. QED
    BY <1>1, <2>1, ShownThread
       DEF ShownInv, EntryFollows, TagFollows, RowFollows, RowSays, EntryThere, Exists, Chosen,
           Configuring
<1>4. QED BY <1>2, <1>3, Zenon DEF ShownNext

\* The receipt is gone.
LEMMA RemoveReceiptShown ==
  ASSUME ShownSound, RemoveReceipt
  PROVE  ShownNext
<1>1. rewrite'.at = "idle" /\ \A u \in Threads : threadReceipt'.entries[u] = NoEntry
  BY RemoveReceiptDoes, ReceiptParts DEF ShownSound
<1>2. CarriedInv'
  BY <1>1 DEF CarriedInv, PassInv, Passes, ToRouter, Restoring
<1>3. ASSUME NEW u \in Threads PROVE ShownInv(u)'
  BY <1>1, EntriesSay DEF ShownInv, EntryFollows, TagFollows, RowFollows, EntryThere, Configuring
<1>4. QED BY <1>2, <1>3, Zenon DEF ShownNext

\* A pass comes to a thread.
LEMMA VisitShown ==
  ASSUME ShownSound, NEW t \in Threads, Visit(t)
  PROVE  ShownNext
<1> DEFINE tag == rewrite.entries[t].tag
<1>1. /\ rewrite.at \in {"sync", "redo", "restore", "undo"}
      /\ rewrite.at # "undo" => rewrite.entries = threadReceipt.entries
      /\ rewrite.at = "undo" => rewrite.entries = rewrite.found
  BY VisitDoes DEF ShownSound, CarriedInv, PassInv, Restoring
<1>2. /\ rewrite'.at = rewrite.at /\ rewrite'.entries = rewrite.entries
      /\ rewrite'.todo = rewrite.todo \ {t}
      /\ rewrite'.missed \in {rewrite.missed, rewrite.missed \cup {t}}
      /\ t \notin rewrite'.missed => tag = "none" \/ Found(t)
      /\ rewrite'.missed = rewrite.missed \/ ~Found(t)
      /\ rewrite'.again = rewrite.again
      /\ rewrite'.names \in {Names, rewrite.names}
  BY VisitDoes, Zenon DEF ShownSound
<1>3. /\ indexRow' = indexRow /\ place' = place /\ threadReceipt' = threadReceipt /\ owed' = owed
  BY VisitDoes DEF ShownSound, SameReceipt
<1>4. rewrite.at \in {"sync", "undo"} => /\ rewrite'.found = rewrite.found
                                         /\ rewrite'.previous = rewrite.previous
  BY VisitDoes DEF ShownSound, FoundStays
<1>5. rewrite.again => rewrite'.names = place /\ rewrite'.missed = {}
  <2>1. SUFFICES ASSUME rewrite.again PROVE rewrite'.names = place /\ rewrite'.missed = {}
    OBVIOUS
  <2>2. rewrite.names = place /\ rewrite.missed = {}
    BY <1>1, <2>1 DEF ShownSound, CarriedInv, PassInv, Passes, ToRouter
  <2>3. Found(t) /\ Names = place
    BY <2>2 DEF Found, Names
  <2>4. rewrite'.missed = rewrite.missed
    BY <1>2, <2>3
  <2>5. QED BY <1>2, <2>2, <2>3, <2>4
<1>6. CarriedInv'
  BY <1>1, <1>2, <1>3, <1>4, <1>5 DEF CarriedInv, PassInv, Passes, ToRouter, Restoring
<1>7. \A u \in Threads \ {t} : transcript'[u] = transcript[u]
  BY VisitDoes DEF ShownSound
<1>8. \/ transcript'[t] = transcript[t] /\ (tag = "none" \/ ~Found(t))
      \/ /\ tag # "none" /\ rewrite.at \in {"sync", "redo"}
         /\ transcript'[t] = IF transcript[t] = tag THEN "router" ELSE transcript[t]
      \/ /\ tag # "none" /\ rewrite.at \in {"restore", "undo"}
         /\ transcript'[t] = IF transcript[t] = "router" THEN tag ELSE transcript[t]
  BY VisitDoes, Zenon DEF ShownSound
<1>9. ASSUME NEW u \in Threads PROVE ShownInv(u)'
  <2>1. CASE u # t
    BY <1>1, <1>2, <1>3, <1>4, <1>7, <2>1, ShownThread
       DEF ShownInv, FoundFollows, Agree, EntryFollows, TagFollows, RowFollows, EntryThere, Exists,
           Chosen, Configuring
  <2>2. CASE u = t
    <3>1. CASE rewrite.at \in {"sync", "redo", "restore"}
      <4>1. tag = threadReceipt.entries[t].tag
        BY <1>1, <3>1
      <4>2. EntryFollows(t, threadReceipt.entries[t])'
        BY <1>3, <1>8, <4>1, ShownThread
           DEF ShownInv, EntryFollows, TagFollows, RowFollows, EntryThere, Exists, Chosen
      <4>3. rewrite.at = "sync" =>
              /\ EntryFollows(t, rewrite.previous.entries[t])'
              /\ FoundFollows(t, rewrite.found[t], rewrite.previous.entries[t])'
              /\ Agree(t, rewrite.found[t], rewrite.previous.entries[t])'
              /\ Agree(t, rewrite.found[t], threadReceipt.entries[t])'
        <5>1. SUFFICES ASSUME rewrite.at = "sync"
                       PROVE  /\ EntryFollows(t, rewrite.previous.entries[t])'
                              /\ FoundFollows(t, rewrite.found[t], rewrite.previous.entries[t])'
                              /\ Agree(t, rewrite.found[t], rewrite.previous.entries[t])'
                              /\ Agree(t, rewrite.found[t], threadReceipt.entries[t])'
          OBVIOUS
        <5>2. transcript'[t] \in {transcript[t], "router"} /\ Exists(t)' = Exists(t)
          BY <1>3, <1>8, <5>1, ShownThread DEF Exists
        <5>3. transcript'[t] # transcript[t] => transcript'[t] = "router"
          BY <5>2
        <5>4. QED
          BY <1>2, <1>3, <1>4, <5>1, <5>2, ShownThread
             DEF ShownInv, FoundFollows, Agree, EntryFollows, TagFollows, RowFollows, EntryThere,
                 Chosen, Configuring
      <4>4. rewrite.at = "sync" /\ threadReceipt.entries[t].tag # "none" =>
              t \in rewrite'.todo \/ t \in rewrite'.missed \/ transcript'[t] = "router" \/ Chosen(t)
        BY <1>2, <1>8, <4>1, ShownThread DEF ShownInv, EntryFollows, TagFollows
      <4>5. QED BY <1>1, <1>2, <1>3, <2>2, <3>1, <4>2, <4>3, <4>4 DEF ShownInv, Chosen, Configuring
    <3>2. CASE rewrite.at = "undo"
      <4>1. tag = rewrite.found[t].tag /\ rewrite.at \in Configuring
        BY <1>1, <3>2 DEF Configuring
      <4>2. /\ EntryFollows(t, threadReceipt.entries[t])'
            /\ EntryFollows(t, rewrite.previous.entries[t])'
        BY <1>3, <1>4, <1>8, <3>2, <4>1, ShownThread
           DEF ShownInv, Agree, EntryFollows, TagFollows, RowFollows, EntryThere, Exists, Chosen
      <4>3. /\ FoundFollows(t, rewrite.found[t], rewrite.previous.entries[t])'
            /\ Agree(t, rewrite.found[t], rewrite.previous.entries[t])'
            /\ Agree(t, rewrite.found[t], threadReceipt.entries[t])'
        BY <1>2, <1>3, <1>4, <1>8, <3>2, <4>1, ShownThread
           DEF ShownInv, FoundFollows, Agree, TagFollows, RowFollows, EntryThere, Exists, Chosen
      <4>4. QED BY <1>2, <2>2, <3>2, <4>2, <4>3 DEF ShownInv
    <3>3. QED BY <1>1, <3>1, <3>2
  <2>3. QED BY <2>1, <2>2
<1>10. QED BY <1>6, <1>9, Zenon DEF ShownNext

\* The next look is for those that were missed.
LEMMA LookAgainShown ==
  ASSUME ShownSound, LookAgain
  PROVE  ShownNext
<1>1. /\ rewrite.at \in {"sync", "redo", "restore", "undo"} /\ rewrite.todo = {}
      /\ rewrite'.at = rewrite.at /\ rewrite'.entries = rewrite.entries
      /\ rewrite'.todo = rewrite.missed /\ rewrite'.missed = {} /\ rewrite'.names = place
      /\ place' = place
      /\ rewrite.at \in {"sync", "undo"} => /\ rewrite'.found = rewrite.found
                                            /\ rewrite'.previous = rewrite.previous
  BY LookAgainDoes DEF ShownSound, FoundStays
<1>2. /\ transcript' = transcript /\ indexRow' = indexRow /\ owed' = owed
      /\ threadReceipt' = threadReceipt
  BY LookAgainDoes DEF ShownSound, SameFiles, SameThreads, SameReceipt
<1>3. CarriedInv'
  BY <1>1, <1>2 DEF ShownSound, CarriedInv, PassInv, Passes, ToRouter, Restoring
<1>4. ASSUME NEW u \in Threads PROVE ShownInv(u)'
  BY <1>1, <1>2, ShownThread
     DEF ShownInv, FoundFollows, Agree, EntryFollows, TagFollows, RowFollows, EntryThere, Exists,
         Chosen, Configuring
<1>5. QED BY <1>3, <1>4, Zenon DEF ShownNext

\* A thread that begins has no entry.
LEMMA StartThreadShown ==
  ASSUME ShownSound, NEW t \in Threads, StartThread(t)
  PROVE  ShownNext
<1>1. /\ ~Exists(t) /\ rewrite' = rewrite /\ place' = place /\ threadReceipt' = threadReceipt
      /\ \A u \in Threads \ {t} : /\ transcript'[u] = transcript[u]
                                  /\ indexRow'[u] = indexRow[u] /\ owed'[u] = owed[u]
  BY StartThreadDoes DEF ShownSound, SameReceipt
<1>2. CarriedInv'
  BY <1>1 DEF ShownSound, CarriedInv, PassInv
<1>3. ASSUME NEW u \in Threads PROVE ShownInv(u)'
  <2>1. CASE u = t
    <3>1. threadReceipt.entries[t] = NoEntry
      BY <1>1, ShownThread DEF ShownInv, EntryFollows, EntryThere
    <3>2. rewrite.at \in Configuring => rewrite.found[t] = NoEntry
                                        /\ rewrite.previous.entries[t] = NoEntry
      BY <1>1, ShownThread DEF ShownInv, EntryFollows, FoundFollows, EntryThere
    <3>3. QED
      BY <1>1, <2>1, <3>1, <3>2, EntriesSay
         DEF ShownInv, FoundFollows, Agree, EntryFollows, TagFollows, RowFollows, EntryThere
  <2>2. CASE u # t
    BY <1>1, <2>2, ShownThread
       DEF ShownInv, FoundFollows, Agree, EntryFollows, TagFollows, RowFollows, EntryThere, Exists,
           Chosen
  <2>3. QED BY <2>1, <2>2
<1>4. QED BY <1>2, <1>3, Zenon DEF ShownNext

\* A choice of the user's.
LEMMA ChooseProviderShown ==
  ASSUME ShownSound, NEW t \in Threads, ChooseProvider(t)
  PROVE  ShownNext
<1>1. /\ rewrite' = rewrite /\ place' = place /\ threadReceipt' = threadReceipt
      /\ transcript'[t] = "other" /\ owed'[t].tag = "other"
      /\ \A u \in Threads \ {t} : /\ transcript'[u] = transcript[u]
                                  /\ indexRow'[u] = indexRow[u] /\ owed'[u] = owed[u]
  BY ChooseProviderDoes DEF ShownSound, SameReceipt
<1>2. CarriedInv'
  BY <1>1 DEF ShownSound, CarriedInv, PassInv
<1>3. ASSUME NEW u \in Threads PROVE ShownInv(u)'
  <2>1. CASE u = t
    BY <1>1, <2>1, ShownThread
       DEF ShownInv, FoundFollows, Agree, EntryFollows, TagFollows, RowFollows, EntryThere, Exists,
           Chosen
  <2>2. CASE u # t
    BY <1>1, <2>2, ShownThread
       DEF ShownInv, FoundFollows, Agree, EntryFollows, TagFollows, RowFollows, EntryThere, Exists,
           Chosen
  <2>3. QED BY <2>1, <2>2
<1>4. QED BY <1>2, <1>3, Zenon DEF ShownNext

\* Nothing is archived during a second look.
LEMMA StandsShown ==
  ASSUME ShownSound, rewrite' = rewrite, SameThreads, SameReceipt,
         rewrite.at \in Passes /\ rewrite.again => place' = place
  PROVE  ShownNext
<1>1. /\ transcript' = transcript /\ indexRow' = indexRow /\ owed' = owed
      /\ threadReceipt' = threadReceipt
  BY DEF SameThreads, SameReceipt
<1>2. CarriedInv'
  BY <1>1 DEF ShownSound, CarriedInv, PassInv
<1>3. ASSUME NEW u \in Threads PROVE ShownInv(u)'
  BY <1>1, ShownThread
     DEF ShownInv, FoundFollows, Agree, EntryFollows, TagFollows, RowFollows, EntryThere, Exists,
         Chosen
<1>4. QED BY <1>2, <1>3, Zenon DEF ShownNext

\* Threads show when no setup has been made.
LEMMA ShownBegins ==
  ASSUME ThreadsInit
  PROVE  ShownSound
<1>1. RewriteTypes
  BY RewriteBegins DEF RewriteInv
<1>2. rewrite.at = "idle"
  BY <1>1, RewriteStages DEF ThreadsInit
<1>3. CarriedInv
  BY <1>2 DEF CarriedInv, PassInv, Passes, ToRouter, Restoring
<1>4. ASSUME NEW t \in Threads PROVE ShownInv(t)
  <2>1. threadReceipt.entries[t] = NoEntry
    BY ReceiptParts DEF ThreadsInit
  <2>2. QED BY <1>2, <2>1, EntriesSay
            DEF ShownInv, EntryFollows, TagFollows, RowFollows, EntryThere, Configuring
<1>5. QED BY <1>1, <1>3, <1>4, Zenon DEF ShownSound

\* Every step keeps entries and threads together.
LEMMA ShownKept ==
  ASSUME ShownSound, [ThreadsNext]_threadVars, [Undisturbed]_threadVars
  PROVE  ShownSound'
<1>1. CASE UNCHANGED threadVars
  <2>1. rewrite' = rewrite /\ SameThreads /\ SameReceipt /\ place' = place
    BY <1>1, NothingDoes, Zenon DEF SameFiles
  <2>2. ShownNext
    BY <2>1, StandsShown, Zenon
  <2>3. RewriteTypes'
    <3>1. /\ transcript' = transcript /\ indexRow' = indexRow /\ activeProvider' = activeProvider
          /\ threadReceipt' = threadReceipt /\ owed' = owed /\ halfway' = halfway
          /\ place' = place /\ rewrite' = rewrite
      BY <1>1 DEF threadVars, files, history
    <3>2. QED BY <3>1 DEF ShownSound, RewriteTypes
  <2>4. QED BY <2>2, <2>3, Zenon DEF ShownSound, ShownNext
<1>2. CASE ThreadsNext
  <2>1. RewriteTypes'
    BY <1>2, RewriteTypesKept DEF ShownSound
  <2>2. SUFFICES ShownNext
    BY <2>1, Zenon DEF ShownSound, ShownNext
  <2>3. ASSUME NEW t \in Threads, Archive(t) PROVE ShownNext
    <3>1. threadVars' # threadVars
      BY <2>3 DEF Archive, threadVars, files, ShownSound, RewriteTypes
    <3>2. Undisturbed
      BY <3>1, Zenon
    <3>3. rewrite' = rewrite /\ SameThreads /\ SameReceipt
      BY <2>3, ArchiveDoes, Zenon DEF ShownSound, SameFiles
    <3>4. QED BY <3>2, <3>3, StandsShown, Zenon DEF Undisturbed
  <2>4. QED
    BY <1>2, <2>3, ConfigureShown, ReadIndexShown, SaveReceiptShown, PointAtRouterShown,
       FailConfigureShown, UndoGoesOnShown, SyncRowsShown, UndoRowsShown, UndoReceiptShown,
       RestoreGoesOnShown, RestoreRowsShown, EndsShown, PointAtOwnShown, ReclaimShown,
       ReclaimRowsShown, RemoveReceiptShown, VisitShown, LookAgainShown, StartThreadShown,
       ChooseProviderShown, Zenon
       DEF ThreadsNext
<1>3. QED BY <1>1, <1>2, Zenon

\* A configure that ends has put every thread whose transcript it knows on Router, and
\* one that is undone over an earlier setup leaves that setup's threads there, for any
\* threads, faults and kills, and after an unconfigure that failed half way or a rollback
\* that failed, if nothing is archived during a second look.
THEOREM ThreadsAreShownHolds == ThreadsSpec /\ [][Undisturbed]_threadVars => ThreadsAreShown
<1> DEFINE A == /\ rewrite.at = "sync" /\ SyncRows =>
                     \A t \in Threads : threadReceipt.entries[t].tag # "none" => Shown(t)
                /\ UndoReceipt /\ rewrite.previous.written /\ ~spoiled =>
                     \A t \in Threads : rewrite.previous.entries[t].tag # "none"
                                          /\ rewrite.found[t] = NoEntry => Shown(t)
<1>1. ThreadsInit => ShownSound
  BY ShownBegins
<1>2. ShownSound /\ [ThreadsNext]_threadVars /\ [Undisturbed]_threadVars => ShownSound'
  BY ShownKept
<1>3. ASSUME ShownSound PROVE A
  <2>1. ASSUME rewrite.at = "sync", SyncRows, NEW t \in Threads,
               threadReceipt.entries[t].tag # "none"
        PROVE  Shown(t)
    <3>1. /\ rewrite.entries = threadReceipt.entries /\ transcript' = transcript
          /\ indexRow' = RowsToRouter(threadReceipt.entries)
          /\ rewrite.todo = {} /\ rewrite.missed = {}
      BY <1>3, <2>1, SyncRowsDoes
         DEF ShownSound, CarriedInv, PassInv, PassDone, Passes, ToRouter
    <3>2. transcript[t] = "router" \/ Chosen(t)
      BY <1>3, <2>1, <3>1, ShownThread DEF ShownInv
    <3>3. \/ Chosen(t)
          \/ threadReceipt.entries[t].row = "none" /\ indexRow[t] = "none"
          \/ /\ threadReceipt.entries[t].row # "none"
             /\ indexRow[t] \in {threadReceipt.entries[t].row, "router"}
      BY <1>3, <2>1, ShownThread DEF ShownInv, EntryFollows, RowFollows, RowSays
    <3>4. indexRow'[t] \in {"router", "none"} \/ Chosen(t)
      BY <2>1, <3>1, <3>3 DEF RowsToRouter
    <3>5. QED BY <3>1, <3>2, <3>4 DEF Shown, Chosen
  <2>2. ASSUME UndoReceipt, NEW t \in Threads, rewrite.previous.entries[t].tag # "none",
               rewrite.found[t] = NoEntry
        PROVE  Shown(t)
    <3>1. rewrite.at = "undoReceipt" /\ transcript' = transcript /\ indexRow' = indexRow
      BY <1>3, <2>2, UndoReceiptDoes DEF ShownSound, SameThreads
    <3>2. Chosen(t) \/ {transcript[t], indexRow[t]} \subseteq {"router", "none"}
      BY <1>3, <2>2, <3>1, ShownThread DEF ShownInv, FoundFollows, Configuring
    <3>3. QED BY <3>1, <3>2 DEF Shown, Chosen
  <2>3. QED BY <2>1, <2>2, Zenon
<1>4. QED BY <1>1, <1>2, <1>3, PTL DEF ThreadsSpec, ThreadsAreShown

-----------------------------------------------------------------------------
(* Claude Code: who has a key.                                              *)

\* The parts of a receipt.
ReceiptHas(r) ==
  /\ r = [set |-> TRUE, was |-> r.was, claims |-> r.claims, bar |-> r.bar, hook |-> r.hook,
          workspace |-> r.workspace]
  /\ r.was = [k \in ClaimedKeys |-> r.was[k]] /\ r.claims = [k \in ClaimedKeys |-> r.claims[k]]
  /\ r.claims.gateway \in Connections /\ r.claims.apiKey = "absent"
  /\ r.claims.cap \in {"ours", Unclaimed} /\ r.claims.model \in RouterModels
  /\ r.claims.tier \in {"absent", Unclaimed} \cup RouterModels
  /\ r.bar \in {"none", "absent"}
  /\ r.workspace = NoDefault \/ r.workspace.default \in RouterModels

\* A key that is not Router's is as the user has it; one that is holds Router's value
\* over what the user had, or the user's own, or one that a kill has made nobody's.
Followed(k) ==
  /\ ~Claimed(setup, k) => claude[k] = ComesBack(k)
  /\ Claimed(setup, k) =>
       /\ setup.was[k] = origin[k]
       /\ IF StillOurs(k) THEN ComesBack(k) = origin[k]
          ELSE claude[k] = ComesBack(k) \/ k \in torn \cap {"gateway", "tier"}

\* It is so unless a removal has left Router's value there.
KeyInv(k) ==
  /\ yours[k] \in Native[k] /\ origin[k] \in Native[k]
  /\ k \in stranded \cap {"gateway", "tier"} \/ Followed(k)

\* The status line is Router's over an empty place, or the user's.
BarInv ==
  /\ yours.bar \in Native.bar
  /\ IF claude.bar = "ours" THEN setup.set /\ setup.bar = "absent" /\ yours.bar = "absent"
     ELSE claude.bar = yours.bar

\* Router's hook is one that the receipt knows of, or that a kill has made nobody's.
HooksInv ==
  "ours" \in hooks => \/ setup.set /\ (setup.hook = "ours" \/ "hooks" \in torn)
                      \/ "hooks" \in stranded

OfKeys(s) == s = [k \in Keys |-> s[k]]

OwnersInv ==
  /\ OfKeys(claude) /\ OfKeys(yours) /\ OfKeys(origin) /\ replaced \subseteq ClaimedKeys
  /\ setup = NoClaudeSetup \/ ReceiptHas(setup)
  /\ \A k \in ClaimedKeys : KeyInv(k)
  /\ BarInv /\ HooksInv
RefreshInv == refresh.at \in {"everything", "model"} => refresh.of \in Connections

USE ModelsAssumption, NamesAssumption

\* What the user may have is nothing of Router's.
LEMMA NativeNames ==
  /\ \A k \in Keys : Native[k] \cap ({"ours", Unclaimed} \cup Connections \cup RouterModels) = {}
  /\ Native["bar"] = {"absent", "mine"}
  /\ Unclaimed \notin Connections \cup RouterModels \cup {"absent", "ours"}
  /\ "absent" \notin Connections \cup RouterModels /\ "ours" \notin Connections \cup RouterModels
  /\ ClaimedKeys \subseteq Keys /\ Keys = ClaimedKeys \cup {"bar"} /\ "bar" \notin ClaimedKeys
  /\ ClaimedKeys = {"gateway", "apiKey", "cap", "tier", "model"}
<1>1. ClaimedKeys = {"gateway", "apiKey", "cap", "tier", "model"}
      /\ Keys = ClaimedKeys \cup {"bar"}
  BY DEF Keys, ClaimedKeys, Env
<1>2. /\ Native["gateway"] = {"absent", "theirs"} /\ Native["apiKey"] = {"absent", "sk"}
      /\ Native["cap"] = {"absent", "tight", "wide"} /\ Native["tier"] = {"absent", "mine"}
      /\ Native["model"] = {"absent", "native"} /\ Native["bar"] = {"absent", "mine"}
  BY DEF Native
<1>3. \A k \in Keys : Native[k] \cap (Connections \cup RouterModels) = {}
  OBVIOUS
<1>4. \A k \in Keys : "ours" \notin Native[k] /\ Unclaimed \notin Native[k]
  BY <1>1, <1>2 DEF Unclaimed
<1>5. /\ Unclaimed \notin Connections \cup RouterModels
      /\ "ours" \notin Connections \cup RouterModels /\ Unclaimed \notin {"absent", "ours"}
  <2>1. ASSUME NEW x \in Connections \cup RouterModels PROVE x # "ours" /\ x # Unclaimed
    BY <2>1
  <2>2. Unclaimed \notin {"absent", "ours"}
    BY DEF Unclaimed
  <2>3. QED BY <2>1, <2>2
<1>6. "absent" \notin Connections \cup RouterModels
  BY <1>1, <1>2, <1>3
<1>7. QED BY <1>1, <1>2, <1>3, <1>4, <1>5, <1>6

\* A map of keys with one key replaced, or those of a configure.
LEMMA OneKey ==
  ASSUME NEW s, OfKeys(s), NEW x
  PROVE  /\ OfKeys([s EXCEPT !.tier = x]) /\ [s EXCEPT !.tier = x].tier = x
         /\ OfKeys([s EXCEPT !.bar = x]) /\ [s EXCEPT !.bar = x].bar = x
         /\ OfKeys([s EXCEPT !.model = x]) /\ [s EXCEPT !.model = x].model = x
         /\ \A k \in Keys \ {"tier"} : [s EXCEPT !.tier = x][k] = s[k]
         /\ \A k \in Keys \ {"bar"} : [s EXCEPT !.bar = x][k] = s[k]
         /\ \A k \in Keys \ {"model"} : [s EXCEPT !.model = x][k] = s[k]
<1>1. "tier" \in Keys /\ "bar" \in Keys /\ "model" \in Keys
  BY NativeNames
<1>2. ASSUME NEW j \in Keys
      PROVE  /\ OfKeys([s EXCEPT ![j] = x]) /\ [s EXCEPT ![j] = x][j] = x
             /\ \A k \in Keys \ {j} : [s EXCEPT ![j] = x][k] = s[k]
  BY Zenon DEF OfKeys
<1>3. QED BY <1>1, <1>2, Zenon

\* The same of a receipt.
LEMMA OneField ==
  ASSUME NEW s, NEW w, NEW c, NEW b, NEW h, NEW o, NEW x, NEW y, NEW z,
         NEW r, r = [set |-> s, was |-> w, claims |-> c, bar |-> b, hook |-> h, workspace |-> o]
  PROVE  /\ \A q : q = [r EXCEPT !.was = x, !.claims = y, !.bar = z] =>
              q = [set |-> s, was |-> x, claims |-> y,
                   bar |-> z, hook |-> h, workspace |-> o]
         /\ \A q : q = [r EXCEPT !.workspace = x, !.hook = y] =>
              q = [set |-> s, was |-> w, claims |-> c,
                   bar |-> b, hook |-> y, workspace |-> x]
         /\ \A q : q = [r EXCEPT !.bar = x] =>
              q = [set |-> s, was |-> w, claims |-> c,
                   bar |-> x, hook |-> h, workspace |-> o]
         /\ \A q : q = [r EXCEPT !.workspace = x] =>
              q = [set |-> s, was |-> w, claims |-> c,
                   bar |-> b, hook |-> h, workspace |-> x]
         /\ \A q : q = [r EXCEPT !.claims.model = x] =>
              q = [set |-> s, was |-> w, claims |-> [c EXCEPT !.model = x],
                   bar |-> b, hook |-> h, workspace |-> o]
         /\ \A q : q = [r EXCEPT !.claims.model = x, !.workspace = y] =>
              q = [set |-> s, was |-> w, claims |-> [c EXCEPT !.model = x],
                   bar |-> b, hook |-> h, workspace |-> y]
         /\ \A q : q = [r EXCEPT !.was.tier = x, !.claims.tier = y] =>
              q = [set |-> s, was |-> [w EXCEPT !.tier = x], claims |-> [c EXCEPT !.tier = y],
                   bar |-> b, hook |-> h, workspace |-> o]
<1>1. ASSUME NEW q, q = [r EXCEPT !.was = x, !.claims = y, !.bar = z]
      PROVE  q = [set |-> s, was |-> x, claims |-> y,
                  bar |-> z, hook |-> h, workspace |-> o]
  BY <1>1, Zenon
<1>2. ASSUME NEW q, q = [r EXCEPT !.workspace = x, !.hook = y]
      PROVE  q = [set |-> s, was |-> w, claims |-> c,
                  bar |-> b, hook |-> y, workspace |-> x]
  BY <1>2, Zenon
<1>3. ASSUME NEW q, q = [r EXCEPT !.bar = x]
      PROVE  q = [set |-> s, was |-> w, claims |-> c,
                  bar |-> x, hook |-> h, workspace |-> o]
  BY <1>3, Zenon
<1>4. ASSUME NEW q, q = [r EXCEPT !.workspace = x]
      PROVE  q = [set |-> s, was |-> w, claims |-> c,
                  bar |-> b, hook |-> h, workspace |-> x]
  BY <1>4, Zenon
<1>5. ASSUME NEW q, q = [r EXCEPT !.claims.model = x]
      PROVE  q = [set |-> s, was |-> w, claims |-> [c EXCEPT !.model = x],
                  bar |-> b, hook |-> h, workspace |-> o]
  BY <1>5, Zenon
<1>6. ASSUME NEW q, q = [r EXCEPT !.claims.model = x, !.workspace = y]
      PROVE  q = [set |-> s, was |-> w, claims |-> [c EXCEPT !.model = x],
                  bar |-> b, hook |-> h, workspace |-> y]
  BY <1>6, Zenon
<1>7. ASSUME NEW q, q = [r EXCEPT !.was.tier = x, !.claims.tier = y]
      PROVE  q = [set |-> s, was |-> [w EXCEPT !.tier = x], claims |-> [c EXCEPT !.tier = y],
                  bar |-> b, hook |-> h, workspace |-> o]
  BY <1>7, Zenon
<1>8. QED BY <1>1, <1>2, <1>3, <1>4, <1>5, <1>6, <1>7, Zenon

\* A map of claimed keys with one replaced.
LEMMA OneClaim ==
  ASSUME NEW m, m = [k \in ClaimedKeys |-> m[k]], NEW x, NEW j \in ClaimedKeys
  PROVE  /\ [m EXCEPT ![j] = x] = [k \in ClaimedKeys |-> [m EXCEPT ![j] = x][k]]
         /\ [m EXCEPT ![j] = x][j] = x
         /\ \A k \in ClaimedKeys \ {j} : [m EXCEPT ![j] = x][k] = m[k]
BY Zenon
-----------------------------------------------------------------------------
(* Claude Code: what a command does to a key.                               *)

\* It leaves the key, writes one that is Router's, claims one, or lets it go, which
\* the user has changed.
KeyStep(k, s2, r2) ==
  \/ /\ setup.set /\ s2[k] = claude[k]
     /\ r2.claims[k] = setup.claims[k] /\ r2.was[k] = setup.was[k]
  \/ /\ Claimed(setup, k) /\ r2.claims[k] # Unclaimed
     /\ s2[k] = r2.claims[k] /\ r2.was[k] = setup.was[k]
  \/ /\ ~Claimed(setup, k) /\ r2.claims[k] # Unclaimed
     /\ s2[k] = r2.claims[k] /\ r2.was[k] = claude[k]
  \/ /\ k \in {"cap", "tier"} /\ s2[k] = claude[k] /\ r2.claims[k] = Unclaimed
     /\ Claimed(setup, k) => k = "cap" /\ claude[k] # setup.claims[k]

\* The status line: left, hidden, or shown over an empty place that the receipt knows.
BarStep(s2, r2) ==
  /\ \/ s2.bar = claude.bar
     \/ claude.bar = "ours" /\ s2.bar = "absent"
     \/ claude.bar \in {"absent", "ours"} /\ s2.bar = "ours" /\ r2.bar = "absent"
  /\ claude.bar = "ours" => r2.bar = "absent"

\* The hook: Router's is on record, or gives way to one of the user's.
HookStep(h2, r2) ==
  /\ "ours" \in h2 => r2.hook = "ours" \/ "hooks" \in torn \cup stranded
  /\ "ours" \in hooks => \/ r2.hook = "ours" \/ "hooks" \in torn \cup stranded
                         \/ setup.set /\ setup.hook = "ours" /\ r2.hook = "user"

OwnedWrite(s2, h2, r2) ==
  /\ OfKeys(s2) /\ ReceiptHas(r2) /\ BarStep(s2, r2) /\ HookStep(h2, r2)
  /\ \A k \in ClaimedKeys : KeyStep(k, s2, r2)

\* A record has the parts it is made of.
LEMMA RecordParts ==
  ASSUME NEW s, NEW w, NEW c, NEW b, NEW h, NEW o,
         NEW r, r = [set |-> s, was |-> w, claims |-> c, bar |-> b, hook |-> h, workspace |-> o]
  PROVE  r.set = s /\ r.was = w /\ r.claims = c /\ r.bar = b /\ r.hook = h /\ r.workspace = o
BY Zenon

\* A receipt is a setup.
LEMMA ReceiptIsSet == \A r : ReceiptHas(r) => r.set
<1>1. ASSUME NEW r, ReceiptHas(r) PROVE r.set
  <2> DEFINE yes == TRUE
  <2>1. r = [set |-> yes, was |-> r.was, claims |-> r.claims, bar |-> r.bar, hook |-> r.hook,
             workspace |-> r.workspace]
    BY <1>1, Zenon DEF ReceiptHas
  <2> HIDE DEF yes
  <2>2. r.set = yes
    BY ONLY <2>1, RecordParts
  <2>3. QED BY <2>2 DEF yes
<1>2. QED BY <1>1

\* Without a setup nothing is claimed, with one some keys are.
LEMMA SetupKinds ==
  ASSUME OwnersInv
  PROVE  /\ setup.set \in BOOLEAN /\ (setup.set => ReceiptHas(setup))
         /\ \A k \in ClaimedKeys : Claimed(setup, k) <=> setup.set /\ setup.claims[k] # Unclaimed
<1>1. NoClaudeSetup.set = FALSE
  BY DEF NoClaudeSetup
<1>2. CASE setup = NoClaudeSetup
  BY <1>1, <1>2 DEF Claimed
<1>3. CASE ReceiptHas(setup)
  BY <1>3, ReceiptIsSet DEF Claimed
<1>4. QED BY <1>2, <1>3 DEF OwnersInv

\* What a write of the receipt, with the settings s and the hooks h, leaves.
Written(s, h, r2) ==
  /\ setup' = r2 /\ claude' = s /\ hooks' = h /\ stranded' = stranded
  /\ "hooks" \in torn => "hooks" \in torn'
  /\ \A k \in ClaimedKeys :
       s[k] = claude[k] /\ ~StillOurs(k)' /\ (k \in torn \/ (setup.set /\ StillOurs(k))) => k \in torn'
  /\ OfKeys(origin') /\ yours' = yours /\ replaced' \subseteq ClaimedKeys
  /\ \A k \in ClaimedKeys :
       /\ origin'[k] = IF r2.claims[k] # Unclaimed /\ ~Claimed(setup, k) THEN ComesBack(k) ELSE origin[k]
       /\ ComesBack(k)' = IF Claimed(setup, k) /\ r2.claims[k] # Unclaimed
                             /\ claude[k] # setup.claims[k] /\ s[k] = r2.claims[k]
                          THEN origin[k] ELSE ComesBack(k)

\* Both files are written, or the receipt alone.
LEMMA Writes ==
  ASSUME OwnersInv, NEW s2, NEW h2, NEW r2, WriteBoth(s2, h2, r2), ReceiptHas(r2)
  PROVE  \/ Written(s2, h2, r2)
         \/ /\ Written(claude, hooks, r2)
            /\ "ours" \in hooks /\ setup.set /\ setup.hook = "ours" /\ r2.hook = "user"
                 => "hooks" \in torn'
<1>k. ASSUME NEW s, NEW h, Keep(s, r2), setup' = r2, claude' = s, hooks' = h,
             Torn(s, r2) \cup (torn \cap {"hooks"}) \subseteq torn'
      PROVE  Written(s, h, r2)
  <2>1. /\ \A k \in ClaimedKeys : Claimed(r2, k) <=> r2.claims[k] # Unclaimed
        /\ ClaimedKeys \subseteq Keys /\ yours' = yours /\ stranded' = stranded
    BY <1>k, ReceiptIsSet, NativeNames DEF Claimed, Keep
  <2>2. OfKeys(origin')
    BY <1>k, Zenon DEF Keep, OfKeys
  <2>3. \A k \in Keys :
          origin'[k] = IF k \in ClaimedKeys /\ Claimed(r2, k) /\ ~Claimed(setup, k) THEN ComesBack(k)
                       ELSE origin[k]
    BY <1>k, Zenon DEF Keep
  <2>4. /\ replaced' \subseteq ClaimedKeys
        /\ \A k \in ClaimedKeys : k \in replaced' <=>
             \/ k \in replaced
             \/ Claimed(setup, k) /\ Claimed(r2, k) /\ claude[k] # setup.claims[k] /\ s[k] = r2.claims[k]
    BY <1>k DEF Keep, OwnersInv
  <2>5. ASSUME NEW k \in ClaimedKeys
        PROVE  /\ origin'[k] = IF r2.claims[k] # Unclaimed /\ ~Claimed(setup, k) THEN ComesBack(k)
                               ELSE origin[k]
               /\ ComesBack(k)' = IF Claimed(setup, k) /\ r2.claims[k] # Unclaimed
                                    /\ claude[k] # setup.claims[k] /\ s[k] = r2.claims[k]
                                  THEN origin[k] ELSE ComesBack(k)
    BY <2>1, <2>3, <2>4 DEF ComesBack
  <2>6. ASSUME NEW k \in ClaimedKeys, s[k] = claude[k], ~StillOurs(k)',
               k \in torn \/ (setup.set /\ StillOurs(k))
        PROVE  k \in torn'
    <3>1. ~StillOursIn(s, r2, k)
      BY <1>k, <2>6 DEF StillOurs
    <3>2. QED BY <1>k, <2>6, <3>1 DEF Torn
  <2>7. QED BY <1>k, <2>1, <2>2, <2>4, <2>5, <2>6 DEF Written
<1>1. CASE /\ claude' = s2 /\ hooks' = h2 /\ Keep(s2, r2)
           /\ torn' = Torn(s2, r2) \cup (torn \cap {"hooks"})
  BY <1>1, <1>k DEF WriteBoth
<1>2. CASE /\ claude' = claude /\ hooks' = hooks /\ Keep(claude, r2)
           /\ torn' = Torn(claude, r2) \cup (torn \cap {"hooks"})
                \cup {h \in {"hooks"} : /\ "ours" \in hooks /\ setup.set
                                       /\ setup.hook = "ours" /\ r2.hook = "user"}
  <2>1. Written(claude, hooks, r2)
    BY <1>2, <1>k DEF WriteBoth
  <2>2. QED BY <1>2, <2>1
<1>3. QED BY <1>1, <1>2 DEF WriteBoth

\* A command that does so to every key keeps who owns what.
LEMMA OwnedWriteKeeps ==
  ASSUME OwnersInv, NEW s2, NEW h2, NEW r2, WriteBoth(s2, h2, r2), OwnedWrite(s2, h2, r2)
  PROVE  OwnersInv'
<1>r. ReceiptHas(r2) /\ r2.set
  BY ReceiptIsSet DEF OwnedWrite
<1>1. PICK s \in {s2, claude} :
        /\ setup' = r2 /\ claude' = s /\ stranded' = stranded
        /\ \/ s = s2 /\ hooks' = h2 /\ ("hooks" \in torn => "hooks" \in torn')
           \/ /\ s = claude /\ hooks' = hooks /\ ("hooks" \in torn => "hooks" \in torn')
              /\ "ours" \in hooks /\ setup.set /\ setup.hook = "ours" /\ r2.hook = "user"
                   => "hooks" \in torn'
        /\ \A k \in ClaimedKeys :
             s[k] = claude[k] /\ ~StillOurs(k)' /\ (k \in torn \/ (setup.set /\ StillOurs(k))) => k \in torn'
        /\ OfKeys(origin') /\ yours' = yours /\ replaced' \subseteq ClaimedKeys
        /\ \A k \in ClaimedKeys :
             /\ origin'[k] = IF r2.claims[k] # Unclaimed /\ ~Claimed(setup, k) THEN ComesBack(k) ELSE origin[k]
             /\ ComesBack(k)' = IF Claimed(setup, k) /\ r2.claims[k] # Unclaimed
                                   /\ claude[k] # setup.claims[k] /\ s[k] = r2.claims[k]
                                THEN origin[k] ELSE ComesBack(k)
  BY <1>r, Writes DEF Written
<1>2. ASSUME NEW k \in ClaimedKeys PROVE KeyInv(k)'
  <2>1. KeyInv(k) /\ KeyStep(k, s2, r2)
    BY DEF OwnersInv, OwnedWrite
  <2>2. /\ Native[k] \cap ({"ours", Unclaimed} \cup Connections \cup RouterModels) = {}
        /\ Unclaimed \notin Connections \cup RouterModels \cup {"absent", "ours"}
    BY NativeNames
  <2>3. /\ k \in {"gateway", "apiKey", "cap", "tier", "model"}
        /\ k = "gateway" => r2.claims[k] \in Connections
        /\ k = "apiKey" => r2.claims[k] = "absent"
        /\ k = "cap" => r2.claims[k] \in {"ours", Unclaimed}
        /\ k = "model" => r2.claims[k] \in RouterModels
    BY <1>r, NativeNames DEF ReceiptHas
  <2>4. setup.set => /\ k = "apiKey" => setup.claims[k] = "absent"
                     /\ k = "cap" => setup.claims[k] \in {"ours", Unclaimed}
                     /\ k = "model" => setup.claims[k] \in RouterModels
                     /\ k = "gateway" => setup.claims[k] \in Connections
    BY SetupKinds DEF ReceiptHas
  <2>5. /\ Claimed(setup, k) <=> setup.set /\ setup.claims[k] # Unclaimed
        /\ Claimed(setup, k)' <=> r2.claims[k] # Unclaimed
    BY <1>r, <1>1, SetupKinds DEF Claimed
  <2>6. StillOurs(k) <=> \/ setup.claims[k] # Unclaimed /\ claude[k] = setup.claims[k]
                         \/ k = "model" /\ claude[k] \in RouterModels
    BY DEF StillOurs, StillOursIn
  <2>7. StillOurs(k)' <=> \/ r2.claims[k] # Unclaimed /\ s[k] = r2.claims[k]
                          \/ k = "model" /\ s[k] \in RouterModels
    BY <1>1 DEF StillOurs, StillOursIn
  <2>8. yours'[k] \in Native[k] /\ origin'[k] \in Native[k] /\ ComesBack(k) \in Native[k]
    BY <1>1, <2>1 DEF KeyInv, ComesBack
  <2>9. ASSUME Followed(k) PROVE Followed(k)'
    <3>1. ~Claimed(setup, k)' => claude'[k] = ComesBack(k)'
      BY <1>1, <2>1, <2>2, <2>3, <2>4, <2>5, <2>6, <2>8, <2>9 DEF Followed, KeyStep
    <3>2. Claimed(setup, k)' => r2.was[k] = origin'[k]
      BY <1>1, <2>1, <2>2, <2>3, <2>4, <2>5, <2>6, <2>8, <2>9 DEF Followed, KeyStep
    <3>3. Claimed(setup, k)' /\ StillOurs(k)' => ComesBack(k)' = origin'[k]
      BY <1>1, <2>1, <2>2, <2>3, <2>4, <2>5, <2>6, <2>7, <2>8, <2>9 DEF Followed, KeyStep
    <3>4. Claimed(setup, k)' /\ ~StillOurs(k)' =>
             claude'[k] = ComesBack(k)' \/ k \in torn' \cap {"gateway", "tier"}
      BY <1>1, <2>1, <2>2, <2>3, <2>4, <2>5, <2>6, <2>7, <2>8, <2>9 DEF Followed, KeyStep
    <3>5. QED BY <1>1, <3>1, <3>2, <3>3, <3>4 DEF Followed
  <2>10. QED BY <1>1, <2>1, <2>8, <2>9 DEF KeyInv
<1>3. BarInv'
  BY <1>r, <1>1, NativeNames DEF OwnersInv, BarInv, OwnedWrite, BarStep
<1>4. HooksInv'
  BY <1>r, <1>1 DEF OwnersInv, HooksInv, OwnedWrite, HookStep
<1>5. OfKeys(claude')
  BY <1>1 DEF OwnersInv, OwnedWrite
<1>6. QED BY <1>r, <1>1, <1>2, <1>3, <1>4, <1>5 DEF OwnersInv, OfKeys
-----------------------------------------------------------------------------
(* Claude Code: a configure.                                                *)

\* A map with one key replaced, whichever.
PutHas(s, j, x, q) == OfKeys(q) /\ q[j] = x /\ \A k \in Keys \ {j} : q[k] = s[k]
LEMMA AnyKey ==
  ASSUME NEW s, OfKeys(s), NEW x, NEW j \in Keys, NEW q, q = [s EXCEPT ![j] = x]
  PROVE  PutHas(s, j, x, q)
BY Zenon DEF OfKeys, PutHas

\* Five keys replaced.
Five(s, a, b, c, d, e) == [s EXCEPT !.gateway = a, !.apiKey = b, !.model = c, !.cap = d, !.bar = e]
FiveHas(s, q, a, b, c, d, e) ==
  /\ OfKeys(q) /\ q.gateway = a /\ q.apiKey = b /\ q.model = c /\ q.cap = d /\ q.bar = e
  /\ q.tier = s.tier
LEMMA FiveKeys ==
  \A s, a, b, c, d, e : OfKeys(s) => FiveHas(s, Five(s, a, b, c, d, e), a, b, c, d, e)
<1> SUFFICES ASSUME NEW s, OfKeys(s), NEW a, NEW b, NEW c, NEW d, NEW e, NEW q,
                    q = Five(s, a, b, c, d, e)
             PROVE  FiveHas(s, q, a, b, c, d, e)
  BY Zenon
<1>1. q = [k \in Keys |-> IF k = "gateway" THEN a ELSE IF k = "apiKey" THEN b
                          ELSE IF k = "model" THEN c ELSE IF k = "cap" THEN d
                          ELSE IF k = "bar" THEN e ELSE s[k]]
  BY Zenon DEF OfKeys, Five
<1>2. {"gateway", "apiKey", "model", "cap", "bar", "tier"} \subseteq Keys
  BY NativeNames
<1>3. QED BY <1>1, <1>2 DEF OfKeys, FiveHas

\* What a fresh receipt holds.
FreshHas(f, connection, model) ==
  /\ f.set = TRUE /\ f.hook = "none" /\ f.workspace = NoDefault
  /\ f.bar = IF SlotIsOurs(claude) THEN claude.bar ELSE "none"
  /\ f = [set |-> f.set, was |-> f.was, claims |-> f.claims, bar |-> f.bar, hook |-> f.hook,
          workspace |-> f.workspace]
  /\ f.was = [k \in ClaimedKeys |-> f.was[k]]
  /\ \A k \in ClaimedKeys :
       f.was[k] = IF k = "model" /\ claude.model \in RouterModels THEN "absent" ELSE claude[k]
  /\ f.claims = [k \in ClaimedKeys |-> f.claims[k]]
  /\ f.claims.gateway = connection /\ f.claims.apiKey = "absent" /\ f.claims.model = model
  /\ f.claims.tier = Unclaimed
  /\ f.claims.cap = IF ClaimsCap(claude) THEN "ours" ELSE Unclaimed
LEMMA FreshParts ==
  ASSUME NEW connection, NEW model, NEW f, f = FreshSetup(claude, connection, model)
  PROVE  FreshHas(f, connection, model)
<1> DEFINE yes == TRUE
           w == [k \in ClaimedKeys |-> IF k = "model" /\ claude.model \in RouterModels THEN "absent"
                                       ELSE claude[k]]
           c == [gateway |-> connection, apiKey |-> "absent", model |-> model, tier |-> Unclaimed,
                 cap |-> IF ClaimsCap(claude) THEN "ours" ELSE Unclaimed]
           b == IF SlotIsOurs(claude) THEN claude.bar ELSE "none"
           h == "none"
           o == NoDefault
<1>1. f = [set |-> yes, was |-> w, claims |-> c, bar |-> b, hook |-> h, workspace |-> o]
  BY DEF FreshSetup
<1>2. /\ w = [k \in ClaimedKeys |-> w[k]]
      /\ \A k \in ClaimedKeys :
           w[k] = IF k = "model" /\ claude.model \in RouterModels THEN "absent" ELSE claude[k]
  BY Zenon
<1>3. /\ c.gateway = connection /\ c.apiKey = "absent" /\ c.model = model
      /\ c.tier = Unclaimed /\ c.cap = IF ClaimsCap(claude) THEN "ours" ELSE Unclaimed
  BY Zenon
<1>4. c = [k \in ClaimedKeys |-> c[k]]
  <2>1. ClaimedKeys = {"gateway", "apiKey", "model", "tier", "cap"}
    BY NativeNames
  <2>2. QED BY <2>1, SMT
<1> HIDE DEF yes, w, c, b, h, o
<1>5. f.set = yes /\ f.was = w /\ f.claims = c /\ f.bar = b /\ f.hook = h /\ f.workspace = o
  BY ONLY <1>1, RecordParts
<1>6. f = [set |-> f.set, was |-> f.was, claims |-> f.claims, bar |-> f.bar, hook |-> f.hook,
           workspace |-> f.workspace]
  BY ONLY <1>1, <1>5
<1>7. f.set = TRUE /\ f.hook = "none" /\ f.workspace = NoDefault
      /\ f.bar = IF SlotIsOurs(claude) THEN claude.bar ELSE "none"
  BY <1>5 DEF yes, h, o, b
<1>8. /\ f.was = [k \in ClaimedKeys |-> f.was[k]]
      /\ \A k \in ClaimedKeys :
           f.was[k] = IF k = "model" /\ claude.model \in RouterModels THEN "absent" ELSE claude[k]
  BY ONLY <1>2, <1>5
<1>9. /\ f.claims = [k \in ClaimedKeys |-> f.claims[k]]
      /\ f.claims.gateway = connection /\ f.claims.apiKey = "absent" /\ f.claims.model = model
      /\ f.claims.tier = Unclaimed
      /\ f.claims.cap = IF ClaimsCap(claude) THEN "ours" ELSE Unclaimed
  BY ONLY <1>3, <1>4, <1>5
<1>10. QED BY ONLY <1>6, <1>7, <1>8, <1>9 DEF FreshHas

\* What the merged receipt of a configure holds.
MergedHas(f, m, records, r2) ==
  /\ r2 = [set |-> TRUE, was |-> r2.was, claims |-> r2.claims, bar |-> r2.bar, hook |-> r2.hook,
           workspace |-> r2.workspace]
  /\ r2.workspace = records /\ r2.hook = HookRecord(m)
  /\ m.hook = IF setup.set THEN setup.hook ELSE "none"
  /\ r2.bar = IF setup.set /\ setup.bar # "none" THEN setup.bar ELSE f.bar
  /\ r2.was = [k \in ClaimedKeys |-> r2.was[k]] /\ r2.claims = [k \in ClaimedKeys |-> r2.claims[k]]
  /\ \A k \in ClaimedKeys :
       /\ r2.was[k] = IF setup.set THEN Captured(setup, f, k) ELSE f.was[k]
       /\ r2.claims[k] = IF setup.set THEN Claims(setup, f, k) ELSE f.claims[k]
LEMMA MergedParts ==
  ASSUME OwnersInv, NEW connection, NEW model, NEW f, f = FreshSetup(claude, connection, model),
         NEW m, m = MergedSetup(setup, f), NEW records, NEW r2,
         r2 = [m EXCEPT !.workspace = records, !.hook = HookRecord(m)]
  PROVE  MergedHas(f, m, records, r2)
<1> DEFINE yes == TRUE
           w == [k \in ClaimedKeys |-> Captured(setup, f, k)]
           c == [k \in ClaimedKeys |-> Claims(setup, f, k)]
           b == IF setup.bar # "none" THEN setup.bar ELSE f.bar
<1>w. /\ w = [k \in ClaimedKeys |-> w[k]] /\ c = [k \in ClaimedKeys |-> c[k]]
      /\ \A k \in ClaimedKeys : w[k] = Captured(setup, f, k) /\ c[k] = Claims(setup, f, k)
  BY Zenon
<1>f. /\ f = [set |-> yes, was |-> f.was, claims |-> f.claims, bar |-> f.bar, hook |-> f.hook,
              workspace |-> f.workspace]
      /\ f.set = yes /\ f.hook = "none"
      /\ f.was = [k \in ClaimedKeys |-> f.was[k]] /\ f.claims = [k \in ClaimedKeys |-> f.claims[k]]
  <2>1. /\ f = [set |-> f.set, was |-> f.was, claims |-> f.claims, bar |-> f.bar, hook |-> f.hook,
                workspace |-> f.workspace]
        /\ f.hook = "none" /\ f.set = TRUE
        /\ f.was = [k \in ClaimedKeys |-> f.was[k]] /\ f.claims = [k \in ClaimedKeys |-> f.claims[k]]
    <3>1. FreshHas(f, connection, model)
      BY FreshParts
    <3>2. QED BY ONLY <3>1 DEF FreshHas
  <2>2. f.set = yes
    BY <2>1
  <2> HIDE DEF yes
  <2>3. QED BY ONLY <2>1, <2>2
<1>m. m = IF ~setup.set THEN f ELSE [setup EXCEPT !.was = w, !.claims = c, !.bar = b]
  BY DEF MergedSetup
<1>s. setup.set => setup = [set |-> yes, was |-> setup.was, claims |-> setup.claims, bar |-> setup.bar,
                            hook |-> setup.hook, workspace |-> setup.workspace]
  BY SetupKinds, Zenon DEF ReceiptHas
<1>b. b = IF setup.bar # "none" THEN setup.bar ELSE f.bar
  OBVIOUS
<1>y. yes = TRUE
  OBVIOUS
<1> HIDE DEF yes, w, c, b
<1>1. PICK mw, mc, mb, mh, mo :
         /\ m = [set |-> yes, was |-> mw, claims |-> mc, bar |-> mb, hook |-> mh, workspace |-> mo]
         /\ mw = IF setup.set THEN w ELSE f.was
         /\ mc = IF setup.set THEN c ELSE f.claims
         /\ mb = IF setup.set THEN b ELSE f.bar
         /\ mh = IF setup.set THEN setup.hook ELSE "none"
  <2>1. CASE ~setup.set
    <3>1. m = f
      BY <2>1, <1>m
    <3>2. QED BY ONLY <2>1, <3>1, <1>f
  <2>2. CASE setup.set
    <3>1. m = [setup EXCEPT !.was = w, !.claims = c, !.bar = b]
      BY <2>2, <1>m
    <3>2. m = [set |-> yes, was |-> w, claims |-> c, bar |-> b, hook |-> setup.hook,
               workspace |-> setup.workspace]
      <4> DEFINE sw == setup.was
                 sc == setup.claims
                 sb == setup.bar
                 sh == setup.hook
                 so == setup.workspace
      <4>1. setup = [set |-> yes, was |-> sw, claims |-> sc, bar |-> sb, hook |-> sh, workspace |-> so]
        BY <2>2, <1>s
      <4> HIDE DEF sw, sc, sb, sh, so
      <4>2. m = [set |-> yes, was |-> w, claims |-> c, bar |-> b, hook |-> sh, workspace |-> so]
        BY ONLY <3>1, <4>1, OneField
      <4>3. QED BY <4>2 DEF sh, so
    <3>3. QED BY ONLY <2>2, <3>2
  <2>3. QED BY <2>1, <2>2
<1>2. r2 = [set |-> yes, was |-> mw, claims |-> mc, bar |-> mb, hook |-> HookRecord(m), workspace |-> records]
  <2> DEFINE g == HookRecord(m)
  <2>1. r2 = [m EXCEPT !.workspace = records, !.hook = g]
    OBVIOUS
  <2> HIDE DEF g
  <2>2. r2 = [set |-> yes, was |-> mw, claims |-> mc, bar |-> mb, hook |-> g, workspace |-> records]
    BY ONLY <1>1, <2>1, OneField
  <2>3. QED BY <2>2 DEF g
<1>3. /\ r2.set = yes /\ r2.was = mw /\ r2.claims = mc /\ r2.bar = mb /\ r2.hook = HookRecord(m)
      /\ r2.workspace = records
  <2> DEFINE g == HookRecord(m)
  <2>1. r2 = [set |-> yes, was |-> mw, claims |-> mc, bar |-> mb, hook |-> g, workspace |-> records]
    BY <1>2
  <2> HIDE DEF g
  <2>2. /\ r2.set = yes /\ r2.was = mw /\ r2.claims = mc /\ r2.bar = mb /\ r2.hook = g
        /\ r2.workspace = records
    BY ONLY <2>1, RecordParts
  <2>3. QED BY <2>2 DEF g
<1>4. m.hook = mh
  BY ONLY <1>1, RecordParts
<1>5. r2 = [set |-> yes, was |-> r2.was, claims |-> r2.claims, bar |-> r2.bar, hook |-> r2.hook,
            workspace |-> r2.workspace]
  BY ONLY <1>2, <1>3
<1>6. /\ r2.was = [k \in ClaimedKeys |-> r2.was[k]] /\ r2.claims = [k \in ClaimedKeys |-> r2.claims[k]]
      /\ \A k \in ClaimedKeys :
              /\ r2.was[k] = IF setup.set THEN Captured(setup, f, k) ELSE f.was[k]
              /\ r2.claims[k] = IF setup.set THEN Claims(setup, f, k) ELSE f.claims[k]
  <2>1. CASE setup.set
    <3>1. r2.was = w /\ r2.claims = c
      BY ONLY <1>1, <1>3, <2>1
    <3>2. QED BY ONLY <2>1, <3>1, <1>w
  <2>2. CASE ~setup.set
    <3>1. r2.was = f.was /\ r2.claims = f.claims
      BY ONLY <1>1, <1>3, <2>2
    <3>2. QED BY ONLY <2>2, <3>1, <1>f
  <2>3. QED BY <2>1, <2>2
<1>7. r2.bar = IF setup.set /\ setup.bar # "none" THEN setup.bar ELSE f.bar
  BY <1>1, <1>3, <1>b
<1>8. QED BY <1>1, <1>3, <1>4, <1>5, <1>6, <1>7, <1>y DEF MergedHas

\* A configure does so to every key.
LEMMA RewriteStep ==
  ASSUME OwnersInv, NEW connection \in Connections, NEW model \in RouterModels,
         NEW f, f = FreshSetup(claude, connection, model), NEW m, m = MergedSetup(setup, f),
         NEW records, records = NoDefault \/ records.default \in RouterModels,
         NEW r2, r2 = [m EXCEPT !.workspace = records, !.hook = HookRecord(m)],
         NEW s2, s2 = ClaudeConfigured(claude, connection, model)
  PROVE  OwnedWrite(s2, HooksWith(m), r2)
<1>1. MergedHas(f, m, records, r2)
  BY MergedParts
<1>2. FreshHas(f, connection, model)
  BY FreshParts
<1>3. /\ OfKeys(s2) /\ s2.gateway = connection /\ s2.apiKey = "absent" /\ s2.model = model
      /\ s2.cap = IF ClaimsCap(claude) THEN "ours" ELSE claude.cap
      /\ s2.bar = IF ~SlotIsOurs(claude) THEN claude.bar ELSE IF widget THEN "ours" ELSE "absent"
      /\ s2.tier = claude.tier
  <2> DEFINE none == "absent"
             d == IF ClaimsCap(claude) THEN "ours" ELSE claude.cap
             e == IF ~SlotIsOurs(claude) THEN claude.bar ELSE IF widget THEN "ours" ELSE "absent"
  <2>1. s2 = Five(claude, connection, none, model, d, e)
    BY Zenon DEF ClaudeConfigured, Five
  <2> HIDE DEF none, d, e
  <2>2. OfKeys(claude)
    BY DEF OwnersInv
  <2>3. /\ OfKeys(s2) /\ s2.gateway = connection /\ s2.apiKey = none /\ s2.model = model
        /\ s2.cap = d /\ s2.bar = e /\ s2.tier = claude.tier
    <3>1. FiveHas(claude, s2, connection, none, model, d, e)
      BY ONLY <2>1, <2>2, FiveKeys
    <3>2. QED BY <3>1 DEF FiveHas
  <2>4. QED BY <2>3 DEF none, d, e
<1>4. setup.set => ReceiptHas(setup)
  BY SetupKinds
<1>5. /\ ClaimedKeys = {"gateway", "apiKey", "cap", "tier", "model"}
      /\ Unclaimed \notin Connections \cup RouterModels \cup {"absent", "ours"}
  BY NativeNames
<1>6. /\ Claims(setup, f, "gateway") = connection /\ Claims(setup, f, "apiKey") = "absent"
      /\ Claims(setup, f, "model") = model /\ Claims(setup, f, "tier") = setup.claims.tier
      /\ Claims(setup, f, "cap") = IF ClaimsCap(claude) THEN "ours"
                                   ELSE IF claude.cap # setup.claims.cap THEN Unclaimed ELSE setup.claims.cap
  BY <1>2, <1>5 DEF Claims, FreshHas
<1>7. \A k \in ClaimedKeys : Captured(setup, f, k) =
        IF k # "model" /\ k # "tier" /\ (k = "cap" => ClaimsCap(claude)) /\ setup.claims[k] = Unclaimed
        THEN claude[k] ELSE setup.was[k]
  BY <1>2, <1>5 DEF Captured, Env, FreshHas
<1>8. ReceiptHas(r2)
  <2>1. r2.claims.gateway \in Connections /\ r2.claims.apiKey = "absent" /\ r2.claims.model \in RouterModels
    BY <1>1, <1>2, <1>5, <1>6 DEF MergedHas, FreshHas
  <2>2. r2.claims.cap \in {"ours", Unclaimed}
    BY <1>1, <1>2, <1>4, <1>5, <1>6 DEF ReceiptHas, MergedHas, FreshHas
  <2>3. r2.claims.tier \in {"absent", Unclaimed} \cup RouterModels
    BY <1>1, <1>2, <1>4, <1>5, <1>6 DEF ReceiptHas, MergedHas, FreshHas
  <2>4. r2.bar \in {"none", "absent"}
    BY <1>1, <1>2, <1>4 DEF ReceiptHas, OwnersInv, BarInv, SlotIsOurs, MergedHas, FreshHas
  <2>5. QED BY <1>1, <2>1, <2>2, <2>3, <2>4 DEF ReceiptHas, MergedHas
<1>9. BarStep(s2, r2)
  <2>1. claude.bar = "ours" => setup.set /\ setup.bar = "absent"
    BY DEF OwnersInv, BarInv
  <2>2. setup.set => setup.bar \in {"none", "absent"}
    BY <1>4 DEF ReceiptHas
  <2>3. QED BY <1>1, <1>2, <1>3, <2>1, <2>2 DEF BarStep, SlotIsOurs, MergedHas, FreshHas
<1>10. HookStep(HooksWith(m), r2)
  <2>1. "ours" \in hooks => \/ setup.set /\ (setup.hook = "ours" \/ "hooks" \in torn)
                            \/ "hooks" \in stranded
    BY DEF OwnersInv, HooksInv
  <2>2. QED BY <1>1, <2>1 DEF HookStep, HooksWith, HookRecord, Superseded, OwnedHook, MergedHas
<1>11. ASSUME NEW k \in ClaimedKeys PROVE KeyStep(k, s2, r2)
  <2>1. /\ KeyInv(k) /\ (Claimed(setup, k) <=> setup.set /\ setup.claims[k] # Unclaimed)
        /\ Native[k] \cap RouterModels = {}
    BY SetupKinds, NativeNames DEF OwnersInv
  <2>2. k = "model" => (~Claimed(setup, k) => claude[k] \notin RouterModels)
    BY <2>1 DEF KeyInv, Followed, ComesBack
  <2>3. CASE k = "gateway"
    BY <1>1, <1>2, <1>3, <1>5, <1>6, <1>7, <2>1, <2>3 DEF KeyStep, MergedHas, FreshHas
  <2>4. CASE k = "apiKey"
    BY <1>1, <1>2, <1>3, <1>5, <1>6, <1>7, <2>1, <2>4 DEF KeyStep, MergedHas, FreshHas
  <2>5. CASE k = "model"
    <3>1. setup.set => setup.claims.model \in RouterModels
      BY <1>4 DEF ReceiptHas
    <3>2. QED BY <1>1, <1>2, <1>3, <1>5, <1>6, <1>7, <2>1, <2>2, <2>5, <3>1 DEF KeyStep, MergedHas, FreshHas
  <2>6. CASE k = "tier"
    BY <1>1, <1>2, <1>3, <1>5, <1>6, <1>7, <2>1, <2>6 DEF KeyStep, MergedHas, FreshHas
  <2>7. CASE k = "cap"
    BY <1>1, <1>2, <1>3, <1>5, <1>6, <1>7, <2>1, <2>7 DEF KeyStep, MergedHas, FreshHas
  <2>8. QED BY <1>5, <2>3, <2>4, <2>5, <2>6, <2>7
<1>12. QED BY <1>3, <1>8, <1>9, <1>10, <1>11 DEF OwnedWrite

-----------------------------------------------------------------------------
(* Claude Code: the commands.                                               *)

\* A model that a command resolves, or records as the default, is one of Router's.
LEMMA Resolves ==
  ASSUME OwnersInv, NEW s, NEW connection, NEW answer \in Answers, NEW selected
  PROVE  /\ Resolved(s, setup, connection, answer, selected) \in RouterModels
         /\ LET records == DefaultRecords(s, setup, connection, answer) IN
              records = NoDefault \/ records.default \in RouterModels
<1> DEFINE admin == AdminDefault(setup, connection, answer)
<1>1. NoDefault.default = "none"
  BY DEF NoDefault
<1>2. LET r == RecordedDefault(setup, connection) IN r = NoDefault \/ r.default \in RouterModels
  BY SetupKinds DEF RecordedDefault, ReceiptHas
<1>3. admin = "none" \/ admin \in RouterModels
  BY <1>1, <1>2 DEF AdminDefault, Answers
<1>4. \A x : Served(x) \in RouterModels
  BY DEF Served
<1>5. Resolved(s, setup, connection, answer, selected) \in RouterModels
  BY <1>3, <1>4 DEF Resolved
<1>6. ASSUME admin # "none" PROVE DefaultRecords(s, setup, connection, answer).default \in RouterModels
  BY <1>3, <1>6 DEF DefaultRecords
<1>7. admin = "none" => DefaultRecords(s, setup, connection, answer) = NoDefault
  BY DEF DefaultRecords
<1>8. QED BY <1>5, <1>6, <1>7

\* A configure keeps who owns what.
LEMMA RewriteKeeps ==
  ASSUME OwnersInv, NEW connection \in Connections, NEW model \in RouterModels,
         NEW records, records = NoDefault \/ records.default \in RouterModels,
         Rewrite(connection, model, records)
  PROVE  OwnersInv'
<1> DEFINE f == FreshSetup(claude, connection, model)
           m == MergedSetup(setup, f)
           r2 == [m EXCEPT !.workspace = records, !.hook = HookRecord(m)]
           s2 == ClaudeConfigured(claude, connection, model)
<1>1. WriteBoth(s2, HooksWith(m), r2)
  BY Zenon DEF Rewrite
<1>2. OwnedWrite(s2, HooksWith(m), r2)
  <2> HIDE DEF f, m, r2, s2
  <2>1. /\ f = FreshSetup(claude, connection, model) /\ m = MergedSetup(setup, f)
        /\ r2 = [m EXCEPT !.workspace = records, !.hook = HookRecord(m)]
        /\ s2 = ClaudeConfigured(claude, connection, model)
    BY Zenon DEF f, m, r2, s2
  <2>2. QED BY <2>1, RewriteStep, Zenon
<1> HIDE DEF f, m, r2, s2
<1>3. QED BY <1>1, <1>2, OwnedWriteKeeps

\* So do the commands that configure: the setup, the model and the full refresh.
LEMMA ConfiguresKeep ==
  ASSUME OwnersInv, RefreshInv, ConfigureClaude \/ PickModel \/ RefreshEverything
  PROVE  OwnersInv'
<1>1. CASE ConfigureClaude
  <2>1. PICK connection \in Connections, answer \in Answers :
          Rewrite(connection, Resolved(claude, setup, connection, answer, Preferred),
                  DefaultRecords(claude, setup, connection, answer))
    BY <1>1 DEF ConfigureClaude
  <2> DEFINE model == Resolved(claude, setup, connection, answer, Preferred)
             records == DefaultRecords(claude, setup, connection, answer)
  <2>2. model \in RouterModels /\ (records = NoDefault \/ records.default \in RouterModels)
    BY Resolves
  <2>3. Rewrite(connection, model, records)
    BY <2>1
  <2> HIDE DEF model, records
  <2>4. QED BY <2>2, <2>3, RewriteKeeps
<1>2. CASE PickModel
  <2>1. PICK model \in RouterModels, answer \in Answers :
          Rewrite(claude.gateway, model,
                  IF AdminDefault(setup, claude.gateway, answer) = "none" THEN NoDefault
                  ELSE [default |-> AdminDefault(setup, claude.gateway, answer), displaced |-> model,
                        of |-> claude.gateway])
    BY <1>2 DEF PickModel
  <2> DEFINE admin == AdminDefault(setup, claude.gateway, answer)
             records == IF admin = "none" THEN NoDefault
                        ELSE [default |-> admin, displaced |-> model, of |-> claude.gateway]
  <2>2. admin = "none" \/ admin \in RouterModels
    <3>1. LET r == RecordedDefault(setup, claude.gateway) IN r = NoDefault \/ r.default \in RouterModels
      BY SetupKinds DEF RecordedDefault, ReceiptHas
    <3>2. NoDefault.default = "none"
      BY DEF NoDefault
    <3>3. QED BY <3>1, <3>2 DEF AdminDefault, Answers
  <2>3. records = NoDefault \/ records.default \in RouterModels
    BY <2>2
  <2>4. Rewrite(claude.gateway, model, records) /\ claude.gateway \in Connections
    BY <1>2, <2>1 DEF PickModel
  <2> HIDE DEF records
  <2>5. QED BY <2>3, <2>4, RewriteKeeps
<1>3. CASE RefreshEverything
  <2>1. PICK answer \in Answers :
          Rewrite(refresh.of, Resolved(claude, setup, refresh.of, answer, refresh.selected),
                  DefaultRecords(claude, setup, refresh.of, answer))
    BY <1>3 DEF RefreshEverything
  <2>2. refresh.of \in Connections
    BY <1>3 DEF RefreshInv, RefreshEverything
  <2> DEFINE model == Resolved(claude, setup, refresh.of, answer, refresh.selected)
             records == DefaultRecords(claude, setup, refresh.of, answer)
  <2>3. model \in RouterModels /\ (records = NoDefault \/ records.default \in RouterModels)
    BY Resolves
  <2>4. Rewrite(refresh.of, model, records)
    BY <2>1
  <2> HIDE DEF model, records
  <2>5. QED BY <2>2, <2>3, <2>4, RewriteKeeps
<1>4. QED BY <1>1, <1>2, <1>3

\* A receipt with some of its parts replaced has the others.
MadeOf(q, w, c, b, h, o) ==
  /\ q = [set |-> TRUE, was |-> q.was, claims |-> q.claims, bar |-> q.bar, hook |-> q.hook,
          workspace |-> q.workspace]
  /\ q.was = w /\ q.claims = c /\ q.bar = b /\ q.hook = h /\ q.workspace = o
LEMMA ReceiptWith ==
  ASSUME ReceiptHas(setup), NEW q, NEW x, NEW y
  PROVE  /\ q = [setup EXCEPT !.bar = x] =>
              MadeOf(q, setup.was, setup.claims, x, setup.hook, setup.workspace)
         /\ q = [setup EXCEPT !.workspace = x] =>
              MadeOf(q, setup.was, setup.claims, setup.bar, setup.hook, x)
         /\ q = [setup EXCEPT !.claims.model = x] =>
              MadeOf(q, setup.was, [setup.claims EXCEPT !.model = x], setup.bar, setup.hook, setup.workspace)
         /\ q = [setup EXCEPT !.claims.model = x, !.workspace = y] =>
              MadeOf(q, setup.was, [setup.claims EXCEPT !.model = x], setup.bar, setup.hook, y)
         /\ q = [setup EXCEPT !.was.tier = x, !.claims.tier = y] =>
              MadeOf(q, [setup.was EXCEPT !.tier = x], [setup.claims EXCEPT !.tier = y], setup.bar,
                    setup.hook, setup.workspace)
<1> DEFINE yes == TRUE
           sw == setup.was
           sc == setup.claims
           sb == setup.bar
           sh == setup.hook
           so == setup.workspace
<1>1. setup = [set |-> yes, was |-> sw, claims |-> sc, bar |-> sb, hook |-> sh, workspace |-> so]
  BY Zenon DEF ReceiptHas
<1>2. ASSUME NEW w, NEW c, NEW b, NEW h, NEW o,
             q = [set |-> yes, was |-> w, claims |-> c, bar |-> b, hook |-> h, workspace |-> o]
      PROVE  MadeOf(q, w, c, b, h, o)
  <2> HIDE DEF yes
  <2>1. q.was = w /\ q.claims = c /\ q.bar = b /\ q.hook = h /\ q.workspace = o
    BY ONLY <1>2, RecordParts
  <2>2. q = [set |-> yes, was |-> q.was, claims |-> q.claims, bar |-> q.bar, hook |-> q.hook,
             workspace |-> q.workspace]
    BY ONLY <1>2, <2>1
  <2>3. QED BY <2>1, <2>2 DEF MadeOf, yes
<1> HIDE DEF yes, sw, sc, sb, sh, so
<1>3. /\ q = [setup EXCEPT !.bar = x] => MadeOf(q, sw, sc, x, sh, so)
      /\ q = [setup EXCEPT !.workspace = x] => MadeOf(q, sw, sc, sb, sh, x)
      /\ q = [setup EXCEPT !.claims.model = x] => MadeOf(q, sw, [sc EXCEPT !.model = x], sb, sh, so)
      /\ q = [setup EXCEPT !.claims.model = x, !.workspace = y] =>
           MadeOf(q, sw, [sc EXCEPT !.model = x], sb, sh, y)
      /\ q = [setup EXCEPT !.was.tier = x, !.claims.tier = y] =>
           MadeOf(q, [sw EXCEPT !.tier = x], [sc EXCEPT !.tier = y], sb, sh, so)
  <2>1. ASSUME q = [setup EXCEPT !.bar = x] PROVE MadeOf(q, sw, sc, x, sh, so)
    <3>1. q = [set |-> yes, was |-> sw, claims |-> sc, bar |-> x, hook |-> sh, workspace |-> so]
      BY ONLY <1>1, <2>1, OneField
    <3>2. QED BY <1>2, <3>1
  <2>2. ASSUME q = [setup EXCEPT !.workspace = x] PROVE MadeOf(q, sw, sc, sb, sh, x)
    <3>1. q = [set |-> yes, was |-> sw, claims |-> sc, bar |-> sb, hook |-> sh, workspace |-> x]
      BY ONLY <1>1, <2>2, OneField
    <3>2. QED BY <1>2, <3>1
  <2>3. ASSUME q = [setup EXCEPT !.claims.model = x] PROVE MadeOf(q, sw, [sc EXCEPT !.model = x], sb, sh, so)
    <3>1. q = [set |-> yes, was |-> sw, claims |-> [sc EXCEPT !.model = x], bar |-> sb, hook |-> sh,
               workspace |-> so]
      BY ONLY <1>1, <2>3, OneField
    <3>2. QED BY <1>2, <3>1
  <2>4. ASSUME q = [setup EXCEPT !.claims.model = x, !.workspace = y]
        PROVE  MadeOf(q, sw, [sc EXCEPT !.model = x], sb, sh, y)
    <3>1. q = [set |-> yes, was |-> sw, claims |-> [sc EXCEPT !.model = x], bar |-> sb, hook |-> sh,
               workspace |-> y]
      BY ONLY <1>1, <2>4, OneField
    <3>2. QED BY <1>2, <3>1
  <2>5. ASSUME q = [setup EXCEPT !.was.tier = x, !.claims.tier = y]
        PROVE  MadeOf(q, [sw EXCEPT !.tier = x], [sc EXCEPT !.tier = y], sb, sh, so)
    <3>1. q = [set |-> yes, was |-> [sw EXCEPT !.tier = x], claims |-> [sc EXCEPT !.tier = y], bar |-> sb,
               hook |-> sh, workspace |-> so]
      BY ONLY <1>1, <2>5, OneField
    <3>2. QED BY <1>2, <3>1
  <2>6. QED BY <2>1, <2>2, <2>3, <2>4, <2>5
<1>4. QED BY <1>3 DEF sw, sc, sb, sh, so

\* What a command finds that writes under a setup.
UnderSetup ==
  /\ ReceiptHas(setup) /\ OfKeys(claude)
  /\ claude.bar = "ours" => setup.bar = "absent"
  /\ "ours" \in hooks => setup.hook = "ours" \/ "hooks" \in torn \cup stranded
  /\ \A k \in ClaimedKeys : ~Claimed(setup, k) <=> setup.claims[k] = Unclaimed
LEMMA FoundSetup == ASSUME OwnersInv, setup.set PROVE UnderSetup
BY SetupKinds DEF OwnersInv, UnderSetup, BarInv, HooksInv

\* A tier's model is written.
LEMMA TierKeeps == ASSUME OwnersInv, WriteTier PROVE OwnersInv'
<1>1. PICK tier \in RouterModels \cup {"absent"} :
        WriteBoth([claude EXCEPT !.tier = tier], hooks,
             [setup EXCEPT !.was.tier = IF setup.claims.tier = Unclaimed THEN claude.tier ELSE @,
                           !.claims.tier = tier])
  BY DEF WriteTier
<1> DEFINE x == IF setup.claims.tier = Unclaimed THEN claude.tier ELSE setup.was.tier
           s2 == [claude EXCEPT !.tier = tier]
           r2 == [setup EXCEPT !.was.tier = x, !.claims.tier = tier]
<1>2. WriteBoth(s2, hooks, r2)
  BY <1>1, Zenon
<1>3. UnderSetup
  BY FoundSetup DEF WriteTier
<1>4. MadeOf(r2, [setup.was EXCEPT !.tier = x], [setup.claims EXCEPT !.tier = tier], setup.bar, setup.hook,
            setup.workspace)
  <2> HIDE DEF x
  <2>1. QED BY <1>3, ReceiptWith, Zenon DEF UnderSetup
<1>5. "tier" \in ClaimedKeys /\ "bar" \in Keys \ {"tier"} /\ ClaimedKeys \subseteq Keys
      /\ Unclaimed \notin RouterModels \cup {"absent"}
      /\ ClaimedKeys = {"gateway", "apiKey", "cap", "tier", "model"}
  BY NativeNames
<1>6. OfKeys(s2) /\ s2.tier = tier /\ s2.bar = claude.bar /\ \A k \in Keys \ {"tier"} : s2[k] = claude[k]
  <2>1. OfKeys(claude)
    BY <1>3 DEF UnderSetup
  <2>2. /\ OfKeys([claude EXCEPT !.tier = tier]) /\ [claude EXCEPT !.tier = tier].tier = tier
        /\ \A k \in Keys \ {"tier"} : [claude EXCEPT !.tier = tier][k] = claude[k]
    BY <2>1, OneKey, Zenon
  <2>3. QED BY <1>5, <2>2
<1>7. /\ r2.was = [k \in ClaimedKeys |-> r2.was[k]] /\ r2.claims = [k \in ClaimedKeys |-> r2.claims[k]]
      /\ r2.was.tier = x /\ r2.claims.tier = tier
      /\ \A k \in ClaimedKeys \ {"tier"} : r2.was[k] = setup.was[k] /\ r2.claims[k] = setup.claims[k]
  <2> HIDE DEF x, r2
  <2> DEFINE w == setup.was
             c == setup.claims
  <2>1. w = [k \in ClaimedKeys |-> w[k]] /\ c = [k \in ClaimedKeys |-> c[k]]
    BY <1>3, Zenon DEF UnderSetup, ReceiptHas
  <2>2. r2.was = [w EXCEPT !["tier"] = x] /\ r2.claims = [c EXCEPT !["tier"] = tier]
    BY <1>4, Zenon DEF MadeOf
  <2> HIDE DEF w, c
  <2>3. /\ r2.was = [k \in ClaimedKeys |-> r2.was[k]] /\ r2.was["tier"] = x
        /\ \A k \in ClaimedKeys \ {"tier"} : r2.was[k] = w[k]
    BY ONLY <1>5, <2>1, <2>2, OneClaim
  <2>4. /\ r2.claims = [k \in ClaimedKeys |-> r2.claims[k]] /\ r2.claims["tier"] = tier
        /\ \A k \in ClaimedKeys \ {"tier"} : r2.claims[k] = c[k]
    BY ONLY <1>5, <2>1, <2>2, OneClaim
  <2>5. QED BY <2>3, <2>4 DEF w, c
<1> HIDE DEF s2, r2
<1>8. ReceiptHas(r2)
  BY <1>3, <1>4, <1>5, <1>7 DEF UnderSetup, MadeOf, ReceiptHas
<1>9. BarStep(s2, r2) /\ HookStep(hooks, r2)
  BY <1>3, <1>4, <1>6 DEF UnderSetup, MadeOf, BarStep, HookStep
<1>10. ASSUME NEW k \in ClaimedKeys PROVE KeyStep(k, s2, r2)
  <2>1. CASE k = "tier"
    BY <1>3, <1>5, <1>6, <1>7, <2>1 DEF KeyStep, UnderSetup, WriteTier
  <2>2. CASE k # "tier"
    BY <1>3, <1>5, <1>6, <1>7, <2>2 DEF KeyStep, UnderSetup, WriteTier
  <2>3. QED BY <2>1, <2>2
<1>11. QED BY <1>2, <1>6, <1>8, <1>9, <1>10, OwnedWriteKeeps DEF OwnedWrite

\* The status line is shown.
LEMMA WidgetKeeps == ASSUME OwnersInv, ShowWidget PROVE OwnersInv'
<1> DEFINE x == IF setup.bar = "none" THEN claude.bar ELSE setup.bar
           s2 == [claude EXCEPT !.bar = "ours"]
           r2 == [setup EXCEPT !.bar = x]
<1>2. WriteBoth(s2, hooks, r2)
  BY Zenon DEF ShowWidget
<1>3. UnderSetup
  BY FoundSetup DEF ShowWidget
<1>4. MadeOf(r2, setup.was, setup.claims, x, setup.hook, setup.workspace)
  <2> HIDE DEF x
  <2>1. QED BY <1>3, ReceiptWith, Zenon DEF UnderSetup
<1>5. ClaimedKeys \subseteq Keys \ {"bar"}
  BY NativeNames
<1>6. OfKeys(s2) /\ s2.bar = "ours" /\ \A k \in Keys \ {"bar"} : s2[k] = claude[k]
  <2> DEFINE o == "ours"
  <2>1. OfKeys(claude)
    BY <1>3 DEF UnderSetup
  <2> HIDE DEF o
  <2>2. /\ OfKeys([claude EXCEPT !.bar = o]) /\ [claude EXCEPT !.bar = o].bar = o
        /\ \A k \in Keys \ {"bar"} : [claude EXCEPT !.bar = o][k] = claude[k]
    BY <2>1, OneKey, Zenon
  <2>3. QED BY <2>2 DEF o
<1>7. x \in {"none", "absent"} /\ x = "absent"
  BY <1>3 DEF UnderSetup, ReceiptHas, ShowWidget, SlotIsOurs
<1> HIDE DEF s2, r2, x
<1>8. ReceiptHas(r2)
  BY <1>3, <1>4, <1>7 DEF UnderSetup, MadeOf, ReceiptHas
<1>9. BarStep(s2, r2) /\ HookStep(hooks, r2)
  BY <1>3, <1>4, <1>6, <1>7 DEF UnderSetup, MadeOf, BarStep, HookStep, ShowWidget, SlotIsOurs
<1>10. ASSUME NEW k \in ClaimedKeys PROVE KeyStep(k, s2, r2)
  BY <1>4, <1>5, <1>6 DEF KeyStep, MadeOf, ShowWidget
<1>11. QED BY <1>2, <1>6, <1>8, <1>9, <1>10, OwnedWriteKeeps DEF OwnedWrite

\* A receipt whose claim of the model, default or neither is replaced.
LEMMA ModelClaim ==
  ASSUME UnderSetup, NEW x \in RouterModels, NEW o, o = NoDefault \/ o.default \in RouterModels, NEW r2,
         MadeOf(r2, setup.was, [setup.claims EXCEPT !.model = x], setup.bar, setup.hook, o)
  PROVE  /\ ReceiptHas(r2) /\ r2.bar = setup.bar /\ r2.hook = setup.hook /\ r2.was = setup.was
         /\ r2.claims.model = x /\ \A k \in ClaimedKeys \ {"model"} : r2.claims[k] = setup.claims[k]
<1> DEFINE c == setup.claims
<1>1. c = [k \in ClaimedKeys |-> c[k]]
  BY Zenon DEF UnderSetup, ReceiptHas
<1>2. r2.claims = [c EXCEPT !["model"] = x]
  BY Zenon DEF MadeOf
<1>3. "model" \in ClaimedKeys /\ ClaimedKeys = {"gateway", "apiKey", "cap", "tier", "model"}
  BY NativeNames
<1> HIDE DEF c
<1>4. /\ r2.claims = [k \in ClaimedKeys |-> r2.claims[k]] /\ r2.claims["model"] = x
      /\ \A k \in ClaimedKeys \ {"model"} : r2.claims[k] = c[k]
  BY ONLY <1>1, <1>2, <1>3, OneClaim
<1>5. ReceiptHas(r2)
  BY <1>3, <1>4 DEF UnderSetup, MadeOf, ReceiptHas, c
<1>6. QED BY <1>4, <1>5 DEF MadeOf, c

\* The model is written, with the default's record, and a hidden status line put away.
LEMMA ModelKeeps ==
  ASSUME OwnersInv, setup.set, NEW x \in RouterModels,
         NEW o, o = NoDefault \/ o.default \in RouterModels,
         NEW r2, MadeOf(r2, setup.was, [setup.claims EXCEPT !.model = x], setup.bar, setup.hook, o),
         NEW s2, OfKeys(s2), s2.model = x, \A k \in Keys \ {"model", "bar"} : s2[k] = claude[k],
         s2.bar = claude.bar \/ (claude.bar = "ours" /\ s2.bar = "absent"),
         WriteBoth(s2, hooks, r2)
  PROVE  OwnersInv'
<1>1. UnderSetup
  BY FoundSetup
<1>2. /\ ReceiptHas(r2) /\ r2.bar = setup.bar /\ r2.hook = setup.hook /\ r2.was = setup.was
      /\ r2.claims.model = x /\ \A k \in ClaimedKeys \ {"model"} : r2.claims[k] = setup.claims[k]
  BY <1>1, ModelClaim
<1>3. /\ ClaimedKeys \subseteq Keys \ {"bar"} /\ "model" \in ClaimedKeys
      /\ Unclaimed \notin RouterModels
  BY NativeNames
<1>4. BarStep(s2, r2) /\ HookStep(hooks, r2)
  BY <1>1, <1>2 DEF UnderSetup, BarStep, HookStep
<1>5. setup.claims.model \in RouterModels
  BY <1>1 DEF UnderSetup, ReceiptHas
<1>6. ASSUME NEW k \in ClaimedKeys PROVE KeyStep(k, s2, r2)
  <2>1. CASE k = "model"
    BY <1>1, <1>2, <1>3, <1>5, <2>1 DEF KeyStep, UnderSetup
  <2>2. CASE k # "model"
    BY <1>1, <1>2, <1>3, <2>2 DEF KeyStep, UnderSetup
  <2>3. QED BY <2>1, <2>2
<1>7. QED BY <1>2, <1>4, <1>6, OwnedWriteKeeps DEF OwnedWrite

\* The hooks enforce the workspace's default.
LEMMA EnforceKeeps == ASSUME OwnersInv, EnforceDefault PROVE OwnersInv'
<1> DEFINE x == setup.workspace.default
           o == setup.workspace
           s2 == [claude EXCEPT !.model = x]
           r2 == [setup EXCEPT !.claims.model = x]
<1>1. UnderSetup /\ setup.set
  BY FoundSetup DEF EnforceDefault
<1>2. WriteBoth(s2, hooks, r2)
  BY Zenon DEF EnforceDefault
<1>3. x \in RouterModels /\ (o = NoDefault \/ o.default \in RouterModels)
  BY <1>1 DEF UnderSetup, ReceiptHas, EnforceDefault
<1>4. MadeOf(r2, setup.was, [setup.claims EXCEPT !.model = x], setup.bar, setup.hook, o)
  <2> HIDE DEF x
  <2>1. QED BY <1>1, ReceiptWith, Zenon DEF UnderSetup
<1>5. OfKeys(s2) /\ s2.model = x /\ \A k \in Keys \ {"model"} : s2[k] = claude[k]
  <2>1. OfKeys(claude)
    BY <1>1 DEF UnderSetup
  <2> HIDE DEF x
  <2>2. QED BY <2>1, OneKey, Zenon
<1>6. s2.bar = claude.bar
  BY <1>5, NativeNames
<1>7. \A k \in Keys \ {"model", "bar"} : s2[k] = claude[k]
  BY <1>5
<1> HIDE DEF s2, r2, x, o
<1>8. s2.bar = claude.bar \/ (claude.bar = "ours" /\ s2.bar = "absent")
  BY <1>6
<1>9. OwnersInv
  OBVIOUS
<1>10. QED BY ONLY <1>1, <1>2, <1>3, <1>4, <1>5, <1>7, <1>8, <1>9, ModelKeeps

\* The background's refresh: the model, unless it is the user's to keep.
LEMMA RefreshKeeps == ASSUME OwnersInv, RefreshModel PROVE OwnersInv'
<1>1. CASE ~StillConfigured
  <2>1. UNCHANGED <<claudeFiles, claudeHistory>>
    BY <1>1 DEF RefreshModel
  <2>2. QED BY <2>1 DEF claudeFiles, claudeHistory, OwnersInv, KeyInv, Followed, ComesBack, BarInv, HooksInv, Claimed, StillOurs, StillOursIn,
                        OfKeys, ReceiptHas
<1>2. CASE StillConfigured
  <2> DEFINE shown == IF widget \/ claude.bar # "ours" THEN claude ELSE [claude EXCEPT !.bar = "absent"]
  <2>1. UnderSetup /\ setup.set
    BY <1>2, FoundSetup DEF StillConfigured
  <2>2. OfKeys(shown) /\ (\A k \in Keys \ {"bar"} : shown[k] = claude[k])
        /\ (shown.bar = claude.bar \/ (claude.bar = "ours" /\ shown.bar = "absent"))
    <3> DEFINE o == "absent"
               hidden == [claude EXCEPT !.bar = o]
    <3>1. OfKeys(claude)
      BY <2>1 DEF UnderSetup
    <3> HIDE DEF o
    <3>2. OfKeys(hidden) /\ hidden.bar = o /\ \A k \in Keys \ {"bar"} : hidden[k] = claude[k]
      BY <3>1, OneKey, Zenon
    <3>3. shown = IF widget \/ claude.bar # "ours" THEN claude ELSE hidden
      BY DEF o
    <3> HIDE DEF hidden, shown
    <3>4. QED BY <3>1, <3>2, <3>3 DEF o
  <2>3. PICK answer \in Answers :
          LET model == Resolved(claude, setup, refresh.of, answer, refresh.selected)
              records == DefaultRecords(claude, setup, refresh.of, answer)
          IN IF TheirsToKeep(records, RecordedDefault(setup, refresh.of).default)
             THEN WriteBoth(shown, hooks, [setup EXCEPT !.workspace = NoDefault])
             ELSE WriteBoth([shown EXCEPT !.model = model], hooks,
                            [setup EXCEPT !.claims.model = model, !.workspace = records])
    BY <1>2, Zenon DEF RefreshModel
  <2> HIDE DEF shown
  <2> DEFINE model == Resolved(claude, setup, refresh.of, answer, refresh.selected)
             records == DefaultRecords(claude, setup, refresh.of, answer)
  <2>4. model \in RouterModels /\ (records = NoDefault \/ records.default \in RouterModels)
    BY Resolves
  <2>5. CASE WriteBoth(shown, hooks, [setup EXCEPT !.workspace = NoDefault])
    <3> DEFINE r2 == [setup EXCEPT !.workspace = NoDefault]
    <3>1. MadeOf(r2, setup.was, setup.claims, setup.bar, setup.hook, NoDefault)
      BY <2>1, ReceiptWith, Zenon DEF UnderSetup
    <3> HIDE DEF r2
    <3>2. ReceiptHas(r2)
      BY <2>1, <3>1 DEF UnderSetup, MadeOf, ReceiptHas
    <3>3. BarStep(shown, r2) /\ HookStep(hooks, r2)
      BY <2>1, <2>2, <3>1 DEF UnderSetup, MadeOf, BarStep, HookStep
    <3>4. ASSUME NEW k \in ClaimedKeys PROVE KeyStep(k, shown, r2)
      BY <2>1, <2>2, <3>1, NativeNames DEF MadeOf, KeyStep
    <3>5. WriteBoth(shown, hooks, r2)
      BY <2>5 DEF r2
    <3>6. QED BY <2>2, <3>2, <3>3, <3>4, <3>5, OwnedWriteKeeps DEF OwnedWrite
  <2>6. CASE WriteBoth([shown EXCEPT !.model = model], hooks,
                       [setup EXCEPT !.claims.model = model, !.workspace = records])
    <3> HIDE DEF model, records
    <3> DEFINE s2 == [shown EXCEPT !.model = model]
               r2 == [setup EXCEPT !.claims.model = model, !.workspace = records]
    <3>1. MadeOf(r2, setup.was, [setup.claims EXCEPT !.model = model], setup.bar, setup.hook, records)
      BY <2>1, ReceiptWith, Zenon DEF UnderSetup
    <3>2. OfKeys(s2) /\ s2.model = model /\ \A k \in Keys \ {"model"} : s2[k] = shown[k]
      <4>1. OfKeys(shown)
        BY <2>2
      <4>2. QED BY <4>1, OneKey, Zenon
    <3>3. WriteBoth(s2, hooks, r2)
      BY <2>6
    <3> HIDE DEF s2, r2
    <3>4. s2.bar = claude.bar \/ (claude.bar = "ours" /\ s2.bar = "absent")
      BY <2>2, <3>2, NativeNames
    <3>5. \A k \in Keys \ {"model", "bar"} : s2[k] = claude[k]
      BY <2>2, <3>2
    <3>6. OwnersInv
      OBVIOUS
    <3>7. QED BY ONLY <2>1, <2>4, <3>1, <3>2, <3>3, <3>4, <3>5, <3>6, ModelKeeps
  <2>7. QED BY <2>3, <2>5, <2>6
<1>3. QED BY <1>1, <1>2

\* The status line is put away.
LEMMA HideKeeps == ASSUME OwnersInv, HideWidget PROVE OwnersInv'
<1> DEFINE o == "absent"
           hidden == [claude EXCEPT !.bar = o]
<1>1. OfKeys(claude) /\ OfKeys(hidden) /\ hidden.bar = o /\ \A k \in Keys \ {"bar"} : hidden[k] = claude[k]
  <2>1. OfKeys(claude)
    BY DEF OwnersInv
  <2> HIDE DEF o
  <2>2. QED BY <2>1, OneKey, Zenon
<1>2. /\ claude' = IF claude.bar = "ours" THEN hidden ELSE claude
      /\ UNCHANGED <<hooks, setup, yours, origin, replaced, torn, stranded>>
  BY DEF HideWidget, claudeHistory
<1> HIDE DEF hidden
<1>3. OfKeys(claude') /\ \A k \in ClaimedKeys : claude'[k] = claude[k]
  BY <1>1, <1>2, NativeNames
<1>4. BarInv'
  BY <1>1, <1>2, NativeNames DEF OwnersInv, BarInv, o
<1>5. ASSUME NEW k \in ClaimedKeys PROVE KeyInv(k)'
  <2>1. claude.model = claude'.model
    BY <1>3, NativeNames
  <2>2. QED BY <1>2, <1>3, <2>1 DEF OwnersInv, KeyInv, Followed, ComesBack, Claimed, StillOurs, StillOursIn
<1>6. QED BY <1>2, <1>3, <1>4, <1>5 DEF OwnersInv, HooksInv, OfKeys, ReceiptHas

\* What a removal puts back is what the user has.
LEMMA RemovalKeeps == ASSUME OwnersInv, UnconfigureClaude PROVE OwnersInv'
<1>1. /\ setup.set /\ claude' = Restored /\ UNCHANGED <<yours, origin, replaced>>
      /\ \/ setup' = NoClaudeSetup /\ stranded' = stranded \cup torn
         \/ setup' = setup /\ stranded' = stranded /\ torn' = torn
      /\ hooks' = IF setup.hook = "ours" THEN hooks \ {"ours"} ELSE hooks
  BY DEF UnconfigureClaude
<1>2. /\ OfKeys(claude')
      /\ \A k \in ClaimedKeys : claude'[k] = IF StillOurs(k) THEN setup.was[k] ELSE claude[k]
      /\ claude'["bar"] = IF setup.bar # "none" /\ claude.bar = "ours" THEN setup.bar ELSE claude.bar
  <2>1. /\ OfKeys(claude')
        /\ \A k \in Keys : claude'[k] =
             IF k = "bar" THEN IF setup.bar # "none" /\ claude.bar = "ours" THEN setup.bar ELSE claude.bar
             ELSE IF StillOurs(k) THEN setup.was[k] ELSE claude[k]
    BY <1>1, Zenon DEF Restored, OfKeys
  <2>2. QED BY <2>1, NativeNames
<1>3. NoClaudeSetup.set = FALSE
  BY DEF NoClaudeSetup
<1>4. ASSUME NEW k \in ClaimedKeys PROVE KeyInv(k)'
  <2>1. /\ KeyInv(k) /\ Native[k] \cap RouterModels = {} /\ (k = "model" => claude[k] = claude.model)
        /\ (Claimed(setup, k) <=> setup.claims[k] # Unclaimed) /\ ComesBack(k) \in Native[k]
        /\ ComesBack(k)' = ComesBack(k)
    BY <1>1, NativeNames, SetupKinds DEF OwnersInv, KeyInv, ComesBack
  <2>2. CASE k \in stranded \cap {"gateway", "tier"}
    BY <1>1, <2>1, <2>2 DEF KeyInv
  <2>3. CASE Followed(k)
    <3>1. \/ claude'[k] = ComesBack(k)
          \/ k \in torn \cap {"gateway", "tier"} /\ ~StillOurs(k) /\ claude'[k] = claude[k]
      BY <1>1, <1>2, <2>1, <2>3 DEF Followed, StillOurs, StillOursIn
    <3>2. CASE setup' = NoClaudeSetup
      <4>1. stranded' = stranded \cup torn \/ setup' = setup
        BY <1>1
      <4>2. QED BY <1>1, <1>3, <2>1, <3>1, <3>2, <4>1 DEF KeyInv, Followed, Claimed
    <3>3. CASE setup' = setup /\ stranded' = stranded /\ torn' = torn
      <4>1. Claimed(setup, k)' <=> Claimed(setup, k)
        BY <3>3 DEF Claimed
      <4>2. StillOurs(k)' => ComesBack(k) = origin[k]
        BY <1>1, <1>2, <2>1, <2>3, <3>1, <3>3, NativeNames DEF Followed, StillOurs, StillOursIn
      <4>3. QED BY <1>1, <2>1, <2>3, <3>1, <3>3, <4>1, <4>2 DEF KeyInv, Followed
    <3>4. QED BY <1>1, <3>2, <3>3
  <2>4. QED BY <2>1, <2>2, <2>3 DEF KeyInv
<1>5. BarInv'
  BY <1>1, <1>2, NativeNames DEF OwnersInv, BarInv
<1>6. HooksInv'
  BY <1>1 DEF OwnersInv, HooksInv
<1>7. OfKeys(yours') /\ OfKeys(origin') /\ (setup = NoClaudeSetup \/ ReceiptHas(setup))'
  <2>1. setup' = setup => (ReceiptHas(setup) <=> ReceiptHas(setup)')
    BY DEF ReceiptHas
  <2>2. QED BY <1>1, <2>1, SetupKinds DEF OwnersInv
<1>8. replaced' \subseteq ClaimedKeys
  BY <1>1 DEF OwnersInv
<1>9. QED BY <1>2, <1>4, <1>5, <1>6, <1>7, <1>8 DEF OwnersInv

\* What the user edits is the user's, but for a model of Router's.
LEMMA EditKeeps == ASSUME OwnersInv, EditByHand PROVE OwnersInv'
<1>1. UNCHANGED <<setup, origin>>
  BY DEF EditByHand
<1>h. "hooks" \notin Keys /\ "hooks" \notin ClaimedKeys
  BY NativeNames
<1>2. CASE \E h \in SUBSET {"mine", "wrap", "ours"} :
             /\ h # hooks /\ ("ours" \in h => "ours" \in hooks)
             /\ hooks' = h /\ UNCHANGED <<claude, yours, replaced>>
             /\ torn' = IF "ours" \in h THEN torn ELSE torn \ {"hooks"}
             /\ stranded' = IF "ours" \in h THEN stranded ELSE stranded \ {"hooks"}
  <2>1. /\ UNCHANGED <<claude, yours, setup, origin, replaced>>
        /\ "ours" \in hooks' => "ours" \in hooks /\ torn' = torn /\ stranded' = stranded
        /\ torn' \cap ClaimedKeys = torn \cap ClaimedKeys
        /\ stranded' \cap ClaimedKeys = stranded \cap ClaimedKeys
    BY <1>1, <1>2, <1>h
  <2>2. HooksInv'
    BY <2>1 DEF OwnersInv, HooksInv
  <2>3. ASSUME NEW k \in ClaimedKeys PROVE KeyInv(k)'
    BY <2>1 DEF OwnersInv, KeyInv, Followed, ComesBack, Claimed, StillOurs, StillOursIn
  <2>4. QED BY <2>1, <2>2, <2>3 DEF OwnersInv, BarInv, OfKeys, ReceiptHas
<1> DEFINE HandEdit(j, v) ==
             /\ setup.set /\ j \in ClaimedKeys => v # setup.claims[j]
             /\ claude' = [claude EXCEPT ![j] = v]
             /\ yours' = [yours EXCEPT ![j] = IF v \in RouterModels THEN @ ELSE v]
             /\ replaced' = IF v \in RouterModels THEN replaced \cup {j} ELSE replaced \ {j}
             /\ torn' = torn \ {j}
             /\ stranded' = IF j \in ClaimedKeys /\ Claimed(setup, j) THEN stranded ELSE stranded \ {j}
             /\ UNCHANGED hooks
<1>3. CASE \E j \in editable \cap Keys :
             \E v \in Native[j] \cup (IF j = "model" /\ setup.set THEN RouterModels ELSE {}) : HandEdit(j, v)
  <2>1. PICK j \in Keys : \E v \in Native[j] \cup (IF j = "model" /\ setup.set THEN RouterModels ELSE {}) :
          HandEdit(j, v)
    BY <1>3
  <2>2. PICK v \in Native[j] \cup (IF j = "model" /\ setup.set THEN RouterModels ELSE {}) : HandEdit(j, v)
    BY <2>1
  <2> DEFINE y == IF v \in RouterModels THEN yours[j] ELSE v
  <2>3. /\ OfKeys(claude') /\ claude'[j] = v /\ \A k \in Keys \ {j} : claude'[k] = claude[k]
        /\ OfKeys(yours') /\ yours'[j] = y /\ \A k \in Keys \ {j} : yours'[k] = yours[k]
    <3>1. /\ claude' = [claude EXCEPT ![j] = v] /\ yours' = [yours EXCEPT ![j] = y]
          /\ OfKeys(claude) /\ OfKeys(yours)
      BY <2>2 DEF OwnersInv
    <3> HIDE DEF y
    <3>2. PutHas(claude, j, v, claude')
      BY <3>1, AnyKey
    <3>3. PutHas(yours, j, y, yours')
      BY <3>1, AnyKey
    <3>4. QED BY <3>2, <3>3 DEF PutHas
  <2>4. /\ setup.set /\ j \in ClaimedKeys => v # setup.claims[j]
        /\ v \in RouterModels => j = "model" /\ setup.set /\ j \in ClaimedKeys
        /\ v \notin RouterModels => v \in Native[j]
        /\ Native[j] \cap RouterModels = {}
    BY <2>2, NativeNames
  <2>5. /\ replaced' = IF v \in RouterModels THEN replaced \cup {j} ELSE replaced \ {j}
        /\ torn' = torn \ {j} /\ hooks' = hooks
        /\ stranded' = IF j \in ClaimedKeys /\ Claimed(setup, j) THEN stranded ELSE stranded \ {j}
    BY <2>2
  <2>6. ASSUME NEW k \in ClaimedKeys PROVE KeyInv(k)'
    <3>1. /\ KeyInv(k) /\ k \in Keys
          /\ (Claimed(setup, k) <=> setup.set /\ setup.claims[k] # Unclaimed)
          /\ (k = "model" /\ setup.set => Claimed(setup, k))
      <4>1. KeyInv(k) /\ k \in Keys
            /\ (Claimed(setup, k) <=> setup.set /\ setup.claims[k] # Unclaimed)
        BY NativeNames, SetupKinds DEF OwnersInv
      <4>2. k = "model" /\ setup.set => setup.claims[k] \in RouterModels
        BY SetupKinds DEF ReceiptHas
      <4>3. QED BY <4>1, <4>2, NativeNames
    <3>2. /\ Claimed(setup, k)' <=> Claimed(setup, k)
          /\ setup'.claims[k] = setup.claims[k] /\ setup'.was[k] = setup.was[k]
          /\ origin'[k] = origin[k]
      BY <1>1 DEF Claimed
    <3>3. StillOurs(k)' <=> \/ setup.claims[k] # Unclaimed /\ claude'[k] = setup.claims[k]
                            \/ k = "model" /\ claude'[k] \in RouterModels
      BY <1>1 DEF StillOurs, StillOursIn
    <3>4. StillOurs(k) <=> \/ setup.claims[k] # Unclaimed /\ claude[k] = setup.claims[k]
                           \/ k = "model" /\ claude[k] \in RouterModels
      BY DEF StillOurs, StillOursIn
    <3>5. CASE k = j
      <4>1. claude'[k] = v /\ yours'[k] = y
        BY <2>3, <3>5
      <4>2. CASE v \notin RouterModels
        <5>1. ComesBack(k)' = v /\ v \in Native[k]
          BY <2>4, <2>5, <3>5, <4>1, <4>2 DEF ComesBack
        <5>2. ~(Claimed(setup, k) /\ StillOurs(k)')
          BY <2>4, <3>1, <3>3, <3>5, <4>1, <4>2
        <5>3. yours'[k] = v
          BY <4>1, <4>2
        <5>4. CASE k \in stranded' \cap {"gateway", "tier"}
          BY <3>1, <3>2, <5>1, <5>3, <5>4 DEF KeyInv
        <5>5. CASE k \notin stranded' \cap {"gateway", "tier"}
          <6>1. Claimed(setup, k) => k \notin stranded \cap {"gateway", "tier"}
            BY <2>5, <3>5, <5>5
          <6>2. Claimed(setup, k) => setup.was[k] = origin[k]
            BY <3>1, <6>1 DEF KeyInv, Followed
          <6>3. Followed(k)'
            BY <3>2, <4>1, <5>1, <5>2, <6>2 DEF Followed
          <6>4. QED BY <3>1, <3>2, <5>1, <5>3, <6>3 DEF KeyInv
        <5>6. QED BY <5>4, <5>5
      <4>3. CASE v \in RouterModels
        <5>1. k = "model" /\ StillOurs(k)' /\ Claimed(setup, k) /\ ComesBack(k)' = origin[k]
          BY <2>4, <2>5, <3>1, <3>2, <3>3, <3>5, <4>1, <4>3 DEF ComesBack
        <5>2. Followed(k)
          BY <3>1, <5>1 DEF KeyInv
        <5>3. QED BY <3>1, <3>2, <4>1, <4>3, <5>1, <5>2, <3>5 DEF KeyInv, Followed
      <4>4. QED BY <4>2, <4>3
    <3>6. CASE k # j
      <4>1. /\ claude'[k] = claude[k] /\ yours'[k] = yours[k] /\ ComesBack(k)' = ComesBack(k)
            /\ (k \in torn' <=> k \in torn) /\ (k \in stranded' <=> k \in stranded)
        BY <2>3, <2>5, <3>1, <3>2, <3>6 DEF ComesBack
      <4>2. StillOurs(k)' <=> StillOurs(k)
        BY <3>3, <3>4, <4>1
      <4>3. QED BY <3>1, <3>2, <4>1, <4>2 DEF KeyInv, Followed
    <3>7. QED BY <3>5, <3>6
  <2>7. BarInv'
    <3>1. CASE j = "bar"
      <4>1. v \in {"absent", "mine"} /\ y = v
        BY <2>2, <3>1, NativeNames
      <4>2. QED BY <1>1, <2>3, <3>1, <4>1, NativeNames DEF BarInv
    <3>2. CASE j # "bar"
      BY <1>1, <2>3, <3>2, NativeNames DEF OwnersInv, BarInv
    <3>3. QED BY <3>1, <3>2
  <2>8. HooksInv'
    <3>1. "hooks" # j
      BY <1>h
    <3>2. QED BY <1>1, <2>5, <3>1 DEF OwnersInv, HooksInv
  <2>9. replaced' \subseteq ClaimedKeys
    BY <2>4, <2>5 DEF OwnersInv
  <2>10. QED BY <1>1, <2>3, <2>6, <2>7, <2>8, <2>9 DEF OwnersInv, OfKeys, ReceiptHas
<1>4. QED BY <1>2, <1>3, Zenon DEF EditByHand

\* Every step keeps who owns what.
LEMMA OwnersStep == ASSUME OwnersInv, RefreshInv, [ClaudeNext]_claudeVars PROVE OwnersInv' /\ RefreshInv'
<1>1. CASE ConfigureClaude \/ PickModel \/ RefreshEverything
  <2>1. OwnersInv'
    BY <1>1, ConfiguresKeep
  <2>2. refresh' = refresh \/ refresh' = Waiting
    BY <1>1 DEF ConfigureClaude, PickModel, RefreshEverything
  <2>3. QED BY <2>1, <2>2 DEF RefreshInv, Waiting
<1>2. CASE WriteTier
  BY <1>2, TierKeeps DEF WriteTier, RefreshInv
<1>3. CASE ShowWidget
  BY <1>3, WidgetKeeps DEF ShowWidget, RefreshInv
<1>4. CASE HideWidget
  BY <1>4, HideKeeps DEF HideWidget, RefreshInv
<1>5. CASE AskRouter
  <2>1. OwnersInv'
    BY <1>5 DEF AskRouter, claudeFiles, claudeHistory, OwnersInv, KeyInv, Followed, ComesBack, BarInv, HooksInv, Claimed, StillOurs, StillOursIn,
                OfKeys, ReceiptHas
  <2>2. claude.gateway \in Connections /\ \E kind \in {"everything", "model"} :
          refresh' = [at |-> kind, of |-> claude.gateway, selected |-> claude.model]
    BY <1>5 DEF AskRouter
  <2>3. RefreshInv'
    BY <2>2 DEF RefreshInv
  <2>4. QED BY <2>1, <2>3
<1>6. CASE RefreshModel
  <2>1. refresh' = Waiting
    BY <1>6 DEF RefreshModel
  <2>2. QED BY <1>6, <2>1, RefreshKeeps DEF RefreshInv, Waiting
<1>7. CASE EnforceDefault
  BY <1>7, EnforceKeeps DEF EnforceDefault, RefreshInv
<1>8. CASE UnconfigureClaude
  BY <1>8, RemovalKeeps DEF UnconfigureClaude, RefreshInv
<1>9. CASE EditByHand
  BY <1>9, EditKeeps DEF EditByHand, RefreshInv
<1>10. CASE UNCHANGED claudeVars
  BY <1>10 DEF claudeVars, claudeFiles, claudeHistory, OwnersInv, KeyInv, Followed, ComesBack, BarInv, HooksInv, Claimed, StillOurs, StillOursIn,
               OfKeys, ReceiptHas, RefreshInv
<1>11. QED BY <1>1, <1>2, <1>3, <1>4, <1>5, <1>6, <1>7, <1>8, <1>9, <1>10 DEF ClaudeNext

\* Nothing is claimed before the first setup.
LEMMA OwnersInit == ClaudeInit => OwnersInv /\ RefreshInv
<1> SUFFICES ASSUME ClaudeInit PROVE OwnersInv /\ RefreshInv
  OBVIOUS
<1>1. PICK theirs \in [editable \cap Keys -> UNION {Native[k] : k \in Keys}] :
        /\ \A k \in DOMAIN theirs : theirs[k] \in Native[k]
        /\ claude = [k \in Keys |-> IF k \in editable THEN theirs[k] ELSE "absent"]
  BY DEF ClaudeInit
<1>2. \A k \in Keys : "absent" \in Native[k]
  BY NativeNames DEF Native
<1>3. OfKeys(claude) /\ \A k \in Keys : claude[k] \in Native[k]
  <2>1. \A k \in Keys : claude[k] = IF k \in editable THEN theirs[k] ELSE "absent"
    BY <1>1
  <2>2. \A k \in Keys : k \in editable => theirs[k] \in Native[k]
    BY <1>1
  <2>3. \A k \in Keys : claude[k] \in Native[k]
    BY <1>2, <2>1, <2>2
  <2>4. OfKeys(claude)
    BY <1>1 DEF OfKeys
  <2>5. QED BY <2>3, <2>4
<1>4. /\ setup = NoClaudeSetup /\ yours = claude /\ origin = claude /\ replaced = {} /\ refresh = Waiting
      /\ "ours" \notin hooks
  BY DEF ClaudeInit
<1>5. ~setup.set
  BY <1>4 DEF NoClaudeSetup
<1>6. QED BY <1>3, <1>4, <1>5, NativeNames
       DEF OwnersInv, KeyInv, Followed, ComesBack, BarInv, HooksInv, Claimed, RefreshInv, Waiting

\* When the setup has been removed every key is what the user last made of it, or what there was before the
\* claim where Router has written over that, and Router's hook is gone, but for what a kill between a receipt
\* and its settings has made nobody's: the comparison of values with the receipt finds the owners out, for
\* every user's settings and every number of edits and kills (claude_code.py: plan_restoration, merge_states).
THEOREM YoursComesBackHolds == ClaudeSpec => []YoursComesBack
<1>1. OwnersInv => YoursComesBack
  <2> SUFFICES ASSUME OwnersInv, ~setup.set
               PROVE  /\ \A k \in Keys \ stranded : claude[k] = ComesBack(k)
                      /\ "hooks" \notin stranded => "ours" \notin hooks
    BY DEF YoursComesBack
  <2>1. \A k \in ClaimedKeys \ stranded : claude[k] = ComesBack(k)
    BY DEF OwnersInv, KeyInv, Followed, Claimed
  <2>2. claude["bar"] = ComesBack("bar")
    BY NativeNames DEF OwnersInv, BarInv, ComesBack
  <2>3. \A k \in Keys \ stranded : claude[k] = ComesBack(k)
    BY <2>1, <2>2, NativeNames
  <2>4. QED BY <2>3 DEF OwnersInv, HooksInv
<1>2. QED BY <1>1, OwnersInit, OwnersStep, PTL DEF ClaudeSpec
================================================================================
