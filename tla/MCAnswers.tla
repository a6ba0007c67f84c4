------------------------------- MODULE MCAnswers -------------------------------
(***************************************************************************)
(* Instances for TLC of what lives on answers of Router that age, fail and *)
(* are shared: the app's read cache, the connectors' bridge, and the       *)
(* background sync with the native agent, for two connections.  They share *)
(* no state, so a behaviour moves one of them, which the initial state     *)
(* chooses; the others rest.                                               *)
(***************************************************************************)
EXTENDS ReadCache, ConnectorBridge, MCScheduledTick

VARIABLE subject   \* the part of the system that moves

\* The agent cancels a call that ends no sooner.
Conversation ==
  << [kind |-> "initialize"], [kind |-> "call"], [kind |-> "call"],
     [kind |-> "cancel", of |-> 2] >>

answersVars == <<readVars, bridgeVars, vars, subject>>

\* The bridge of an agent that has closed its end, and had its answers.
BridgeAtRest ==
  /\ login = SignedOut /\ tokenCache = NoToken
  /\ cacheLock = Nobody /\ loginLock = Nobody
  /\ read = Len(Script)
  /\ sending = [t \in Senders |-> Resting]
  /\ mcpSession = "none"
  /\ cancelled = {}
  /\ answers = [m \in Positions |-> IF IsRequest(m) THEN 1 ELSE 0]
  /\ logins = 1 /\ minted = 1 /\ bridgeFaults = 0

\* Setups that were just configured, and the agent that has not run yet.
SyncAtRest == agent /\ combined

AnswersInit ==
  /\ subject \in {"reads", "bridge", "sync"}
  /\ CacheInit
  /\ IF subject = "bridge" THEN BridgeInit ELSE BridgeAtRest
  /\ Init /\ (subject # "sync" => SyncAtRest)

Reads(A)  == subject = "reads" /\ A /\ UNCHANGED <<bridgeVars, vars, subject>>
Bridge(A) == subject = "bridge" /\ A /\ UNCHANGED <<readVars, vars, subject>>
Sync(A)   == subject = "sync" /\ A /\ UNCHANGED <<readVars, bridgeVars, subject>>

AnswersNext == Reads(CacheNext) \/ Bridge(BridgeNext) \/ Sync(Next)

\* The fairness of each part, while it moves.
AnswersSpec ==
  /\ AnswersInit /\ [][AnswersNext]_answersVars
  /\ \A t \in Threads : WF_readVars(subject = "reads" /\ Step(t))
  /\ WF_bridgeVars(subject = "bridge" /\ ReadMessage)
  /\ \A t \in Senders : SF_bridgeVars(subject = "bridge" /\ Sends(t))
  /\ WF_vars(subject = "sync" /\ (RunStep \/ Starts))
  /\ SF_vars(subject = "sync" /\ Tick)

=============================================================================
