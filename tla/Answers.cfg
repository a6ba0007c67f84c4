SPECIFICATION AnswersSpec
CONSTANTS
  Threads = {t1, t2}
  Keys = {keys, profiles}
  Nothing = nothing
  MaxWorld = 1
  Script <- Conversation
  Slow = {2}
  Workers = {w1}
  MaxLogins = 2
  MaxBridgeFaults = 1
  Conns = {a, b}
  Governed = {a}
  Desk = b
  Day = 2
  Cooldown = 1
  MaxFaults = 3
  None = none
INVARIANTS ReadsAreFresh SentAsBound NothingForgotten AgentAgrees
PROPERTIES ReadsEnd OneAnswerEach RunsSettle Recovers
