SPECIFICATION SessionSpec
CONSTANTS
  Clients = {c1, c2}
  Grants = {g1, g2}
  MaxSecret = 3
  Calls = {"plain", "read", "write", "passive", "retry", "login", "logout"}
  None = None
INVARIANTS
  CredentialSurvives
  NoSelfInflictedSignOut
  NoResurrection
  OneSuccessor
PROPERTIES
  ImplementsRotatingLogin
  LockIsLeft
  NoSessionWithOfferedSecret
CHECK_DEADLOCK FALSE
