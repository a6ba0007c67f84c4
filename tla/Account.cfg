SPECIFICATION AccountSpec
CONSTANTS
  Procs = {p, q}
  Profiles = {agent}
  Defaults = {default}
  Reentered = {agent}
  None = None
  MaxLogins = 2
  MaxTurns = 1
  Clients = {p, q}
  Dirs = {d1, d2}
  Starts <- Talks
  Tools = {"run"}
  FullEvery = 3
  Remembered = 2
  MaxSaid = 3
  MaxRequests = 3
  MaxEdits = 1
  Nowhere = nowhere
  Threads = {p, q}
  Keys = {home, tab}
  Homes = {home}
  Nothing = nothing
  Accounts = 4
  MaxWorld = 1
  MaxChanges = 1
SYMMETRY Symmetry
INVARIANTS
  LatestLoginStands NeverSignsItselfOut RotationsOnce
  ContinuesTruly
  TabRowsAreOwn
PROPERTIES
  ChangesStayShown
