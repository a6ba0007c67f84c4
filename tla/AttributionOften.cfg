SPECIFICATION AttrSpec
CONSTANTS
  Clients = {p}
  Dirs = {d1, d2}
  Starts <- Talks
  Tools = {"run"}
  FullEvery = 2
  Remembered = 2
  MaxSaid = 4
  MaxRequests = 5
  MaxEdits = 1
  Nowhere = nowhere
SYMMETRY AlikeDirs
INVARIANT SoonRead
CHECK_DEADLOCK FALSE
