SPECIFICATION AttrSpec
CONSTANTS
  Clients = {p}
  Dirs = {d1, d2}
  Starts <- Talks
  Tools = {"run"}
  FullEvery = 3
  Remembered = 2
  MaxSaid = 4
  MaxRequests = 3
  MaxEdits = 1
  Nowhere = nowhere
SYMMETRY AlikeDirs
INVARIANT AssumesTheSame
CHECK_DEADLOCK FALSE
