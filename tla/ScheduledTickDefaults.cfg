SPECIFICATION Spec
CONSTANTS
  Conns = {a, b}
  Governed = {a}
  Desk = b
  Day = 2
  Cooldown = 1
  MaxFaults = 3
  None = None
INVARIANT DefaultsCaught
