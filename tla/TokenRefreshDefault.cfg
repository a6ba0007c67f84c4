SPECIFICATION Spec
CONSTANTS
  Procs = {p, q}
  Profiles = {}
  Defaults = {default}
  Reentered = {default}
  None = None
  MaxLogins = 1
  MaxTurns = 1
SYMMETRY Symmetry
INVARIANTS DefaultRotatesOnce
