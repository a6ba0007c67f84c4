CONSTANTS
  Procs = {p1, p2}
  Locked = {code, codex}
  Unlocked = {}
  Desktop = None
  Ports = {a}
  Overlapping = {code}
  Killed = FALSE
  None = None
SPECIFICATION Spec
INVARIANTS NoneStranded
