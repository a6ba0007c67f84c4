SPECIFICATION ScreensSpec
CONSTANTS
  Threads = {t1, t2}
  Keys = {home, tab}
  Homes = {home}
  Nothing = nothing
  Accounts = 4
  MaxWorld = 1
  MaxChanges = 0
SYMMETRY Symmetry
CHECK_DEADLOCK FALSE
INVARIANT RowsInViewAreOwn
