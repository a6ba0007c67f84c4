SPECIFICATION BackgroundSpec
CONSTANTS
  None = None
  t1 = t1
  Terminals = {t1}
  Killed = TRUE
  Runs <- AllRuns
  Ops <- AllOps
  RouterKeys = {"k1", "k2"}
  HostRefreshes = {"r1", "r2"}
  MaxCatalog = 2
  MaxQuits = 1
  MaxCredentials = 1
  ApiKeys = {ka, kb}
  Late = FALSE
  Strategies = {mine}
  Default = default
  Settings = {auto, switchyard}
  auto = auto
  switchyard = switchyard
  Exclusive <- OnOff
  MaxFailures = 1
  MaxTouches = 2
  MaxOthers = 1
  NoProfile = none
INVARIANT EditsLand
PROPERTIES
  NothingUndoesOptOut NeverKilledMidWrite DeferredRemoval CommandsEnd
  CatalogsAreCurrent UntouchedKeysStand
