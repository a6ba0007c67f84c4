SPECIFICATION DraftSpec
CONSTANTS
  ApiKeys = {k1, k2}
  Late = TRUE
  Strategies = {mine}
  Default = default
  Settings = {auto, switchyard}
  auto = auto
  switchyard = switchyard
  Exclusive <- OnOff
  MaxFailures = 1
  MaxTouches = 2
  MaxOthers = 1
  NoProfile = none
PROPERTIES UntouchedKeysStand
