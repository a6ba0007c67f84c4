SPECIFICATION SetupSpec
CONSTANTS
  Installers = {p, q}
  Packages = {cli, router}
  MaxVersion = 2
  Overlap = FALSE
  Nothing = Nothing
  Procs = {p, q}
  Locked = {code}
  Unlocked = {plugin}
  Desktop = desktop
  Ports = {a, b}
  Overlapping = {desktop}
  Killed = TRUE
  None = None
  Threads = {p, q}
  MaxThreadFaults = 1
  MaxMoves = 2
  Impatient = FALSE
  Connections = {p, q}
  RouterModels = {"ra", "rb"}
  Preferred = "ra"
  Edited <- EditedAlone
  MaxHandEdits = 1
  MaxKills = 1
  Beside = FALSE
  Theirs = theirs
  Ours = ours
  MaxFailures = 1
  MaxEdits = 1
  Harnesses = {"codex", "opencode"}
  Listing = {"codex", "opencode"}
  Comparing = {"codex"}
  Spanning = {"opencode"}
  Selections <- SetupSelections
  PushRuns = {p, q}
  MaxPicks = 1
  MaxPushFaults = 1
SYMMETRY Symmetry
INVARIANTS
  NeverLost RefreshIsOwed OwnerStands
  NoneStranded
  ThreadsComeBack
  YoursComesBack
  SettingsComeBack
  NeverPushedOver PushIsOwed
PROPERTIES
  ThreadsAreShown NeverStranded ChoicesStand
