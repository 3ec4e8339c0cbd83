SPECIFICATION Spec
CONSTANTS
  Phones = {a}
  None = None
  Tabs = {s}
  NumKids = 1
  Acts = {"wake"}
  EnabledActs = {"wake"}
  TsWindow = 1
  Skews <- MCSkews
  Redeliver = TRUE
  MaxResets = 1
  MaxCmds = 2
  MaxRestores = 1
  MaxTime = 1
  FailThreshold = 5
  FailWindow = 1
  LockoutSec = 2
SYMMETRY Symmetry
INVARIANTS
  RunsUnderOwnIdentity
PROPERTIES
  ImplementsService
