SPECIFICATION Spec
CONSTANTS
  Phones = {a, b}
  None = None
  Tabs = {s}
  NumKids = 2
  Acts = {"wake"}
  EnabledActs = {"wake"}
  TsWindow = 1
  Skews <- MCSkews
  Redeliver = FALSE
  MaxResets = 1
  MaxCmds = 1
  MaxRestores = 0
  MaxTime = 1
  FailThreshold = 2
  FailWindow = 1
  LockoutSec = 2
SYMMETRY Symmetry
INVARIANTS
  OneSlotPerKey
