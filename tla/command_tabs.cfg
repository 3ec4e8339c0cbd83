SPECIFICATION Spec
CONSTANTS
  Phones = {a}
  None = None
  Tabs = {s, t}
  NumKids = 1
  Acts = {"wake", "type"}
  EnabledActs = {"wake"}
  TsWindow = 1
  Skews <- MCSkews
  Redeliver = TRUE
  MaxResets = 0
  MaxCmds = 3
  MaxRestores = 0
  MaxTime = 1
  FailThreshold = 5
  FailWindow = 1
  LockoutSec = 2
SYMMETRY Symmetry
INVARIANTS
  NoCounterReuse
  RunsInOrder
