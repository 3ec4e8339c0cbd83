SPECIFICATION Spec
CONSTANTS
  Phones = {a}
  None = None
  Tabs = {s, t}
  NumKids = 2
  Acts = {"wake", "type"}
  EnabledActs = {"wake"}
  TsWindow = 1
  Skews <- MCSkewed
  Redeliver = FALSE
  MaxResets = 0
  MaxCmds = 2
  MaxRestores = 0
  MaxTime = 3
  FailThreshold = 1
  FailWindow = 1
  LockoutSec = 2
SYMMETRY Symmetry
INVARIANTS
  AnswerIsTrue
PROPERTIES
  LockoutHolds
