SPECIFICATION Spec
INVARIANTS WindowBound CapNeverBinds ServedInTurn
CONSTANTS
  Capacity = 2
  Cost = 3
  Timeout = 2
  PendingCap = 2
  MaxTime = 9
  MaxBack = 2
  MaxForward = 2
