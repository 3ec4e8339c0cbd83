SPECIFICATION Spec
CONSTANTS
  FailThreshold = 3
  FailWindow = 2
  LockoutSec = 2
  MaxNow = 9
  MaxFails = 7
INVARIANTS
  RingHoldsLast
PROPERTIES
  ImplementsWindow
