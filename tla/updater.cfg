SPECIFICATION Spec
CONSTANTS
  i1 = i1
  i2 = i2
  i2b = i2b
  i3 = i3
  Images = {i1, i2, i2b, i3}
  release <- MCRelease
  Factory = i1
  None = None
  FailedHashes = 4
  SlowStart = FALSE
INVARIANTS AlwaysBootable FloorHolds
PROPERTIES TrialOnce ImplementsTrials TrialEnds OfferChecked
