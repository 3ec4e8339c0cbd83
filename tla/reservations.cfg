CONSTANTS
  k1 = k1
  k2 = k2
  Chords = {k1, k2}
  Up = Up
  Unknown = Unknown
  Texts <- MCTexts
  MaxFaults = 2
SPECIFICATION Spec
INVARIANTS NoStuckKey RestartIsAlone TypedAsAsked
PROPERTIES PressOnFreeHost GrantedReleased KeyIsLetGo
