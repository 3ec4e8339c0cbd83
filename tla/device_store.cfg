CONSTANTS
  p = p
  q = q
  n1 = n1
  n2 = n2
  r1 = r1
  r2 = r2
  Phones = {p, q}
  Networks = {n1, n2}
  Relays = {r1, r2}
  Placeholder = Placeholder
  None = None
  NumKids = 1
  MaxFaults = 2
  MaxResets = 1
  MaxImages = 1
SPECIFICATION Spec
INVARIANTS PromiseKept SettingsKept RelayAccepts
PROPERTIES ModeAsAsked
SYMMETRY Symmetry
