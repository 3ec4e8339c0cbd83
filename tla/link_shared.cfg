SPECIFICATION FairSpec
INVARIANTS ReadySound
PROPERTIES NoStaleDispatch ImplementsLink NetworkConverges LinkRecovers
CONSTANTS
  a1 = a1
  a2 = a2
  NoAddr = NoAddr
  Addrs = {a1, a2}
  QueueDepth = 2
  BackoffCap = 1
  MaxSession = 2
  MaxFlaps = 3
  MaxFaults = 1
  MaxCmds = 2
