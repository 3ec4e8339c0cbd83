SPECIFICATION FairSpec
INVARIANTS AlarmArmed PresenceDated WaitersTimed
PROPERTIES ImplementsCalls RequestsSettle AdviceRepeats
CONSTANTS
  r1 = r1
  r2 = r2
  i1 = i1
  i2 = i2
  u1 = u1
  u2 = u2
  NoReq = NoReq
  NoId = NoId
  NoReg = NoReg
  Reqs = {r1, r2}
  Ids = {i1, i2}
  Regs = {u1, u2}
  Capacity = 1
  Cost = 1
  PendingCap = 2
  UpdateRetry = 1
  UpdateRefresh = 2
  MaxGen = 2
