CONSTANTS
  c1 = c1 c2 = c2 c3 = c3
  k1 = k1 k2 = k2 k3 = k3
  r1 = r1 r2 = r2
  Calls = {c1, c2, c3}
  Keys <- OneKey
  SessionIds = {"s1"}
  Trim <- TrimOne
  Roles = {r1, r2}
  Registered = {r1, r2}
  PrimaryTools = {"request"}
  SpecialistTools = {"end"}
  Ops = {"process"}
  MaxInFlight = 1
  Primary = Primary
  None = None
SPECIFICATION Spec
CHECK_DEADLOCK FALSE
INVARIANTS ImmediateEndIsHandled
