CONSTANTS
  c1 = c1 c2 = c2 c3 = c3
  k1 = k1 k2 = k2 k3 = k3
  r1 = r1 r2 = r2
  Calls = {c1, c2, c3}
  Keys <- ThreeKeys
  SessionIds = {"s1", "s2"}
  Trim <- TrimThree
  Roles = {r1}
  Registered = {r1}
  PrimaryTools = {"request"}
  SpecialistTools = {"end"}
  Ops = {"process", "clear", "endSession", "shutdown"}
  MaxInFlight = 3
  Primary = Primary
  None = None
SPECIFICATION Spec
CHECK_DEADLOCK FALSE
SYMMETRY CallSymmetry
INVARIANTS
  SessionIsolation
  ResultReportedOnce
  ActiveAgentExists
