CONSTANTS
  c1 = c1 c2 = c2 c3 = c3
  Calls = {c1, c2, c3}
  Ids = {"u1", " u1", "u2"}
  Contexts = {"u1", " u1", "u2"}
  Trim <- TrimmedIds
  FactKeys = {"k1"}
  Evaluations <- FactAndSummary
  AutoManage = {"fact", "summary"}
  Conditions <- Configured
  Ops = {"message", "clear", "delete", "shutdown"}
  MaxInFlight = 2
  None = None
SPECIFICATION Spec
CHECK_DEADLOCK FALSE
SYMMETRY CallSymmetry
INVARIANTS
  RemembersFacts
  RemembersLastSummary
  KnowsOwnUser
  ClearIsComplete
  ShutdownClosesAll
  
