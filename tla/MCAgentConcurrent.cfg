CONSTANTS
  a1 = a1 a2 = a2 t1 = t1 t2 = t2
  Agents = {a1, a2}
  Turns = {t1, t2}
  None = None
  Methods = {"processUserMessage"}
  MaxCalls = 0
  MaxInFlight = 2
  MaxRefusals = 0
  EarlyMessages = TRUE
  AgentsAlive = "many"
  Faults = {"loadHistory", "clearHistory"}
  Clears = {a1}
  Delegation = FALSE
  AutoManage = TRUE
SPECIFICATION Spec
CHECK_DEADLOCK FALSE
INVARIANTS
  NoDuplicates
  TurnOrder
