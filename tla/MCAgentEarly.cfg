CONSTANTS
  a1 = a1 a2 = a2 t1 = t1 t2 = t2
  Agents = {a1}
  Turns = {t1}
  None = None
  Methods = {"processUserMessage"}
  MaxCalls = 1
  MaxInFlight = 1
  MaxRefusals = 0
  EarlyMessages = TRUE
  AgentsAlive = "one"
  Faults = {}
  Clears = {}
  Delegation = FALSE
  AutoManage = FALSE
SPECIFICATION Spec
CHECK_DEADLOCK FALSE
INVARIANTS
  SeesOwnMessage
