CONSTANTS
  a1 = a1 a2 = a2 t1 = t1 t2 = t2
  Agents = {a1, a2}
  Turns = {t1, t2}
  None = None
  Methods = {"processUserMessage", "processFunctionResult"}
  MaxCalls = 2
  MaxInFlight = 1
  MaxRefusals = 1
  EarlyMessages = FALSE
  AgentsAlive = "one"
  Faults = {"appendMessage"}
  Clears = {a1}
  Delegation = TRUE
  AutoManage = FALSE
SPECIFICATION FairSpec
CHECK_DEADLOCK FALSE
INVARIANTS
  HistoryIsLog
  ToolCallsAnswered
  SearchedOwnMessage
  LLMSeesConversation
PROPERTIES
  TurnEnds
