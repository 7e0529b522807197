CONSTANTS
  c1 = c1 c2 = c2 c3 = c3
  Calls = {c1, c2, c3}
  Agents = {"a1", "a2", "a3"}
  Roles = {"analyst", "data analyst"}
  Role <- AgentRoles
  Orchestrators = {"chain", "hierarchy", "thinking"}
  Type <- Types
  Team <- Teams
  Tool <- Tools
  Includes <- RoleNames
  Formatters = {"a2"}
  Selections <- SomeSelections
  None = None
  MaxFunctionCalls = 1
  Texts <- ShortTexts
  Answers <- ShortAnswers
  Plans <- SomePlans
  Responses <- SomeResponses
  FunctionCalls = {"f1", "f2"}
  Malformed = {"http:"}
  NoUri = ""
  NoText = ""
SPECIFICATION OrchestratorsSpec
CHECK_DEADLOCK FALSE
SYMMETRY CallSymmetry
INVARIANTS
  NoTextIsLost
  AnswerFollowsLastMarker
  AnnouncedAnswerIsFound
  
  ResultsAreOwn
  SynthesisHasEveryAnswer
  SourcesAreThoseCited
  AnswerIsKept
