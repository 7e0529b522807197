CONSTANTS
  x = x y = y z = z
  TaskIds = {x, y, z}
  NoId = NoId
  MaxTasks = 3
  Answers <- Whatever
SPECIFICATION Spec
CHECK_DEADLOCK FALSE
SYMMETRY Symmetry
INVARIANTS
  EachTaskOnce
  PromptsAreComplete
  EveryIdHasResult
