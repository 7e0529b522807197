CONSTANTS
  s1 = s1 x1 = x1 a1 = a1 t1 = t1
  tech = tech finance = finance flash = flash cold = cold hot = hot
  Registries = {s1, x1}
  Shared = {s1}
  Roles = {tech, finance}
  Models = {flash}
  Generations = {cold, hot}
  Agents = {a1}
  Turns = {t1}
  None = None
SPECIFICATION Spec
CHECK_DEADLOCK FALSE
SYMMETRY Symmetry
INVARIANTS
  OwnToolIsCurrent
  ToolIsExecuted
  
PROPERTIES
  DelegatesToCurrent
