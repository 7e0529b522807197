CONSTANTS
  m1 = m1 m2 = m2 m3 = m3 m4 = m4
  Messages = {m1, m2, m3, m4}
  MongoMessages = {m1, m2, m3}
  Calls = {m1, m2, m3}
  None = None
  ClearWhileAppending = FALSE
  MaxAppends = 1
  MaxFailures = 1
SPECIFICATION AdapterSpec
CHECK_DEADLOCK FALSE
INVARIANTS
  Contiguous
  AddedIsFound
PROPERTIES
  ImplementsLog
  MongoImplementsLog
