CONSTANTS
  m1 = m1 m2 = m2 m3 = m3
  Messages = {m1, m2, m3}
  None = None
  MaxAppends = 2
SPECIFICATION Spec
PROPERTIES HistoryIsSequential
