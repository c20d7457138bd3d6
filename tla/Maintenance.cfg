SPECIFICATION Spec
CONSTANTS
  Sessions = {s1, s2}
  Plans = {1, 2}
  MaxOrders = 2
  MaxLoose = 1
  MaxDate = 2
SYMMETRY Symmetry
INVARIANTS OneOpenOrder DeadlocksKnown
PROPERTIES HistoryKept OneAfterAnother
CHECK_DEADLOCK FALSE
