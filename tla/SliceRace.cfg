SPECIFICATION Spec
CONSTANTS
  None = None
  w1 = w1
  w2 = w2
  Watchers <- TwoWatchers
  Incidents <- FourIncidents
  BadDevices = {}
  BadEntries <- LastEntry
  NumDevices = 2
  Faults <- AllFaults
  AllowOverlap = TRUE
  MaxHooks = 2
CHECK_DEADLOCK FALSE
INVARIANTS NoLostIncident DecisionBound
PROPERTIES DecidesOnce
