SPECIFICATION FairSpec
CONSTANTS
  None = None
  w1 = w1
  w2 = w2
  Watchers <- OneWatcher
  Incidents <- ThreeIncidents
  BadDevices <- LastDevice
  BadEntries = {}
  NumDevices = 3
  Faults = {"attach", "delete"}
  AllowOverlap = FALSE
  MaxHooks = 3
CHECK_DEADLOCK FALSE
PROPERTY EventuallyDecided
