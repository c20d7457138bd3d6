SPECIFICATION Spec
CONSTANTS
  a1 = a1
  a2 = a2
  valve = valve
  r1 = r1
  r2 = r2
  Assets = {a1, a2, valve}
  Cellular = {a1, a2}
  Refreshes = {r1, r2}
  CacheSeconds = 1
  StaleAfter = 2
  Replies = {"reachable", "unknown"}
  BulkLimit = 2
  MaxTime = 3
INVARIANTS NotStaleIsRecent BatchIsWhole LoopStopsBehindBatch
PROPERTIES RefreshesEnd
CHECK_DEADLOCK FALSE
