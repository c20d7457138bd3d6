SPECIFICATION FairSpec
CONSTANTS
  r1 = r1
  r2 = r2
  r3 = r3
  d1 = d1
  d2 = d2
  d3 = d3
  p1 = p1
  Runs = {r1, r2, r3}
  Devices = {d1, d2, d3}
  Paths = {p1}
  None = None
  Cluster <- EachKindCluster
  Tier <- EachKindTier
  Grant <- SharedSlice
  Foreign = {d3}
  Mapped = {d1}
  Workers = 2
  Faults <- AllFaults
INVARIANTS ValveJustified UnconfirmedReported AuditTruth
PROPERTIES EveryRunAudited PathsGivenBack
CHECK_DEADLOCK FALSE
