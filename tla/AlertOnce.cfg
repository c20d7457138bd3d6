SPECIFICATION Spec
CONSTANTS
  c1 = c1
  c2 = c2
  listener = listener
  api = api
  Clusters = {c1}
  Callers = {listener, api}
  Windows <- OneWindow
  Batches <- FullBatch
  Threshold = 2
  MaxRetries = 1
  Faults = {}
INVARIANT ExactlyOneAlert
