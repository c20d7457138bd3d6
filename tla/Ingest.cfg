SPECIFICATION Spec
CONSTANTS
  Deliveries = 3
  Payloads <- SomePayloads
  Files <- SomeFiles
  Known = {"device"}
  Imports = 1
INVARIANTS WholeResults AnsweredTrue WarningsMatch
PROPERTIES EveryDeliveryAnswered
CHECK_DEADLOCK FALSE
