SPECIFICATION ClientSpec
CONSTANTS
  Checks = 30
  Requests <- SomeRequests
INVARIANTS
  ClientTypeOK
  WaitsForAnswer
PROPERTY
  Terminates
CHECK_DEADLOCK FALSE
