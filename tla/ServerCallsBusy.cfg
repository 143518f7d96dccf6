SPECIFICATION Spec
CONSTANTS
  MaxCalls = 2
  MaxActive = 1
  UintMax = 65535
  Outcomes = {"response"}
INVARIANTS BusyOnlyAtLimit
CHECK_DEADLOCK FALSE
