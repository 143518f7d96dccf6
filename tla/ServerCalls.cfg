SPECIFICATION FairSpec
CONSTANTS
  MaxCalls = 2
  MaxActive = 1
  UintMax = 65535
  Outcomes = {"response", "failed"}
INVARIANTS CounterExact WithinLimit PlaceReturned AnsweredOnce
PROPERTIES Served
CHECK_DEADLOCK FALSE
