SPECIFICATION Spec
CONSTANTS
  Base = 2
  Digits = 3
  MaxValid = 4
  MaxChunk = 9
  Plans <- MCPlans
INVARIANTS RoundTrip FramesSound
PROPERTIES AllDelivered
CHECK_DEADLOCK FALSE
