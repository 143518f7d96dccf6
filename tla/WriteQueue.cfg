SPECIFICATION FairSpec
CONSTANTS
  Threads = {t1, t2}
  OnSend = {t2}
  MaxWrites = 3
  Size = 3
  Faults = {"error", "close"}
INVARIANT WritesSound
PROPERTIES ImplementsChannel AllSent
CHECK_DEADLOCK FALSE
