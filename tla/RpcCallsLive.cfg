SPECIFICATION FairSpec
CONSTANTS
  c1 = c1
  Callers = {c1}
  FirstIndex = 100
  MaxCalls = 2
  MaxPeer = 1
  PeerKinds = {"answer", "insert", "bad", "broken"}
  Failures = {"read", "write", "close"}
  IsServer = TRUE
  Key <- Even2
PROPERTY CallsEnd
CHECK_DEADLOCK FALSE
