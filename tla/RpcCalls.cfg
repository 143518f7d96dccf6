SPECIFICATION Spec
CONSTANTS
  c1 = c1
  c2 = c2
  Callers = {c1, c2}
  FirstIndex = 101
  MaxCalls = 2
  MaxPeer = 2
  PeerKinds = {"answer", "insert", "alone", "bad", "broken"}
  Failures = {"read", "close"}
  IsServer = FALSE
  Key <- Odd2
SYMMETRY Symmetric
INVARIANTS InOrder CallbackFate SlotLifetime FailureReachesSlots
CHECK_DEADLOCK FALSE
