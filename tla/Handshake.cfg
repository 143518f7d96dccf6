SPECIFICATION FairSpec
CONSTANTS
  Secrets = {k1, k2}
  NoKey = NoKey
  MaxCalls = 2
INVARIANTS Understood HandshakeSound
PROPERTY HandshakeServes
CHECK_DEADLOCK FALSE
