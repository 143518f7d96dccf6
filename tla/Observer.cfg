SPECIFICATION Spec
CONSTANTS
  Threads = {t1, t2}
  MaxSubs = 4
  MaxDepth = 2
INVARIANTS NeverForgotten EmissionsRight
PROPERTIES NotCalledOnceGone
