CONSTANTS Conns <- MCConns Arrivals <- MCArrivals Expiring <- MCExpiring
SPECIFICATION Spec
INVARIANTS ListAccounted NoCircularWait OnlyLateOusted BroadcastReaches
PROPERTY ClosedLeavesList
CHECK_DEADLOCK FALSE
