SPECIFICATION MCSpec
CONSTANTS
  MaxCalls = 2
  Tenants = {"t1", "t2"}
  Home = "t1"
  MaxLoads = 1
  Scopes = {"signin", "mfa", "acting", "feed"}
INVARIANTS OneRefresh CodesShownIssued OneSocket
PROPERTIES RequestEnds SocketReturns
CHECK_DEADLOCK FALSE
