\* One client of this machine, one request a window, three in all.
SPECIFICATION Spec
CONSTANTS
  Clients = {"c1"}
  LocalClients = {"c1"}
  RequireAuth = FALSE
  LocalhostOnly = TRUE
  HasSecret = TRUE
  RateLimitEnabled = TRUE
  MaxApi = 1
  MaxAuth = 1
  WindowLength = 2
  TokenTtl = 1
  Skew = 1
  CleanUpEvery = 3
  ForeignTokens <- MCForeignTokens
  MaxEvents = 1
  MaxClock = 4
  MaxArrivals = 3
  MaxPending = 1
CHECK_DEADLOCK FALSE
INVARIANTS
  TwiceAtMost
  WritersHoldTheKey
  AuditIsNewest
  ClosesInOrder
PROPERTIES
  CloseEnds
