SPECIFICATION FairSpec
CONSTANTS
  Callers = {c1, c2}
  Keys = {k1}
  Runs = {r1, r2}
  None = None
  Ttl = 1
  ServeStaleOnError = TRUE
  MaxStaleAge = None
  MaxRetries = 1
  MaxVersion = 2
  MaxClock = 1
  MaxRequests = 3
CHECK_DEADLOCK FALSE
PROPERTIES
  CacheTruthful
  OutageServesStored
  EveryCallAnswered
