SPECIFICATION FairSpec
CONSTANTS
  Triggers = {n, t1}
  Nightly = n
  Workers = {w1, w2}
  Configured = {"movies"}
  Movies = 2
  Shows = 1
  Count <- Inventory
  Languages = 1
  None = None
CHECK_DEADLOCK FALSE
PROPERTIES
  GateReleased
