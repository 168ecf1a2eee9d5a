SPECIFICATION Spec
CONSTANTS
  Triggers = {n, t1}
  Nightly = n
  Workers = {w1, w2}
  Configured = {"movies", "shows"}
  Movies = 2
  Shows = 1
  Count <- Inventory
  Languages = 2
  None = None
CHECK_DEADLOCK FALSE
SYMMETRY Symmetry
INVARIANTS
  OneRunAtATime
  NeverStuckRunning
  ProgressTruthful
PROPERTIES
  LastResultKept
