SPECIFICATION FairSpec
CONSTANTS
  AlertAfter = 2
  RestartAfter = 3
  RestartCooldown = 4
  FailuresAlert = 2
  Percent = {p1, p2}
  Pauses = {1, 2}
  None = None
INVARIANTS
  LagCountsFlatTime
PROPERTIES
  AlertsTruthful
  RestartsWarranted
  TroubleAsksForRestart
