SPECIFICATION LoopFairSpec
CONSTANTS
  Callers = {c1, c2}
  Keys = {k1, k2}
  Runs = {r1, r2, r3}
  Outcomes = {ok, fail}
  Failure = fail
  None = None
INVARIANTS
  OneExecutionPerKey
  UnremovedOwnsItsSlot
PROPERTIES
  ImplementsSharedFlight
  EveryFlightLands
