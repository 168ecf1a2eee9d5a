SPECIFICATION WatchSpec
CONSTANTS
  Hashes = {h1, h2}
  Mappers = {m1, m2}
  Cap = 1
  EvictBatch = 1
  PurgeBatch = 1
  Purging = TRUE
  Crashing = TRUE
  NoHash = NoHash
CHECK_DEADLOCK FALSE
SYMMETRY Symmetry
PROPERTIES
  CapEnforcedInBatches
