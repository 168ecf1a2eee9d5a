SPECIFICATION WatchFairSpec
CONSTANTS
  Hashes = {h1, h2}
  Mappers = {m1, m2}
  Cap = 1
  EvictBatch = 2
  PurgeBatch = 1
  Purging = FALSE
  Crashing = FALSE
  NoHash = NoHash
CHECK_DEADLOCK FALSE
INVARIANTS
  FilesAreKnown
PROPERTIES
  EveryFetchEnds
