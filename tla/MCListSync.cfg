SPECIFICATION FairSpec
CONSTANTS
  Movies <- MCMovies
  Matched <- MCMatched
  Shows <- MCShows
  Boxd <- MCBoxd
  Mdb <- MCMdb
  Items <- MCItems
  Position <- MCPosition
  MaxFilms = 2
  Handed <- MCHanded
  Together = 1
  MaxFaults = 1
  MaxEdits = 1
  MaxManual = 1
CHECK_DEADLOCK FALSE
INVARIANTS
  RequestsTold
  ReportsTruthful
PROPERTIES
  QuietTickReachesAll
  TrackedFilmsAdded
