SPECIFICATION FairSpec
CONSTANTS
  m = m
  e1 = e1
  e2 = e2
  Movies <- MCMovie
  Episodes <- MCEpisode
  Download <- MCDownload
  StormThreshold = 1
  MaxGrabs = 1
  MaxFaults = 1
  MaxSearches = 1
  MaxLate = 1
  MaxEdits = 1
  None = None
CHECK_DEADLOCK FALSE
INVARIANTS
  QueueReportsTruthful
  NothingDropped
PROPERTIES
  UnmonitoredLeftAlone
  ImportWorkerKept
  FailedRemediated
