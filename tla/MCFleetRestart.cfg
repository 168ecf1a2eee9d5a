SPECIFICATION PanelSpec
CONSTANTS
  nzbdav = nzbdav
  nzbdav_rclone = nzbdav_rclone
  radarr = radarr
  sonarr = sonarr
  prowlarr = prowlarr
  Prereqs <- MCPrereqs
  Providers <- MCProviders
  Dependents <- MCDependents
  Others <- MCOthers
  Panel = Panel
  Workers = {w1, w2}
  MaxAsks = 3
  MaxTroubles = 1
  Threads = {t1, t2}
  MaxRequests = 2
  WindowSeconds = 1
  MaxClock = 3
  MaxAdmitted = 4
CHECK_DEADLOCK FALSE
INVARIANTS
  CatalogTold
  LimitHolds
PROPERTIES
  FreshAfterRestartAll
  EverythingUpAgain
