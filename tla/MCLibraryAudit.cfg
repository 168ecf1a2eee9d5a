SPECIFICATION AuditSpec
CONSTANTS
  Movies = {m1}
  Shows = {s1, s2}
  Images = {s2}
  Tools = {"reconcile", "badfiles", "folders"}
  MaxChanges = 2
  MaxFaults = 1
CHECK_DEADLOCK FALSE
INVARIANTS
  TmdbAuditSound
  ReportsBacked
PROPERTIES
  FoldersSafe
