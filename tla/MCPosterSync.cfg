SPECIFICATION FairSpec
CONSTANTS
  x1 = x1
  x2 = x2
  Kinds = {"sync", "scan"}
  Items <- OneItem
  Cooldown = 1
  Requests = {r1}
  Tabs = {t1}
  MaxJobs = 2
  MaxTime = 2
  MaxPicks = 1
  MaxRestarts = 1
  None = None
CHECK_DEADLOCK FALSE
INVARIANTS
  NothingLost
  PostersWellChosen
PROPERTIES
  AutoSpaced
  QuietPickKept
  SlotFreed
