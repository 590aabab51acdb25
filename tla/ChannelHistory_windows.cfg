SPECIFICATION Spec
CONSTANTS
  Sends = {1}
  OldRows = 2
  MaxPosts = 1
  PageLimit = 1
  CheckLimit = 2
  CheckPages = 2
  WindowLimit = 1
  ListCap = 1
  BackgroundCap = 2
  HeldCap = 1
  WorkerStalls = FALSE
  PagesWait = FALSE
  MaxWaits = 1
  MaxDrops = 0
  MaxDeletes = 1
  MaxRefusals = 1
  MaxJumps = 1
  MaxLosses = 0
  MaxVisits = 1
  MaxEvicts = 1
  MaxSpent = 2
INVARIANTS DisplayedOnce WithdrawnIsNotStored
CHECK_DEADLOCK FALSE
