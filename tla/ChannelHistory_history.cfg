SPECIFICATION Spec
CONSTANTS
  Sends = {}
  OldRows = 3
  MaxPosts = 3
  PageLimit = 2
  CheckLimit = 3
  CheckPages = 5
  WindowLimit = 1
  ListCap = 9
  BackgroundCap = 9
  HeldCap = 1
  WorkerStalls = FALSE
  PagesWait = TRUE
  MaxWaits = 2
  MaxDrops = 1
  MaxDeletes = 1
  MaxRefusals = 0
  MaxJumps = 0
  MaxLosses = 0
  MaxVisits = 1
  MaxEvicts = 0
  MaxSpent = 2
INVARIANTS Contiguous AtPresent
CHECK_DEADLOCK FALSE
