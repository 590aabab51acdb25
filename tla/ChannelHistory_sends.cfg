SPECIFICATION FairSpec
CONSTANTS
  Sends = {1}
  OldRows = 1
  MaxPosts = 0
  PageLimit = 1
  CheckLimit = 4
  CheckPages = 5
  WindowLimit = 1
  ListCap = 9
  BackgroundCap = 9
  HeldCap = 1
  WorkerStalls = FALSE
  PagesWait = FALSE
  MaxWaits = 1
  MaxDrops = 1
  MaxDeletes = 0
  MaxRefusals = 1
  MaxJumps = 0
  MaxLosses = 1
  MaxVisits = 0
  MaxEvicts = 0
  MaxSpent = 2
INVARIANTS NoTextVanishes
PROPERTIES LoadingEnds ResyncEnds SendSettles
CHECK_DEADLOCK FALSE
