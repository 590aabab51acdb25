SPECIFICATION FairSpec
CONSTANTS
  Uploads = {1}
  Size = 3
  Chunk = 2
  MaxRetry = 2
  MaxFaults = 3
  Absent = Absent
INVARIANTS ReadyIsWhole AckedIsStored
PROPERTY AbandonedGoes
CHECK_DEADLOCK FALSE
