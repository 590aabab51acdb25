SPECIFICATION FairSpec
CONSTANTS
  pc = pc
  phone = phone
  laptop = laptop
  None = None
  Devices = {pc, phone, laptop}
  Accounts = {1, 2}
  Owner <- MCOwner
  Calls = {1}
  Placer <- MCPlacer
  MaxTroubles = 1
INVARIANTS IdleMeansFree TalkersAreRegistered
PROPERTIES HandshakeEnds AloneEnds
CHECK_DEADLOCK FALSE
