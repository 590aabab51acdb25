SPECIFICATION Spec
CONSTANTS
  pc = pc
  phone = phone
  laptop = laptop
  None = None
  Devices = {pc, phone}
  Accounts = {1, 2}
  Owner <- MCOwner
  Calls = {1, 2}
  Placer <- MCPlacer
  MaxTroubles = 0
INVARIANT CurrentCallIsPrepared
CHECK_DEADLOCK FALSE
