SPECIFICATION Spec
CONSTANTS
  Clients = {a}
  Intervals = {1, 3}
  IntMax = 1000
  SlotLimit = 2
  SkewDetect = 1
  MaxClock = 1
  Jumps <- SmallJumps
  JumpAt <- BetweenReadings
  MaxJumps = 2
  Dynamic = {}
  Removable = {}
  SelfRemove = FALSE
PROPERTIES JumpBounds NoBacklog
CHECK_DEADLOCK FALSE
