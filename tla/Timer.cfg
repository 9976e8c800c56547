SPECIFICATION FairSpec
CONSTANTS
  Clients = {a, b}
  Intervals = {0, 2}
  IntMax = 1000
  SlotLimit = 2
  SkewDetect = 0
  MaxClock = 2
  Jumps <- NoJumps
  JumpAt <- Nowhere
  MaxJumps = 0
  Dynamic = {"callback", "event"}
  Removable = {a}
  SelfRemove = FALSE
INVARIANTS TypeOK WaitBound
PROPERTIES NoFalseSkew NeverOversleeps NoTimerLost DueTimerFires
CHECK_DEADLOCK FALSE
