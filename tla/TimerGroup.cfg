SPECIFICATION FairGroupSpec
CONSTANTS
  Clients <- GroupClients
  Widgets = {icon, text}
  Rearming = {icon}
  Retired = {text}
  Drivers <- OneDriver
  Intervals = {1, 2}
  MaxClock = 2
  SlotLimit = 3
  GroupLimit = 2
  WidgetLimit = 3
  IntMax = 1000
  SkewDetect = 1
  Jumps <- NoJumps
  JumpAt <- Nowhere
  MaxJumps = 0
  Dynamic = {"callback"}
  Removable = {}
  SelfRemove = FALSE
INVARIANT GroupInv
PROPERTIES PassComplete WidgetCalled
CHECK_DEADLOCK FALSE
