SPECIFICATION AllSpec
CONSTANTS
  DELTA_SLOTS = 3
  Fold <- MCFold
  Scale = 60
  Plugins <- TablePlugins
  Keys <- MCKeys
  CpuKeys <- MCKeys
  MaxValue = 2
  MaxNow = 5
  Ms10 = 1
  Ms100 = 1
  Ms250 = 1
  Ms1000 = 2
  Songs <- MCSongs
  NoSong = NoSong
  Flags = {repeat}
  Step = 5
  Loudest = 6
  waittime = 2
  ERROR_DISPLAY = 1
  MaxChanges = 1
  Calls <- MCCalls
  Rssi = {14, 99}
  Modes = {3, 8}
  Operators <- MCOperators
  Times = {0, 2, 4}
  Bytes = {0, 2}
  NameSize = 4
  MaxWire = 3
  MAX_LINES = 2
  Sizes = {0, 1, 3}
  MaxPages = 2
INVARIANTS AnswersHold ServersAnswer
PROPERTIES StoreSpec ServersServe
CHECK_DEADLOCK FALSE
