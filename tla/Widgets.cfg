SPECIFICATION Spec
CONSTANTS
  NameRank <- MCRank
  CharCode <- MCCharCode
  Upper <- MCUpper
  Word <- MCWord
  Readings <- MCReadings
  Pictures <- MCPictures
  Keypad <- MCKeypad
  EventName <- MCEventName
  Scenes <- MCScenes
  MaxVariables = 6
  CHUNK_SIZE = 4
  MAX_WIDGETS = 5
  LAYERS = 3
  YRES = 2
INVARIANTS EvaluationHolds ScreenHolds OneTimerEach ConfigHolds
PROPERTIES ScrollerShowsAll UpdatesTake
CHECK_DEADLOCK FALSE
