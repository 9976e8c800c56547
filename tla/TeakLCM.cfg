SPECIFICATION Spec
CONSTANTS
  DCOLS = 1
  Characters <- MCCharacters
  Keys <- MCKeys
  MaxWrites = 1
  MaxTroubles = 2
INVARIANT ShadowShown
PROPERTY Reconnects
CHECK_DEADLOCK FALSE
