SPECIFICATION Spec
CONSTANTS
    STEPS = 3
    Cases <- MCCases
INVARIANT LeftAtEnd
PROPERTY AsAsked
CHECK_DEADLOCK FALSE
