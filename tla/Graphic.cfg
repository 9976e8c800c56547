SPECIFICATION Spec
CONSTANTS
    LAYERS = 2
    DROWS = 4
    DCOLS = 6
    XRES = 2
    YRES = 2
    MaxV = 2
    FG_COL <- MCFg
    BG_COL <- MCBg
    BL_COL <- MCBl
    Font <- MCFont
    Byte = 2
    CELL = 2
    G15Byte = 3
    ShortGap = 1
    MaxRun = 2
    MaxLate = 1
    Scenes <- MCScenes
    Cases <- MCCases
INVARIANT DisplayRight
PROPERTIES CanvasRight FramesGoOut
CHECK_DEADLOCK FALSE
