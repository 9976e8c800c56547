\* A 2 x 3 display that must be invalidated, two characters for bars and one for
\* an icon; a horizontal and a vertical bar, a text that may be longer than the display.
CONSTANTS
  XRES = 4
  YRES = 3
  CHARS = 3
  CHAR0 = 1
  ICONS = 1
  FixedSegments <- BlankAndBlock
  DROWS = 2
  DCOLS = 3
  GOTO_COST = 1
  INVALIDATE = TRUE
  Single_Segments = FALSE
  Texts <- MCTexts
  Strings <- MCStrings
  Bars <- MCBars
  BarValues <- MCBarValues
  Icons <- MCIcons
  Frames <- MCFrames
SPECIFICATION Spec
INVARIANTS CharactersKept ScreenShowsLayout
PROPERTY NoNeedlessMerge
