--------------------------- MODULE TextDriverTable ---------------------------
(* What each driver tells the shared code when it is initialised, and how it
   ends.  A driver is chosen by its name; c is the configuration of a display. *)
EXTENDS TextDriversSerial

\* CHARS glyphs from code CHAR0 on, codes with a fixed bitmap for bars, and the
\* widgets that are registered.
Registered(chars, char0, fixed, widgets) == [chars |-> chars, char0 |-> char0, fixed |-> fixed, widgets |-> widgets]
All == {"text", "icon", "bar"}
Block(c) == IF c.asc255bug THEN {Space} ELSE {Space, 255}

drv_AST_init(c) == Registered(8, 0, Block(c), All)
drv_BW_init(c) == Registered(8, 0, Block(c), All)
drv_IRLCD_init(c) == Registered(8, 0, Block(c), All)
drv_L2U_init(c) == Registered(8, 0, Block(c), All \union {"keypad"})
drv_LT_init(c) == Registered(8, 0, Block(c), All)
drv_MI_init(c) == Registered(8, 0, Block(c), All)
drv_Pertelian_init(c) == Registered(8, 0, {Space}, All)
drv_RB_init(c) == Registered(8, 0, Block(c), All \union {"gpo"})
drv_HD_init(c) == Registered(8, 0, Block(c), All \union {"gpo", "keypad"})
drv_UL_init(c) == Registered(8, 0, Block(c), All)
drv_TF_init(c) == Registered(8, 1, Block(c), All)
drv_FW8888_init(c) == Registered(0, 0, {}, {"text"})
drv_M5_init(c) == Registered((256 - c.ddram) \div 8, 248, {Space}, All \union {"gpo"})
drv_ula200_init(c) == Registered(7, 1, {Space}, All)
drv_MO_init(c) == Registered(8, 0, Block(c), All \union {"gpo"})
drv_CF_init(c) == Registered(8, IF c.protocol = 1 THEN 128 ELSE 0, Block(c), All \union {"gpo", "keypad"})
drv_CW_init(c) == Registered(IF c.cols > 16 THEN 16 ELSE 8, 1, {Space}, All \union {"gpo", "keypad"})
drv_BuE_init(c) == Registered(8, IF c.protocol = 1 THEN 0 ELSE 128, Block(c), All)
drv_Newhaven_init(c) == Registered(8, 0, {Space}, All)
drv_Noritake_init(c) == Registered(0, 0, {}, {"text"})
drv_PHAnderson_init(c) == Registered(8, 0, {Space}, All)
drv_SL_init(c) == Registered(0, 0, {}, {"text"})
drv_WN_init(c) == Registered(0, 0, {Space, c.barchar}, {"text", "bar"})
drv_pL_init(c) == Registered(8, 0, {Space}, All \union {"gpo"})
drv_LL_init(c) == Registered(8, 0, Block(c), All)
drv_LW_ABP_init(c) == Registered(0, 0, {Space}, {"text", "bar", "keypad"})
drv_EFN_init(c) == Registered(0, 0, {}, {"text"})
drv_FutabaVFD_init(c) == Registered(0, 0, {95, 127}, All)
drv_ShuttleVFD_init(c) == Registered(0, 0, {}, {"text", "gpo"})
drv_Curs_init(c) == Registered(0, 0, {Space, 42}, {"text", "bar", "keypad"})
drv_Sample_init(c) == Registered(8, 0, {Space}, All \union {"gpo"})
drv_init(c) ==
    CASE c.driver = "ASTUSB" -> drv_AST_init(c) [] c.driver = "BWCT" -> drv_BW_init(c) [] c.driver = "IRLCD" -> drv_IRLCD_init(c)
      [] c.driver = "LCD2USB" -> drv_L2U_init(c) [] c.driver = "LCDTerm" -> drv_LT_init(c)
      [] c.driver = "MilfordInstruments" -> drv_MI_init(c) [] c.driver = "Pertelian" -> drv_Pertelian_init(c)
      [] c.driver = "RouterBoard" -> drv_RB_init(c) [] c.driver = "HD44780" -> drv_HD_init(c)
      [] c.driver = "USBLCD" -> drv_UL_init(c) [] c.driver = "Trefon" -> drv_TF_init(c)
      [] c.driver = "FW8888" -> drv_FW8888_init(c) [] c.driver = "M50530" -> drv_M5_init(c)
      [] c.driver = "ula200" -> drv_ula200_init(c) [] c.driver = "MatrixOrbital" -> drv_MO_init(c)
      [] c.driver = "Crystalfontz" -> drv_CF_init(c) [] c.driver = "Cwlinux" -> drv_CW_init(c)
      [] c.driver = "BeckmannEgle" -> drv_BuE_init(c) [] c.driver = "Newhaven" -> drv_Newhaven_init(c)
      [] c.driver = "Noritake" -> drv_Noritake_init(c) [] c.driver = "PHAnderson" -> drv_PHAnderson_init(c)
      [] c.driver = "SimpleLCD" -> drv_SL_init(c) [] c.driver = "WincorNixdorf" -> drv_WN_init(c)
      [] c.driver = "picoLCD" -> drv_pL_init(c) [] c.driver = "LCDLinux" -> drv_LL_init(c)
      [] c.driver = "LW_ABP" -> drv_LW_ABP_init(c) [] c.driver = "EFN" -> drv_EFN_init(c)
      [] c.driver = "FutabaVFD" -> drv_FutabaVFD_init(c) [] c.driver = "ShuttleVFD" -> drv_ShuttleVFD_init(c)
      [] c.driver = "Curses" -> drv_Curs_init(c) [] c.driver = "Sample" -> drv_Sample_init(c)

-----------------------------------------------------------------------------
drv_start(c, s) ==
    CASE c.driver = "ASTUSB" -> drv_AST_start(c, s) [] c.driver = "BWCT" -> drv_BW_start(c, s)
      [] c.driver = "IRLCD" -> drv_IRLCD_start(c, s) [] c.driver = "LCD2USB" -> drv_L2U_start(c, s)
      [] c.driver = "LCDTerm" -> drv_LT_start(c, s) [] c.driver = "MilfordInstruments" -> drv_MI_start(c, s)
      [] c.driver = "Pertelian" -> drv_Pertelian_start(c, s) [] c.driver = "RouterBoard" -> drv_RB_start(c, s)
      [] c.driver = "HD44780" -> drv_HD_start(c, s) [] c.driver = "USBLCD" -> drv_UL_start(c, s)
      [] c.driver = "Trefon" -> drv_TF_start(c, s) [] c.driver = "FW8888" -> drv_FW8888_start(c, s)
      [] c.driver = "M50530" -> drv_M5_start(c, s) [] c.driver = "ula200" -> drv_ula200_start(c, s)
      [] c.driver = "MatrixOrbital" -> drv_MO_start(c, s) [] c.driver = "Crystalfontz" -> drv_CF_start(c, s)
      [] c.driver = "Cwlinux" -> drv_CW_start(c, s) [] c.driver = "BeckmannEgle" -> drv_BuE_start(c, s)
      [] c.driver = "Newhaven" -> drv_Newhaven_start(c, s) [] c.driver = "Noritake" -> drv_GU311_start(c, s)
      [] c.driver = "PHAnderson" -> drv_PHAnderson_start(c, s) [] c.driver = "SimpleLCD" -> drv_SL_start(c, s)
      [] c.driver = "WincorNixdorf" -> drv_WN_start(c, s) [] c.driver = "picoLCD" -> drv_pL_start(c, s)
      [] c.driver = "LCDLinux" -> drv_LL_start(c, s) [] c.driver = "LW_ABP" -> drv_LW_ABP_start(c, s)
      [] c.driver = "EFN" -> drv_EFN_start(c, s) [] c.driver = "FutabaVFD" -> drv_FutabaVFD_start(c, s)
      [] c.driver = "ShuttleVFD" -> drv_ShuttleVFD_start(c, s) [] c.driver = "Curses" -> drv_Curs_start(c, s)
      [] c.driver = "Sample" -> drv_Sample_start(c, s)

drv_clear(c, s) ==
    CASE c.driver = "ASTUSB" -> drv_AST_clear(c, s) [] c.driver = "BWCT" -> drv_BW_clear(c, s)
      [] c.driver = "IRLCD" -> drv_IRLCD_clear(c, s) [] c.driver = "LCD2USB" -> drv_L2U_clear(c, s)
      [] c.driver = "LCDTerm" -> drv_LT_clear(c, s) [] c.driver = "MilfordInstruments" -> drv_MI_clear(c, s)
      [] c.driver = "Pertelian" -> drv_Pertelian_clear(c, s) [] c.driver = "RouterBoard" -> drv_RB_clear(c, s)
      [] c.driver = "HD44780" -> drv_HD_clear(c, s) [] c.driver = "USBLCD" -> drv_UL_clear(c, s)
      [] c.driver = "Trefon" -> drv_TF_clear(c, s) [] c.driver = "FW8888" -> drv_FW8888_clear(c, s)
      [] c.driver = "M50530" -> drv_M5_clear(c, s) [] c.driver = "ula200" -> drv_ula200_clear(c, s)
      [] c.driver = "MatrixOrbital" -> drv_MO_clear(c, s) [] c.driver = "Crystalfontz" -> drv_CF_clear(c, s)
      [] c.driver = "Cwlinux" -> drv_CW_clear(c, s) [] c.driver = "BeckmannEgle" -> drv_BuE_clear(c, s)
      [] c.driver = "Newhaven" -> drv_Newhaven_clear(c, s) [] c.driver = "Noritake" -> drv_GU311_clear(c, s)
      [] c.driver = "PHAnderson" -> drv_PHAnderson_clear(c, s) [] c.driver = "SimpleLCD" -> drv_SL_clear(c, s)
      [] c.driver = "WincorNixdorf" -> drv_WN_clear(c, s) [] c.driver = "picoLCD" -> drv_pL_clear(c, s)
      [] c.driver = "LCDLinux" -> drv_LL_clear(c, s) [] c.driver = "LW_ABP" -> drv_LW_ABP_clear(c, s)
      [] c.driver = "EFN" -> drv_EFN_clear(c, s) [] c.driver = "FutabaVFD" -> drv_FutabaVFD_clear(c, s)
      [] c.driver = "ShuttleVFD" -> drv_ShuttleVFD_clear(c, s) [] c.driver = "Curses" -> drv_Curs_clear(c, s)
      [] c.driver = "Sample" -> drv_Sample_clear(c, s)

\* drv_generic_text_real_write()
real_write(c, s, row, col, data) ==
    CASE c.driver = "ASTUSB" -> drv_AST_write(c, s, row, col, data) [] c.driver = "BWCT" -> drv_BW_write(c, s, row, col, data)
      [] c.driver = "IRLCD" -> drv_IRLCD_write(c, s, row, col, data) [] c.driver = "LCD2USB" -> drv_L2U_write(c, s, row, col, data)
      [] c.driver = "LCDTerm" -> drv_LT_write(c, s, row, col, data)
      [] c.driver = "MilfordInstruments" -> drv_MI_write(c, s, row, col, data)
      [] c.driver = "Pertelian" -> drv_Pertelian_write(c, s, row, col, data)
      [] c.driver = "RouterBoard" -> drv_RB_write(c, s, row, col, data) [] c.driver = "HD44780" -> drv_HD_write(c, s, row, col, data)
      [] c.driver = "USBLCD" -> drv_UL_write(c, s, row, col, data) [] c.driver = "Trefon" -> drv_TF_write(c, s, row, col, data)
      [] c.driver = "FW8888" -> drv_FW8888_write(c, s, row, col, data) [] c.driver = "M50530" -> drv_M5_write(c, s, row, col, data)
      [] c.driver = "ula200" -> drv_ula200_write(c, s, row, col, data)
      [] c.driver = "MatrixOrbital" -> drv_MO_write(c, s, row, col, data)
      [] c.driver = "Crystalfontz" /\ c.protocol = 1 -> drv_CF_write1(c, s, row, col, data)
      [] c.driver = "Crystalfontz" /\ c.protocol = 2 -> drv_CF_write2(c, s, row, col, data)
      [] c.driver = "Crystalfontz" /\ c.protocol = 3 -> drv_CF_write3(c, s, row, col, data)
      [] c.driver = "Cwlinux" -> drv_CW_write(c, s, row, col, data)
      [] c.driver = "BeckmannEgle" /\ c.protocol = 1 -> drv_BuE_MT_write(c, s, row, col, data)
      [] c.driver = "BeckmannEgle" /\ c.protocol = 2 -> drv_BuE_CT_write(c, s, row, col, data)
      [] c.driver = "Newhaven" -> drv_Newhaven_write(c, s, row, col, data)
      [] c.driver = "Noritake" -> drv_GU311_write(c, s, row, col, data)
      [] c.driver = "PHAnderson" -> drv_PHAnderson_write(c, s, row, col, data)
      [] c.driver = "SimpleLCD" /\ c.vt100 -> drv_SL_vt100_write(c, s, row, col, data)
      [] c.driver = "SimpleLCD" /\ ~c.vt100 -> drv_SL_simple_write(c, s, row, col, data)
      [] c.driver = "WincorNixdorf" -> drv_WN_write(c, s, row, col, data) [] c.driver = "picoLCD" -> drv_pL_write(c, s, row, col, data)
      [] c.driver = "LCDLinux" -> drv_LL_write(c, s, row, col, data) [] c.driver = "LW_ABP" -> drv_LW_ABP_write(c, s, row, col, data)
      [] c.driver = "EFN" -> drv_EFN_write(c, s, row, col, data) [] c.driver = "FutabaVFD" -> drv_FutabaVFD_write(c, s, row, col, data)
      [] c.driver = "ShuttleVFD" -> drv_ShuttleVFD_write(c, s, row, col, data) [] c.driver = "Curses" -> drv_Curs_write(c, s, row, col, data)
      [] c.driver = "Sample" -> drv_Sample_write(c, s, row, col, data)

\* drv_generic_text_real_defchar()
real_defchar(c, s, ascii, matrix) ==
    CASE c.driver = "ASTUSB" -> drv_AST_defchar(c, s, ascii, matrix) [] c.driver = "BWCT" -> drv_BW_defchar(c, s, ascii, matrix)
      [] c.driver = "IRLCD" -> drv_IRLCD_defchar(c, s, ascii, matrix) [] c.driver = "LCD2USB" -> drv_L2U_defchar(c, s, ascii, matrix)
      [] c.driver = "LCDTerm" -> drv_LT_defchar(c, s, ascii, matrix)
      [] c.driver = "MilfordInstruments" -> drv_MI_defchar(c, s, ascii, matrix)
      [] c.driver = "Pertelian" -> drv_Pertelian_defchar(c, s, ascii, matrix)
      [] c.driver = "RouterBoard" -> drv_RB_defchar(c, s, ascii, matrix) [] c.driver = "HD44780" -> drv_HD_defchar(c, s, ascii, matrix)
      [] c.driver = "USBLCD" -> drv_UL_defchar(c, s, ascii, matrix) [] c.driver = "Trefon" -> drv_TF_defchar(c, s, ascii, matrix)
      [] c.driver = "M50530" -> drv_M5_defchar(c, s, ascii, matrix) [] c.driver = "ula200" -> drv_ula200_defchar(c, s, ascii, matrix)
      [] c.driver = "MatrixOrbital" -> drv_MO_defchar(c, s, ascii, matrix)
      [] c.driver = "Crystalfontz" /\ c.protocol = 1 -> drv_CF_defchar1(c, s, ascii, matrix)
      [] c.driver = "Crystalfontz" /\ c.protocol \in 2 .. 3 -> drv_CF_defchar23(c, s, ascii, matrix)
      [] c.driver = "Cwlinux" /\ c.cols <= 16 -> drv_CW1602_defchar(c, s, ascii, matrix)
      [] c.driver = "Cwlinux" /\ c.cols > 16 -> drv_CW12232_defchar(c, s, ascii, matrix)
      [] c.driver = "BeckmannEgle" /\ c.protocol = 1 -> drv_BuE_MT_defchar(c, s, ascii, matrix)
      [] c.driver = "BeckmannEgle" /\ c.protocol = 2 -> drv_BuE_CT_defchar(c, s, ascii, matrix)
      [] c.driver = "Newhaven" -> drv_Newhaven_defchar(c, s, ascii, matrix)
      [] c.driver = "PHAnderson" -> drv_PHAnderson_defchar(c, s, ascii, matrix)
      [] c.driver = "picoLCD" -> drv_pL_defchar(c, s, ascii, matrix) [] c.driver = "LCDLinux" -> drv_LL_defchar(c, s, ascii, matrix)
      [] c.driver = "Sample" -> drv_Sample_defchar(c, s, ascii, matrix)

\* The plugins of a driver: LCD::contrast() and the like.
plugin(c, s, name, v) ==
    CASE c.driver = "ASTUSB" -> drv_AST_LCD_BL(s, v) [] c.driver = "BWCT" -> drv_BW_contrast(s, v)
      [] c.driver = "LCD2USB" /\ name = "contrast" -> drv_L2U_contrast(s, v)
      [] c.driver = "LCD2USB" /\ name = "brightness" -> drv_L2U_brightness(s, v)
      [] c.driver = "Pertelian" -> drv_Pertelian_backlight(s, v) [] c.driver = "RouterBoard" -> drv_RB_backlight(s, v)
      [] c.driver = "HD44780" /\ name = "backlight" -> drv_HD_backlight(s, v)
      [] c.driver = "HD44780" /\ name = "brightness" -> drv_HD_brightness(s, v)
      [] c.driver = "Trefon" -> drv_TF_backlight(s, v) [] c.driver = "ula200" -> drv_ula200_backlight(s, v)
      [] c.driver = "MatrixOrbital" /\ name = "contrast" -> drv_MO_contrast(s, v)
      [] c.driver = "MatrixOrbital" /\ name = "backlight" -> drv_MO_backlight(s, v)
      [] c.driver = "Crystalfontz" /\ name = "contrast" -> drv_CF_contrast(c, s, v)
      [] c.driver = "Crystalfontz" /\ name = "backlight" -> drv_CF_backlight(c, s, v)
      [] c.driver = "Cwlinux" -> drv_CW_brightness(s, v)
      [] c.driver = "BeckmannEgle" /\ name = "contrast" -> drv_BuE_CT_contrast(s, v)
      [] c.driver = "BeckmannEgle" /\ name = "backlight" -> drv_BuE_CT_backlight(s, v)
      [] c.driver = "BeckmannEgle" /\ name = "pwm" -> drv_BuE_CT_pwm(s, v)
      [] c.driver = "Newhaven" /\ name = "contrast" -> drv_Newhaven_contrast(s, v)
      [] c.driver = "Newhaven" /\ name = "brightness" -> drv_Newhaven_brightness(s, v)
      [] c.driver = "PHAnderson" -> drv_PHAnderson_blacklight(s, v)
      [] c.driver = "picoLCD" /\ name = "contrast" -> drv_pL_contrast(s, v)
      [] c.driver = "picoLCD" /\ name = "backlight" -> drv_pL_backlight(s, v)
      [] c.driver = "LW_ABP" -> drv_LW_ABP_background(c, s, v) [] c.driver = "FutabaVFD" -> drv_FutabaVFD_brightness(s, v)
      [] c.driver = "Sample" -> drv_Sample_contrast(s, v)

\* drv_generic_gpio_real_set(), and the plugin of BeckmannEgle for its outputs
real_set(c, s, num, val) ==
    CASE c.driver = "RouterBoard" -> drv_RB_GPO(s, num, val) [] c.driver = "HD44780" -> drv_HD_GPO(s, num, val)
      [] c.driver = "M50530" -> drv_M5_GPO(s, num, val) [] c.driver = "MatrixOrbital" -> drv_MO_GPO(c, s, num, val)
      [] c.driver = "Crystalfontz" -> drv_CF_GPO(c, s, num, val) [] c.driver = "picoLCD" -> drv_pL_gpo(s, num, val)
      [] c.driver = "BeckmannEgle" -> drv_BuE_CT_gpo(s, num, val) [] c.driver = "ShuttleVFD" -> drv_ShuttleVFD_icons_set(s, num, val)
      [] c.driver = "Sample" -> drv_Sample_GPO(s, num, val)

-----------------------------------------------------------------------------
(* drv_generic_text_greet(): the first two lines are the longest of their texts
   that fit, the others are left out when they do not. *)
Greeting(n) == [i \in 1 .. n |-> 97 + ((i + n) % 7)]
Fitting(lengths, cols) == CHOOSE n \in lengths : n <= cols /\ \A m \in lengths : m <= cols => m <= n
line1 == {7, 9, 13, 20, 24}
line2 == {19, 26}
\* The length of each line, 0 where nothing is written.
GreetLengths(c, msg1, msg2) ==
    LET best(lengths) == IF \E n \in lengths : n <= c.cols THEN Fitting(lengths, c.cols) ELSE 0
        fits(n) == IF n <= c.cols THEN n ELSE 0
    IN SubSeq(<<best(line1), best(line2), fits(msg1), fits(msg2)>>, 1, IF c.rows < 4 THEN c.rows ELSE 4)
drv_generic_text_greet(c, s, msg1, msg2) ==
    LET lengths == GreetLengths(c, msg1, msg2)
    IN Feed(LAMBDA t, row : IF lengths[row] = 0 THEN t
                                ELSE real_write(c, t, row - 1, (c.cols - lengths[row]) \div 2, Greeting(lengths[row])),
                s, [i \in DOMAIN lengths |-> i])
gpio_clear(c, s) == Feed(LAMBDA t, num : real_set(c, t, num, 0).s, s, [i \in 1 .. c.gpos |-> i - 1])

\* What the drivers do before they say goodbye.
drv_AST_quit(c, s) == drv_AST_clear(c, s)
drv_BW_quit(c, s) == drv_BW_clear(c, s)
drv_IRLCD_quit(c, s) == drv_IRLCD_clear(c, s)
drv_L2U_quit(c, s) == drv_L2U_clear(c, s)
drv_LT_quit(c, s) == drv_LT_clear(c, s)
drv_MI_quit(c, s) == drv_MI_clear(c, s)
drv_Pertelian_quit(c, s) == drv_Pertelian_clear(c, s)
drv_RB_quit(c, s) == drv_RB_clear(c, gpio_clear(c, s))
\* Mutant: the outputs stay on.
X_drv_HD_quit_Bug(c, s) == drv_HD_clear(c, s)
drv_HD_quit(c, s) == drv_HD_clear(c, gpio_clear(c, s))
\* Mutant: the display is not cleared.
X_drv_UL_quit_Bug(c, s) == s
drv_UL_quit(c, s) == drv_UL_clear(c, s)
drv_TF_quit(c, s) == drv_TF_clear(c, s)
drv_FW8888_quit(c, s) == drv_FW8888_clear(c, s)
drv_M5_quit(c, s) == drv_M5_clear(c, gpio_clear(c, s))
drv_ula200_quit(c, s) == drv_ula200_clear(c, drv_ula200_backlight(s, 0).s)
drv_MO_quit(c, s) == drv_MO_clear(c, gpio_clear(c, s))
drv_CF_quit(c, s) == drv_CF_clear(c, gpio_clear(c, s))
drv_CW_quit(c, s) == drv_CW_clear(c, gpio_clear(c, s))
drv_BuE_quit(c, s) == drv_BuE_clear(c, s)
drv_Newhaven_quit(c, s) == drv_Newhaven_clear(c, s)
drv_Noritake_quit(c, s) == drv_GU311_clear(c, s)
drv_PHAnderson_quit(c, s) == drv_PHAnderson_clear(c, s)
drv_SL_quit(c, s) == drv_SL_clear(c, s)
drv_WN_quit(c, s) == drv_WN_clear(c, s)
drv_pL_quit(c, s) == drv_pL_clear(c, s)
drv_LL_quit(c, s) == drv_LL_clear(c, s)
drv_LW_ABP_quit(c, s) == drv_LW_ABP_clear(c, s)
drv_EFN_quit(c, s) == drv_EFN_clear(c, s)
drv_FutabaVFD_quit(c, s) == drv_FutabaVFD_clear(c, s)
drv_ShuttleVFD_quit(c, s) == drv_ShuttleVFD_clear(c, s)
drv_Curs_quit(c, s) == drv_Curs_clear(c, s)
drv_Sample_quit(c, s) == drv_Sample_clear(c, gpio_clear(c, s))
before_goodbye(c, s) ==
    CASE c.driver = "ASTUSB" -> drv_AST_quit(c, s) [] c.driver = "BWCT" -> drv_BW_quit(c, s)
      [] c.driver = "IRLCD" -> drv_IRLCD_quit(c, s) [] c.driver = "LCD2USB" -> drv_L2U_quit(c, s)
      [] c.driver = "LCDTerm" -> drv_LT_quit(c, s) [] c.driver = "MilfordInstruments" -> drv_MI_quit(c, s)
      [] c.driver = "Pertelian" -> drv_Pertelian_quit(c, s) [] c.driver = "RouterBoard" -> drv_RB_quit(c, s)
      [] c.driver = "HD44780" -> drv_HD_quit(c, s) [] c.driver = "USBLCD" -> drv_UL_quit(c, s)
      [] c.driver = "Trefon" -> drv_TF_quit(c, s) [] c.driver = "FW8888" -> drv_FW8888_quit(c, s)
      [] c.driver = "M50530" -> drv_M5_quit(c, s) [] c.driver = "ula200" -> drv_ula200_quit(c, s)
      [] c.driver = "MatrixOrbital" -> drv_MO_quit(c, s) [] c.driver = "Crystalfontz" -> drv_CF_quit(c, s)
      [] c.driver = "Cwlinux" -> drv_CW_quit(c, s) [] c.driver = "BeckmannEgle" -> drv_BuE_quit(c, s)
      [] c.driver = "Newhaven" -> drv_Newhaven_quit(c, s) [] c.driver = "Noritake" -> drv_Noritake_quit(c, s)
      [] c.driver = "PHAnderson" -> drv_PHAnderson_quit(c, s) [] c.driver = "SimpleLCD" -> drv_SL_quit(c, s)
      [] c.driver = "WincorNixdorf" -> drv_WN_quit(c, s) [] c.driver = "picoLCD" -> drv_pL_quit(c, s)
      [] c.driver = "LCDLinux" -> drv_LL_quit(c, s) [] c.driver = "LW_ABP" -> drv_LW_ABP_quit(c, s)
      [] c.driver = "EFN" -> drv_EFN_quit(c, s) [] c.driver = "FutabaVFD" -> drv_FutabaVFD_quit(c, s)
      [] c.driver = "ShuttleVFD" -> drv_ShuttleVFD_quit(c, s) [] c.driver = "Curses" -> drv_Curs_quit(c, s)
      [] c.driver = "Sample" -> drv_Sample_quit(c, s)

\* A switching time of LW_ABP that is still to come is shown instead of the goodbye.
goodbye(c, s) ==
    CASE c.driver = "LW_ABP" /\ c.scheduled ->
            Feed(LAMBDA t, row : drv_LW_ABP_write(c, t, row, 0, Greeting(16)), s, [i \in 1 .. 3 |-> i - 1])
      [] c.quiet /\ ~(c.driver = "LW_ABP" /\ c.scheduled) -> s
      [] OTHER -> drv_generic_text_greet(c, s, 8, 0)
\* What follows it: the light goes out, and what is still in a queue is lost.
after_goodbye(c, s) ==
    CASE c.driver = "ASTUSB" -> drv_AST_LCD_BL(s, 0).s
      [] c.driver = "Pertelian" -> drv_Pertelian_backlight(s, 0).s
      [] c.driver = "LCD2USB" -> [s EXCEPT !.own = Empty]
      [] c.driver = "ShuttleVFD" -> gpio_clear(c, s)
      [] OTHER -> s
\* The whole of quit, until the display is closed.
drv_quit(c, s) == after_goodbye(c, goodbye(c, before_goodbye(c, s)))
=============================================================================
