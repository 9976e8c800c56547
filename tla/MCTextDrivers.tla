--------------------------- MODULE MCTextDrivers ---------------------------
(* Instance of TextDrivers: displays of each driver, with texts that touch the
   ends of lines and contain the codes that the protocols use themselves. *)
EXTENDS TextDrivers

Letters(n) == [i \in 1 .. n |-> 64 + (i % 26)]
Texts(rows, cols) ==
    {<<0, 0, Letters(cols)>>, <<0, 1, <<112, 113>>>>, <<rows - 1, 2, <<97, 98, 99, 100, 101>>>>,
     <<rows - 1, cols - 1, <<120>>>>, <<IF rows > 2 THEN 2 ELSE 0, cols - 3, <<48, 49, 50>>>>}
M1 == <<31, 17, 1, 0, 5, 10, 21, 2>>
M2 == <<1, 2, 3, 4, 5, 6, 7, 8>>
Bitmaps(char0) == {<<char0, M1>>, <<char0 + 1, M2>>, <<char0 + 1, M1>>}

\* The next n transfers are refused.
Refusing(n) == {<<"refused", 0, n>>}

\* A display with one controller, and no options.
Display(driver, kind, view, rows, cols) ==
    [driver |-> driver, kind |-> kind, view |-> view, controllers |-> 1, rows |-> rows, cols |-> cols, xres |-> 5,
     own |-> <<>>, cfg |-> <<>>, quiet |-> rows = 2, msgs |-> <<12, 16>>, writes |-> Texts(rows, cols), glyphs |-> {}, settings |-> {},
     gpos |-> 0, levels |-> {}, glitches |-> {}, protocol |-> 1, payload |-> 22, asc255bug |-> FALSE, barchar |-> 35,
     cgrom2 |-> FALSE, vt100 |-> FALSE, hd66712 |-> FALSE, scheduled |-> FALSE,
     crows |-> <<rows>>, ccols |-> <<cols>>, ddram |-> 160, duty |-> 2, colours |-> {}]
\* ... with glyphs from char0 on that its texts use, and settings.
Full(c, char0, settings) ==
    [c EXCEPT !.glyphs = Bitmaps(char0), !.settings = settings,
              !.writes = @ \union {<<0, 3, <<char0 + 1, char0, 75>>>>}]
Asked(name, values) == {<<name, v>> : v \in values}
Outputs(c, gpos, levels) == [c EXCEPT !.gpos = gpos, !.levels = levels]
Lit == [caps |-> {"backlight"}, lit |-> {}]
MOown(rows, cols) == [disp |-> [r \in 1 .. rows |-> Letters(cols)], contrast |-> 0, backlight |-> 0]
CFown == [line |-> [r \in 1 .. 2 |-> Letters(16)], contrast |-> 0, backlight |-> 0, pwm |-> <<0, 0, 0, 0>>]
BuEown == [contrast |-> 7, backlight |-> 0, pwm |-> -1, gpo |-> [i \in 1 .. 8 |-> -1]]
Small == {-5, 0, 1, 7}
Large == {-5, 30, 300}

HDCases ==
    {Full(Display("ASTUSB", "hd", "one", 2, 16), 0, Asked("backlight", Small)),
     Full([Display("ASTUSB", "hd", "one", 4, 20) EXCEPT !.cfg = [backlight |-> 1]], 0, {}),
     Full([Display("BWCT", "hd", "one", 4, 16) EXCEPT !.cfg = [contrast |-> 9]], 0, Asked("contrast", Large)),
     Full([Display("IRLCD", "hd", "one", 2, 16) EXCEPT !.glitches = Refusing(1)], 0, {}),
     Full([Display("LCD2USB", "hd", "one", 2, 20) EXCEPT !.own = Empty, !.glitches = Refusing(1) \union Refusing(2)], 0,
          Asked("contrast", Large) \union Asked("brightness", {300})),
     Full([Display("LCD2USB", "hd", "two", 4, 24) EXCEPT !.own = Empty, !.controllers = 2], 0, Asked("contrast", {30})),
     Outputs(Full([Display("RouterBoard", "hd", "one", 2, 16) EXCEPT !.own = [leds |-> {}, lit |-> {}]], 0,
                  Asked("backlight", {-1, 0, 1})), 2, {0, 1}),
     Full([Display("RouterBoard", "hd", "lines of 32", 4, 20) EXCEPT !.own = [leds |-> {}, lit |-> {}], !.hd66712 = TRUE,
                 !.cfg = [backlight |-> 0]], 0, {}),
     Outputs(Full([Display("HD44780", "hd", "one", 2, 16) EXCEPT !.own = Lit], 0, Asked("backlight", Small)), 2, {0, 1}),
     Full([Display("HD44780", "hd", "two", 4, 24) EXCEPT !.own = [Lit EXCEPT !.caps = {"brightness"}], !.crows = <<2, 2>>,
                 !.ccols = <<24, 24>>, !.controllers = 2], 0, Asked("brightness", Small)),
     [Full([Display("HD44780", "hd", "halves", 1, 16) EXCEPT !.own = Lit], 0, {})
        EXCEPT !.writes = {<<0, 0, Letters(8)>>, <<0, 8, <<97, 98, 99>>>>, <<0, 15, <<120, 121>>>>, <<0, 5, <<1, 0>>>>}],
     Full([Display("HD44780", "hd", "lines of 32", 4, 20) EXCEPT !.own = Lit, !.hd66712 = TRUE, !.cfg = [backlight |-> 1]], 0, {}),
     [Full(Display("USBLCD", "USBLCD", "one", 2, 20), 0, {}) EXCEPT !.writes = @ \union {<<0, 0, <<0, 1, 0, 0>>>>}],
     Full([Display("Trefon", "hd", "one", 2, 16) EXCEPT !.cfg = [backlight |-> 0]], 1, Asked("backlight", Small)),
     Full(Display("Trefon", "hd", "lines of 32", 4, 20), 7, {}),
     Outputs(Full([Display("M50530", "hd", "duty", 4, 20) EXCEPT !.own = [lit |-> {}]], 248, {}), 2, {0, 1}),
     Full([Display("M50530", "hd", "duty", 8, 20) EXCEPT !.own = [lit |-> {}]], 248, {}),
     Full([Display("ula200", "terminal", "terminal", 2, 16) EXCEPT
              !.glitches = Refusing(20) \union {<<kind, n, 1>> : kind \in {"lost", "unsent"}, n \in 0 .. 2}], 2, Asked("backlight", Small)),
     Full([Display("ula200", "terminal", "folded", 4, 20) EXCEPT !.cfg = [backlight |-> 1]], 4, {})}

SerialCases ==
    {Outputs(Full([Display("MatrixOrbital", "MatrixOrbital", "terminal", 2, 16) EXCEPT !.own = MOown(2, 16), !.protocol = 2,
                        !.glitches = Refusing(9)], 0, Asked("contrast", {-1, 300}) \union Asked("backlight", {-1, 0, 30})), 2, {0, 90, 255}),
     Full([Display("MatrixOrbital", "MatrixOrbital", "terminal", 4, 20) EXCEPT !.own = MOown(4, 20), !.cfg = [backlight |-> 9]], 0,
          Asked("backlight", {-1, 0, 300})),
     Full([Display("Crystalfontz", "Crystalfontz", "terminal", 2, 16) EXCEPT !.own = CFown, !.xres = 6, !.cfg = [contrast |-> 7]], 128,
          Asked("contrast", {-1, 30, 300})),
     [Display("Crystalfontz", "Crystalfontz", "terminal", 4, 20) EXCEPT !.own = CFown, !.cgrom2 = TRUE],
     Outputs(Full([Display("Crystalfontz", "packets", "terminal", 2, 16) EXCEPT !.own = CFown, !.xres = 6, !.protocol = 2], 0,
                  Asked("contrast", {-1, 300}) \union Asked("backlight", {50})), 4, {0, 50}),
     Outputs(Full([Display("Crystalfontz", "packets", "terminal", 4, 20) EXCEPT !.own = CFown, !.xres = 6, !.protocol = 3], 0,
                  Asked("contrast", {-1, 300})), 2, {0, 50, 200}),
     Full([Display("Cwlinux", "Cwlinux", "terminal", 2, 16) EXCEPT !.own = [brightness |-> 0], !.cfg = [brightness |-> 5]], 1,
          Asked("brightness", {-1, 0, 3, 300})),
     Full([Display("Cwlinux", "Cwlinux12232", "terminal", 4, 20) EXCEPT !.own = [brightness |-> 0], !.xres = 6], 1, {}),
     Full(Display("BeckmannEgle", "BeckmannMT", "terminal", 2, 16), 0, {}),
     Outputs(Full([Display("BeckmannEgle", "BeckmannCT", "terminal", 4, 20) EXCEPT !.own = BuEown, !.protocol = 2, !.glitches = Refusing(9),
                        !.cfg = [contrast |-> 9, backlight |-> 1]], 128,
                  Asked("contrast", {-1, 300}) \union Asked("backlight", {-1, 0}) \union Asked("pwm", {-1, 0, 300})), 2, {0, 300}),
     Full([Display("Newhaven", "Newhaven", "terminal", 4, 20) EXCEPT !.cfg = [contrast |-> 30]], 0,
          Asked("contrast", Large) \union Asked("brightness", {5})),
     Display("Noritake", "terminal", "terminal", 4, 22),
     Full([Display("PHAnderson", "PHAnderson", "terminal", 4, 20) EXCEPT !.cfg = [backlight |-> 100]], 0, Asked("backlight", Large)),
     [Display("SimpleLCD", "VT100", "terminal", 2, 16) EXCEPT !.vt100 = TRUE, !.writes = {w \in @ : (w[2] + 1) % 10 # 0}],
     [Display("SimpleLCD", "Lines", "terminal", 4, 16) EXCEPT !.own = [back |-> <<>>], !.glitches = Refusing(9)],
     [Display("WincorNixdorf", "VT100", "terminal", 2, 20) EXCEPT !.writes = {w \in @ : (w[2] + 1) % 10 # 0}],
     Outputs(Full([Display("picoLCD", "terminal", "terminal", 2, 20) EXCEPT !.own = [lit |-> {}], !.cfg = [contrast |-> 9]], 0,
                  Asked("contrast", Large) \union Asked("backlight", {0, 9})), 3, {0, 1}),
     Full([Display("LCDLinux", "terminal", "terminal", 2, 16) EXCEPT !.glitches = Refusing(9)], 0, {}),
     [Display("LW_ABP", "LW_ABP", "terminal", 4, 20) EXCEPT !.own = [background |-> 0], !.colours = {1, 2},
            !.settings = Asked("background", 0 .. 2), !.cfg = [background |-> 2], !.scheduled = TRUE],
     Display("EFN", "EFN", "terminal", 2, 6),
     [Display("FutabaVFD", "Futaba", "terminal", 2, 20) EXCEPT !.own = [pos |-> 0, dim |-> 0], !.settings = Asked("brightness", {-5, 2, 3, 9})],
     [Display("ShuttleVFD", "terminal", "terminal", 1, 20) EXCEPT !.own = [fb |-> <<>>, lit |-> {}]],
     [Display("Curses", "terminal", "terminal", 4, 20) EXCEPT !.writes = @ \union {<<1, 18, <<76, 77, 78, 79>>>>}],
     [Display("Sample", "Sample", "terminal", 2, 16) EXCEPT !.writes = {w \in @ : 66 \notin Range(w[3])}, !.glyphs = Bitmaps(0), !.settings = Asked("contrast", Large)],
     Full([Display("LCDTerm", "LCDTerm", "one", 2, 16) EXCEPT !.glitches = Refusing(9)], 0, {}),
     Full(Display("MilfordInstruments", "Milford", "one", 4, 20), 0, {}),
     Full([Display("Pertelian", "Pertelian", "one", 4, 20) EXCEPT !.cfg = [backlight |-> 1]], 0, Asked("backlight", {-5, 0, 1})),
     Display("FW8888", "FW8888", "one", 2, 16)}
MCCases == HDCases \union SerialCases
=============================================================================
