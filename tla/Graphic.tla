------------------------------ MODULE Graphic ------------------------------
(* A graphic display at work: the widgets of a layout are drawn in any order
   and with any of their contents, the driver sends what changed, its timer
   runs, and other settings of the same display are changed in between. *)
EXTENDS GraphicDrivers

CONSTANTS
    Scenes,         \* name -> the widgets of a layout, each with its contents
    Cases           \* the combinations of driver, options and scene

VARIABLES
    case,       \* driver, options and scene
    phase,      \* "start", "greeting" until that is removed, then "running"
    cv,         \* the canvas
    seen,       \* the colours of its pixels, as drv_generic_graphic_rgb() blends them
    d,          \* buffers of the driver, and its display
    painted,    \* pixels that were sent since the display was cleared
    stale,      \* pixels that changed outside the areas that were sent
    last,       \* the content each widget was drawn with last
    told        \* the symbols that were set last

Colours == [v : 0 .. MaxV, a : 0 .. MaxV]
Drivers == Mono \union Colour

\* What the layout gives a widget of each class, and what it can hold.  Rows and
\* columns of a layout count from 1 (the code takes 1 off, and checks nothing);
\* the size of a picture is that of its file, a diameter is at least 20.
WidgetOK(W) ==
    /\ W.class \in {"text", "icon", "bar", "image", "graph", "arc", "ring"}
    /\ W.rc \in BOOLEAN /\ {W.row, W.col} \subseteq Nat /\ W.layer \in 0 .. LAYERS - 1
    /\ {W.fg, W.bg} \subseteq Colours
    /\ W.class = "bar" => /\ W.dir \in {"east", "west", "north", "south"} /\ W.len \in Nat
                          /\ W.hollow \in BOOLEAN /\ W.bar \in [1 .. 2 -> Colours]
    /\ W.class = "image" => {W.height, W.width} \subseteq Nat \ {0}
    /\ W.class = "graph" => /\ {W.height, W.width, W.grid, W.points, W.size, W.more} \subseteq Nat
                            /\ {W.gridcolour, W.textcolour} \subseteq Colours
    /\ W.class = "arc" => W.diameter \in Nat \ {0, 1} /\ {W.thickness, W.needle, W.thick} \subseteq Nat
    /\ W.class = "ring" => {W.diameter, W.thickness, W.margin, W.start} \subseteq Nat
ContentOK(W, content) ==
    CASE W.class = "text" -> content \in Seq(STRING)
      [] W.class = "bar" -> content \in Seq(Int) /\ Len(content) = 2
      [] W.class = "image" -> content = <<>> \/ content \in [0 .. W.height - 1 -> [0 .. W.width - 1 -> Colours]]
      [] W.class \in {"arc", "ring"} -> content \in Int
      [] OTHER -> TRUE

\* What the options of a driver can be.  Bytes do not cross the edge of a display
\* that has such bytes; the columns of a symbol follow each other, and no symbol
\* begins where one ends.
OptionsOK(c) ==
    /\ c.driver \in Drivers /\ c.scene \in DOMAIN Scenes
    /\ c.inverted \in BOOLEAN /\ c.greeting \in Seq(STRING)
    /\ c.driver = "EA232graphic" => c.protocol \in 1 .. 4
    /\ c.driver = "MatrixOrbitalGX" => c.invert \in BOOLEAN /\ (DROWS * DCOLS) % Byte = 0
    /\ c.driver = "GLCD2USB" => DROWS % Byte = 0
    /\ c.driver = "T6963" => c.dual \in BOOLEAN /\ DCOLS % CELL = 0
    /\ c.driver = "picoLCDGraphic" => c.update \in Int
    /\ c.driver = "LPH7508" =>
        /\ c.symbols \in Seq(Seq(Nat))
        /\ \A i \in DOMAIN c.symbols : LET num == c.symbols[i] IN
            /\ Len(num) \in 1 .. 4 /\ \A k \in DOMAIN num : num[k] = num[1] + k - 1
            /\ \A j \in DOMAIN c.symbols : c.symbols[j][1] # num[1] + Len(num)

ASSUME SceneAssumption ==
    /\ \A s \in DOMAIN Scenes : \A i \in DOMAIN Scenes[s] :
        WidgetOK(Scenes[s][i].widget) /\ \A c \in Scenes[s][i].contents : ContentOK(Scenes[s][i].widget, c)
    /\ \A c \in Cases : OptionsOK(c)

vars == <<case, phase, cv, seen, d, painted, stale, last, told>>

Driver == case.driver
Widgets == Scenes[case.scene]
Started(c) ==
    CASE c.driver = "LUIse" -> drv_LUIse_start(c)
      [] c.driver = "D4D" -> drv_D4D_start(c)
      [] c.driver = "serdisplib" -> drv_SD_start(c)
      [] c.driver = "EA232graphic" -> drv_EA232graphic_start(c)
      [] c.driver = "G15" -> drv_G15_start(c)
      [] c.driver = "MatrixOrbitalGX" -> drv_MOGX_start(c)
      [] c.driver = "st2205" -> drv_st2205_start2(c)
      [] c.driver = "PICGraphic" -> drv_PICGraphic_start2(c)
      [] c.driver = "LEDMatrix" -> drv_LEDMatrix_start(c)
      [] c.driver = "T6963" -> drv_T6_start(c)
      [] c.driver = "LPH7508" -> drv_L7_start(c)
      [] c.driver = "GLCD2USB" -> drv_GLCD2USB_start(c)
      [] c.driver = "dpf" -> drv_dpf_start(c)
      [] c.driver = "mdm166a" -> drv_MDM166A_start(c)
      [] c.driver = "SamsungSPF" -> drv_SamsungSPF_start(c)
      [] c.driver = "Image" -> drv_IMG_start(c)
      [] c.driver = "picoLCDGraphic" -> drv_pLG_start(c)
      [] c.driver = "X11" -> drv_X11_start(c)
      [] c.driver = "vnc" -> drv_vnc_start(c)

\* drv_generic_graphic_real_blit: the function of the driver.  img is what
\* drv_generic_graphic_rgb() tells it.
RealBlit(e, img, W) ==
    CASE Driver = "LUIse" -> {drv_LUIse_blit(e, img, W)}
      [] Driver = "D4D" -> {drv_D4D_blit(e, img, W)}
      [] Driver = "serdisplib" -> {drv_SD_blit(e, img, W)}
      [] Driver = "EA232graphic" -> {drv_EA232graphic_blit(e, img, W)}
      [] Driver = "G15" -> {drv_G15_blit(e, img, W)}
      [] Driver = "MatrixOrbitalGX" -> {drv_MOGX_blit(e, img, W)}
      [] Driver = "st2205" -> {drv_st2205_blit(e, img, W)}
      [] Driver = "PICGraphic" -> {drv_PICGraphic_blit(e, img, W)}
      [] Driver = "LEDMatrix" -> drv_LEDMatrix_blit(e, img, W)
      [] Driver = "T6963" -> {drv_T6_blit(e, img, W)}
      [] Driver = "LPH7508" -> {drv_L7_blit(e, img, W)}
      [] Driver = "GLCD2USB" -> {drv_GLCD2USB_blit(e, img, W)}
      [] Driver = "dpf" -> {drv_dpf_blit(e, img, W)}
      [] Driver = "mdm166a" -> {drv_MDM166A_blit(e, img, W)}
      [] Driver = "SamsungSPF" -> {drv_SamsungSPF_blit(e, img, W)}
      [] Driver = "Image" -> {drv_IMG_blit(e, img, W)}
      [] Driver = "picoLCDGraphic" -> {drv_pLG_blit(e, img, W)}
      [] Driver = "X11" -> {drv_X11_blit(e, img, W)}
      [] Driver = "vnc" -> {drv_vnc_blit(e, img, W)}

Image(c) == rgb(c, case.inverted)

\* A painted canvas is sent: drv_generic_graphic_blit() at the end of each draw.
Sent(win) ==
    LET area == IF Visible(win) THEN Win(win) ELSE {}
    IN /\ d' \in IF area = {} THEN {d} ELSE RealBlit(d, seen', win)
       /\ painted' = painted \union area
       /\ stale' = (stale \union {p \in Screen : seen'[p] # seen[p]}) \ area
Shown(out) == cv' = out.cv /\ seen' = Image(cv') /\ Sent(out.win)

ClearsItself == {"mdm166a", "picoLCDGraphic"}
Greeting == [class |-> "text", rc |-> TRUE, row |-> 0, col |-> 0, layer |-> 0, bold |-> FALSE,
             fg |-> FG_COL, bg |-> BG_COL]

Init ==
    /\ case \in Cases
    /\ phase = "start"
    /\ cv = Blank(DROWS, DCOLS)
    /\ seen = Image(cv)
    /\ d = Started(case)
    /\ painted = {} /\ stale = {}
    /\ last = [i \in DOMAIN Widgets |-> <<>>]
    /\ told = IF Driver = "LPH7508" THEN d.ctl.symbols ELSE <<>>

\* The greeting, on the lines it fits; "quiet" and three drivers leave it out.
Greet ==
    /\ phase = "start" /\ Driver \notin {"GLCD2USB", "Image", "LEDMatrix"}
    /\ phase' = "greeting"
    /\ Shown(render(cv, Greeting, case.greeting))
    /\ UNCHANGED <<case, last, told>>

\* The canvas is cleared and sent: after the greeting, and by X11 at its start.
Clear ==
    /\ phase = "greeting" \/ (phase = "start" /\ Driver = "X11" /\ painted = {})
    /\ Driver \notin ClearsItself
    /\ phase' = IF phase = "greeting" THEN "running" ELSE phase
    /\ Shown(Painted(Blank(cv.rows, cv.cols), blit(0, 0, cv.rows, cv.cols)))
    /\ UNCHANGED <<case, last, told>>

\* Two drivers clear the display only, before the canvas is cleared without
\* being sent: their buffers keep the greeting.
ClearDisplay ==
    /\ phase = "greeting" /\ Driver \in ClearsItself
    /\ phase' = "running"
    /\ cv' = Blank(cv.rows, cv.cols) /\ seen' = Image(cv')
    /\ d' = IF Driver = "mdm166a" THEN drv_MDM166A_clear(d) ELSE drv_pLG_clear(d)
    /\ painted' = {} /\ stale' = {}
    /\ UNCHANGED <<case, last, told>>

Quiet ==
    /\ phase = "start" /\ (Driver = "X11" => painted # {})
    /\ phase' = "running"
    /\ UNCHANGED <<case, cv, seen, d, painted, stale, last, told>>

Draw ==
    /\ phase = "running"
    /\ \E i \in DOMAIN Widgets : \E content \in Widgets[i].contents :
        /\ Shown(DrawWidget(cv, Widgets[i].widget, content))
        /\ last' = [last EXCEPT ![i] = <<content>>]
    /\ UNCHANGED <<case, phase, told>>

\* The timers of the drivers; the main loop serves them after the start.
Flushed ==
    CASE Driver = "mdm166a" -> drv_MDM166A_Flush(d)
      [] Driver = "SamsungSPF" -> drv_SamsungSPF_timer(d)
      [] Driver = "Image" -> drv_IMG_timer(d)
      [] Driver = "picoLCDGraphic" -> drv_pLG_update_img(d)
      [] Driver = "PICGraphic" -> drv_PICGraphic_delay(d)
      [] Driver = "X11" -> drv_X11_expose(d, seen)
      [] OTHER -> d
Timer ==
    /\ phase = "running" /\ Flushed # d
    /\ d' = Flushed
    /\ UNCHANGED <<case, phase, cv, seen, painted, stale, last, told>>

SetSymbol ==
    /\ phase = "running" /\ Driver = "LPH7508"
    /\ \E i \in DOMAIN case.symbols, val \in 0 .. 1 :
        /\ d' = drv_L7_GPO(d, case.symbols[i], val)
        /\ told' = [c \in Range(case.symbols[i]) |->
                     IF c = case.symbols[i][1] \/ Len(case.symbols[i]) = 1 THEN val ELSE 0] ++ told
    /\ UNCHANGED <<case, phase, cv, seen, painted, stale, last>>

SetBrightness ==
    /\ phase = "running" /\ Driver = "X11"
    /\ \E b \in {-2, -1, 1, MaxV + 1} : d' = drv_X11_brightness(d, seen, b)
    /\ painted' = IF d'.brightness = d.brightness THEN painted ELSE Screen
    /\ stale' = IF d'.brightness = d.brightness THEN stale ELSE {}
    /\ UNCHANGED <<case, phase, cv, seen, last, told>>

\* A click shows the keypad of vnc; it is switched off when its time is over.
SwitchKeypad ==
    /\ phase = "running" /\ Driver = "vnc"
    /\ d' = [d EXCEPT !.osd = ~@]
    /\ UNCHANGED <<case, phase, cv, seen, painted, stale, last, told>>

Next == Greet \/ Clear \/ ClearDisplay \/ Quiet \/ Draw \/ Timer \/ SetSymbol \/ SetBrightness \/ SwitchKeypad
Spec == Init /\ [][Next]_vars /\ WF_vars(Timer)

-----------------------------------------------------------------------------
GraphicTypeOK ==
    /\ phase \in {"start", "greeting", "running"}
    /\ cv.rows >= DROWS /\ cv.cols >= DCOLS
    /\ DOMAIN cv.fb = 0 .. LAYERS - 1
    /\ \A l \in DOMAIN cv.fb : cv.fb[l] \in [Rect(0, 0, cv.rows, cv.cols) -> [v : 0 .. MaxV, a : 0 .. MaxV]]
    /\ DOMAIN d.dev = Screen /\ DOMAIN d.buf = Screen
    /\ painted \subseteq Screen /\ stale \subseteq Screen

\* Nothing is waiting for a timer, for the next frame or for an answer.
AtRest ==
    CASE Driver \in {"mdm166a", "SamsungSPF", "Image", "picoLCDGraphic"} -> ~d.dirty
      [] Driver = "X11" -> d.exposed = {}
      [] Driver = "PICGraphic" -> ~d.late
      [] Driver = "LEDMatrix" -> ~d.lost
      [] OTHER -> TRUE

\* What a pixel of the display should show.
Wanted(p) ==
    LET v == seen[p] IN
    CASE Driver \in Mono -> IF black(v) THEN 1 ELSE 0
      [] Driver = "LEDMatrix" -> IF 2 * v >= MaxV THEN MaxV ELSE 0
      [] Driver = "X11" -> <<v, d.brightness>>
      [] OTHER -> v

RoundDrawn == {i \in DOMAIN Widgets : Widgets[i].widget.class \in {"arc", "ring"} /\ last[i] # <<>>}

\* The area a widget paints in a canvas of that many columns.
Footprint(W, cols) ==
    LET at == Home(W) IN
    CASE W.class = "text" -> Box(at, YRES, cols)
      [] W.class = "icon" -> Box(at, YRES, XRES)
      [] W.class = "bar" -> IF W.dir \in {"east", "west"} THEN Box(at, YRES, XRES * W.len)
                            ELSE Box(at, YRES * W.len, XRES)
      [] W.class = "image" -> Box(at, W.height, W.width)
      [] W.class = "graph" -> IF W.rc THEN Box(at, YRES * W.height, XRES * W.width) ELSE Box(at, W.height, W.width)
      [] OTHER -> LET centre == <<at[1] + W.diameter \div 2, at[2] + W.diameter \div 2>>
                  IN IF W.class = "arc"
                     THEN Box(<<at[1] - Half(W), at[2] - Half(W)>>, W.diameter + 2 * Half(W), W.diameter + 2 * Half(W))
                          \union Disc(centre, Dot(W))
                     ELSE Box(at, W.diameter, W.diameter) \union Disc(centre, W.diameter \div 2 + W.margin)

\* What the drivers do not show: the last row of the LPH7508, black pixels of
\* X11 after the window was cleared, what round widgets spill there (its timer
\* shows the canvas, which its buffer does not have), what the keypad of vnc
\* covered, and a
\* frame that was never sent because it is what the buffer held at the start.
Unshown ==
    CASE Driver = "LPH7508" -> {p \in Screen : p[1] = DROWS - 1}
      [] Driver = "X11" -> {p \in Screen : seen[p] = NO_COL.v}
            \union UNION {Footprint(Widgets[i].widget, cv.cols) : i \in RoundDrawn}
      [] Driver = "vnc" -> d.covered
      [] Driver = "SamsungSPF" /\ d.dev = Fill(Screen, Unknown) -> Screen
      [] OTHER -> {}

\* When nothing is under way the display shows the blended layers in every
\* pixel that was sent, whatever was drawn before and however the driver packs,
\* compares, joins or postpones what it sends.
DisplayShown ==
    AtRest => \A p \in painted \ (Unshown \union stale) : d.dev[p] = Wanted(p)

\* Skipping the layers behind the first opaque one makes no difference.
Composed(p) ==
    LET behind[k \in 0 .. LAYERS] ==
            IF k = 0 THEN BL_COL.v
            ELSE LET q == cv.fb[LAYERS - k][p] IN
                 IF q.a = MaxV THEN q.v ELSE (q.v * q.a + behind[k - 1] * (MaxV - q.a)) \div MaxV
    IN IF case.inverted THEN MaxV - behind[LAYERS] ELSE behind[LAYERS]
BlendIsComposition == \A p \in Screen : seen[p] = Composed(p)

\* Only round widgets change pixels that they do not send: the dot of a gauge
\* that is larger than the gauge, the width of its needle, and the margin that a ring clears.
OnlyRoundSpills ==
    stale # {} => RoundDrawn # {}

\* A draw changes pixels of its own widget only, on its own layer; the others
\* are kept when the canvas grows.
OthersKept ==
    [][phase = "running" => \A l \in DOMAIN cv.fb : \A p \in DOMAIN cv.fb[l] : cv'.fb[l][p] # cv.fb[l][p] =>
        \E i \in DOMAIN Widgets : Widgets[i].widget.layer = l /\ p \in Footprint(Widgets[i].widget, cv'.cols)]_vars
CanvasGrows == [][cv'.rows >= cv.rows /\ cv'.cols >= cv.cols
                  /\ \A l \in DOMAIN cv.fb : DOMAIN cv.fb[l] \subseteq DOMAIN cv'.fb[l]]_vars

\* A bar that is drawn has at least one and at most all of its pixels filled in
\* each half, and as many as its value says, unless another widget of its layer
\* overlaps it.
Alone(i) ==
    \A j \in DOMAIN Widgets \ {i} : Widgets[j].widget.layer = Widgets[i].widget.layer =>
        Footprint(Widgets[j].widget, cv.cols) \cap Footprint(Widgets[i].widget, cv.cols) = {}
Filled(W, k) ==
    LET across == W.dir \in {"east", "west"}
        depth == IF across THEN YRES ELSE XRES
        first(p) == (IF across THEN p[1] - Home(W)[1] ELSE p[2] - Home(W)[2]) < depth \div 2
    IN {p \in Footprint(W, cv.cols) : first(p) = (k = 1) /\ cv.fb[W.layer][p] = W.bar[k]}
BarsFilled ==
    \A i \in DOMAIN Widgets : LET W == Widgets[i].widget IN
        W.class = "bar" /\ W.len > 0 /\ ~W.hollow /\ last[i] # <<>> /\ Alone(i) =>
            LET across == W.dir \in {"east", "west"}
                max == W.len * (IF across THEN XRES ELSE YRES)
                depth == IF across THEN YRES ELSE XRES
            IN \A k \in 1 .. 2 : W.bar[k] # W.bg =>
                Cardinality(Filled(W, k)) = (IF k = 1 THEN depth \div 2 ELSE depth - depth \div 2)
                                            * Clamp(last[i][1][k], 1, max)

\* Each symbol of the LPH7508 shows what it was set to last, although a blit
\* moves the display to another page and column in between.
SymbolsShown == Driver = "LPH7508" => d.ctl.symbols = told

\* Once the greeting was removed with "clear display", what no widget painted
\* stays clear (the buffers of the two drivers still hold the greeting).
GreetingGone ==
    phase = "running" /\ Driver \in ClearsItself => \A p \in Screen \ painted : d.dev[p] = 0

\* What was painted is shown in the end: no driver keeps a change for ever.
\* (The PIC has to be sent another area, and the LED matrix may be deaf.)
FramesGoOut == []<>(phase # "running" \/ AtRest \/ Driver \in {"PICGraphic", "LEDMatrix"})

\* The display and its symbols show what was drawn and told.
DisplayRight == DisplayShown /\ SymbolsShown

\* Drawing: a widget paints its own pixels of its own layer, a bar as many as its
\* value says, and what is seen is the composition of the layers.
CanvasRight ==
    /\ [](GraphicTypeOK /\ BlendIsComposition /\ OnlyRoundSpills /\ BarsFilled)
    /\ OthersKept
    /\ CanvasGrows
=============================================================================
