--------------------------- MODULE GraphicProofs ---------------------------
(* What drawing on a graphic display does, and what the display shows, for every
   layout, every size of display and characters, and all drivers: CanvasRight and
   DisplayRight of Graphic.

   - Geometry: what a canvas is, that it grows without losing pixels, and that
     the area of a blit holds what was painted on the screen.
   - Each draw callback changes pixels of its own area and layer only; all but
     the round ones send each pixel they change.
   - The loop of drv_generic_graphic_blend() is a run over the layers from the
     first opaque one; it ends like the run over all of them, since what lies
     behind an opaque layer does not count.
   - The invariant CanvasInv: types, what is seen is the image of the canvas,
     the buffers of the driver cover the screen, what is stale is due to a round
     widget, and a bar nothing overlaps shows the colours it was drawn with.
   - How many pixels of a bar are filled follows from those colours.
   - Synced says for each driver what its buffer, its display and its other state
     have to do with each other; its start establishes it, and its blit keeps it
     and puts the area into the buffer: bytes and their positions (packed, turned
     or escaped), runs, reports and rectangles around what changed.
   - The invariant ShowInv: Synced, the buffer has what is seen in each pixel that
     was sent and is not stale, and the symbols are what was told. *)
EXTENDS Graphic, Loops, FiniteSetTheorems

-----------------------------------------------------------------------------
(* Canvases and areas. *)

Pixels(c) == Rect(0, 0, c.rows, c.cols)
Layers == 0 .. LAYERS - 1
Canvas(rows, cols) == [rows : {rows}, cols : {cols}, fb : [Layers -> [Rect(0, 0, rows, cols) -> Colours]]]
CanvasOK(c) ==
  /\ c.rows \in Nat /\ c.cols \in Nat /\ DROWS <= c.rows /\ DCOLS <= c.cols
  /\ c \in Canvas(c.rows, c.cols)

\* The sizes and the default colours are what the assumption says.
LEMMA Sizes ==
  /\ LAYERS \in Nat /\ LAYERS > 0 /\ DROWS \in Nat /\ DROWS > 0 /\ DCOLS \in Nat /\ DCOLS > 0
  /\ XRES \in Nat /\ XRES > 0 /\ YRES \in Nat /\ YRES > 0 /\ MaxV \in Nat /\ MaxV > 0
  /\ FG_COL \in Colours /\ BG_COL \in Colours /\ BL_COL \in Colours /\ NO_COL \in Colours
  BY GraphicAssumption DEF Colours, NO_COL

\* Pixels of a rectangle, by their coordinates.
LEMMA InRect ==
  ASSUME NEW r, NEW c, NEW h, NEW w, NEW p
  PROVE  p \in Rect(r, c, h, w) <=> /\ p = <<p[1], p[2]>>
                                    /\ p[1] \in r .. r + h - 1 /\ p[2] \in c .. c + w - 1
  BY DEF Rect

\* A rectangle within another one.
LEMMA SubRect ==
  ASSUME NEW r \in Int, NEW c \in Int, NEW h \in Int, NEW w \in Int,
         NEW r2 \in Int, NEW c2 \in Int, NEW h2 \in Int, NEW w2 \in Int,
         r2 <= r, c2 <= c, r + h <= r2 + h2, c + w <= c2 + w2
  PROVE  Rect(r, c, h, w) \subseteq Rect(r2, c2, h2, w2)
<1>1. r .. r + h - 1 \subseteq r2 .. r2 + h2 - 1 /\ c .. c + w - 1 \subseteq c2 .. c2 + w2 - 1
  OBVIOUS
<1> QED
  BY <1>1 DEF Rect

\* The product of naturals is one (a fact the solver is told).
LEMMA Product ==
  ASSUME NEW a \in Nat, NEW b \in Nat
  PROVE  a * b \in Nat
  OBVIOUS

\* A record of layers of one size is a canvas.
LEMMA CanvasOf ==
  ASSUME NEW rows \in Nat, NEW cols \in Nat, DROWS <= rows, DCOLS <= cols,
         NEW fb \in [Layers -> [Rect(0, 0, rows, cols) -> Colours]]
  PROVE  CanvasOK([rows |-> rows, cols |-> cols, fb |-> fb])
  BY DEF CanvasOK, Canvas

\* A cleared canvas is one, transparent everywhere.
LEMMA BlankOK ==
  ASSUME NEW rows \in Nat, NEW cols \in Nat, DROWS <= rows, DCOLS <= cols
  PROVE  /\ CanvasOK(Blank(rows, cols)) /\ Blank(rows, cols).rows = rows /\ Blank(rows, cols).cols = cols
         /\ \A l \in Layers : \A p \in Rect(0, 0, rows, cols) : Blank(rows, cols).fb[l][p] = NO_COL
  BY Sizes DEF CanvasOK, Canvas, Blank, Layers

\* The canvas grows to the size it is asked for, and keeps its pixels.
LEMMA Resized ==
  ASSUME NEW K, CanvasOK(K), NEW rows \in Nat, NEW cols \in Nat
  PROVE  LET new == resizeFB(K, rows, cols)
         IN  /\ CanvasOK(new)
             /\ new.rows >= K.rows /\ new.cols >= K.cols /\ new.rows >= rows /\ new.cols >= cols
             /\ Pixels(K) \subseteq Pixels(new)
             /\ \A l \in Layers : \A p \in Pixels(new) :
                  new.fb[l][p] = IF p \in Pixels(K) THEN K.fb[l][p] ELSE NO_COL
<1> DEFINE new == resizeFB(K, rows, cols)
<1>0. K.rows \in Nat /\ K.cols \in Nat /\ DROWS <= K.rows /\ DCOLS <= K.cols
  BY DEF CanvasOK
<1>1. CASE rows <= K.rows /\ cols <= K.cols
  BY <1>0, <1>1 DEF resizeFB, Pixels
<1>2. CASE ~(rows <= K.rows /\ cols <= K.cols)
  <2> DEFINE R == AtLeast(rows, K.rows)
             C == AtLeast(cols, K.cols)
             B == Blank(R, C)
  <2>1. /\ R \in Nat /\ C \in Nat /\ R >= rows /\ R >= K.rows /\ C >= cols /\ C >= K.cols
    BY <1>0 DEF AtLeast
  <2>2. /\ CanvasOK(B) /\ B.rows = R /\ B.cols = C
        /\ \A l \in Layers : \A p \in Rect(0, 0, R, C) : B.fb[l][p] = NO_COL
    <3>1. DROWS <= R /\ DCOLS <= C
      BY <1>0, <2>1, Sizes
    <3> HIDE DEF R, C
    <3> QED
      BY <2>1, <3>1, BlankOK
  <2>3. Pixels(K) \subseteq Rect(0, 0, R, C)
    BY <1>0, <2>1, InRect DEF Pixels
  <2>4. new = [B EXCEPT !.fb = [l \in DOMAIN B.fb |-> K.fb[l] ++ B.fb[l]]]
    BY <1>2 DEF resizeFB
  <2> HIDE DEF new, B, R, C
  <2> USE DEF CanvasOK, Canvas
  <2>5. new = [rows |-> R, cols |-> C, fb |-> [l \in Layers |-> K.fb[l] ++ B.fb[l]]]
    BY <2>2, <2>4
  <2>6. ASSUME NEW l \in Layers
        PROVE  /\ K.fb[l] ++ B.fb[l] \in [Rect(0, 0, R, C) -> Colours]
               /\ \A p \in Rect(0, 0, R, C) :
                    (K.fb[l] ++ B.fb[l])[p] = IF p \in Pixels(K) THEN K.fb[l][p] ELSE NO_COL
    BY <2>2, <2>3 DEF ++, Pixels
  <2>7. new.rows = R /\ new.cols = C /\ \A l \in Layers : new.fb[l] = K.fb[l] ++ B.fb[l]
    BY <2>5
  <2>8. CanvasOK(new)
    <3> DEFINE F == [l \in Layers |-> K.fb[l] ++ B.fb[l]]
    <3>1. F \in [Layers -> [Rect(0, 0, R, C) -> Colours]]
      BY <2>6
    <3>2. DROWS <= R /\ DCOLS <= C /\ R \in Nat /\ C \in Nat
      BY <1>0, <2>1, Sizes
    <3> HIDE DEF F
    <3>3. new = [rows |-> R, cols |-> C, fb |-> F]
      BY <2>5 DEF F
    <3> QED
      BY <3>1, <3>2, <3>3, CanvasOf
  <2> QED
    BY <2>1, <2>3, <2>6, <2>7, <2>8 DEF Pixels, new
<1> QED
  BY <1>1, <1>2

\* Painting changes the pixels of one layer that it gives a colour.
LEMMA PaintedOK ==
  ASSUME NEW K, CanvasOK(K), NEW layer \in Layers, NEW S, S \subseteq Pixels(K), NEW f \in [S -> Colours]
  PROVE  LET new == Paint(K, layer, f)
         IN  /\ CanvasOK(new) /\ new.rows = K.rows /\ new.cols = K.cols
             /\ \A l \in Layers : \A p \in Pixels(K) :
                  new.fb[l][p] = IF l = layer /\ p \in S THEN f[p] ELSE K.fb[l][p]
<1> DEFINE new == Paint(K, layer, f)
           g == f ++ K.fb[layer]
<1> USE DEF CanvasOK, Canvas
<1>1. /\ g \in [Pixels(K) -> Colours]
      /\ \A p \in Pixels(K) : g[p] = IF p \in S THEN f[p] ELSE K.fb[layer][p]
  BY DEF ++, Pixels
<1> HIDE DEF g
<1>2. new = [K EXCEPT !.fb = [K.fb EXCEPT ![layer] = g]]
  BY DEF Paint, g
<1>3. new.rows = K.rows /\ new.cols = K.cols /\ new.fb = [K.fb EXCEPT ![layer] = g]
  BY <1>2
<1>4. new = [rows |-> K.rows, cols |-> K.cols, fb |-> [K.fb EXCEPT ![layer] = g]]
  BY <1>2
<1> HIDE DEF new
<1>5. [K.fb EXCEPT ![layer] = g] \in [Layers -> [Pixels(K) -> Colours]]
  BY <1>1 DEF Pixels
<1>6. CanvasOK(new)
  BY <1>3, <1>4, <1>5 DEF Pixels
<1> QED
  BY <1>1, <1>3, <1>6 DEF Pixels, new

\* The area that is sent is on the screen, and it is what was painted there.
LEMMA Blitted ==
  ASSUME NEW row \in Nat, NEW col \in Nat, NEW height \in Nat, NEW width \in Nat
  PROVE  LET win == blit(row, col, height, width)
         IN  /\ win \in [r : Nat, c : Nat, h : Int, w : Int]
             /\ Win(win) \subseteq Screen
             /\ \A p \in Screen \cap Rect(row, col, height, width) : Visible(win) /\ p \in Win(win)
<1> DEFINE win == blit(row, col, height, width)
<1>1. ASSUME NEW pos \in Nat, NEW size \in Nat, NEW max \in Nat
      PROVE  LET w == window(pos, size, max)
             IN  /\ w = <<w[1], w[2]>> /\ w[1] \in Nat /\ w[2] \in Int /\ w[1] + w[2] <= max
                 /\ \A x \in pos .. pos + size - 1 : x < max => w[2] > 0 /\ x \in w[1] .. w[1] + w[2] - 1
  BY DEF window, AtLeast
<1> DEFINE rows == window(row, height, DROWS)
           cols == window(col, width, DCOLS)
<1>2. win = [r |-> rows[1], c |-> cols[1], h |-> rows[2], w |-> cols[2]]
  BY DEF blit
<1>3. /\ rows[1] \in Nat /\ rows[2] \in Int /\ rows[1] + rows[2] <= DROWS
      /\ \A x \in row .. row + height - 1 : x < DROWS => rows[2] > 0 /\ x \in rows[1] .. rows[1] + rows[2] - 1
  BY <1>1, Sizes
<1>4. /\ cols[1] \in Nat /\ cols[2] \in Int /\ cols[1] + cols[2] <= DCOLS
      /\ \A x \in col .. col + width - 1 : x < DCOLS => cols[2] > 0 /\ x \in cols[1] .. cols[1] + cols[2] - 1
  BY <1>1, Sizes
<1> HIDE DEF rows, cols, win
<1>5. win \in [r : Nat, c : Nat, h : Int, w : Int]
  BY <1>2, <1>3, <1>4
<1>6. Win(win) \subseteq Screen
  BY <1>2, <1>3, <1>4, Sizes, InRect DEF Win, Screen
<1>7. \A p \in Screen \cap Rect(row, col, height, width) : Visible(win) /\ p \in Win(win)
  BY <1>2, <1>3, <1>4, Sizes, InRect DEF Win, Screen, Visible
<1> QED
  BY <1>5, <1>6, <1>7 DEF win

WinOK(win) == win \in [r : Nat, c : Nat, h : Int, w : Int] /\ Win(win) \subseteq Screen
Reached(win, p) == Visible(win) /\ p \in Win(win)

\* The canvas out holds f on the pixels S of a layer, and else what K held.
Holds(K, out, layer, S, f) ==
  /\ CanvasOK(out) /\ out.rows >= K.rows /\ out.cols >= K.cols
  /\ Pixels(K) \subseteq Pixels(out) /\ S \subseteq Pixels(out)
  /\ \A l \in Layers : \A p \in Pixels(K) :
       out.fb[l][p] = IF l = layer /\ p \in S THEN f[p] ELSE K.fb[l][p]
  /\ \A p \in S : out.fb[layer][p] = f[p]

\* A widget begins at a pixel.
LEMMA HomeOK ==
  ASSUME NEW W, WidgetOK(W)
  PROVE  Home(W) = <<Home(W)[1], Home(W)[2]>> /\ Home(W)[1] \in Nat /\ Home(W)[2] \in Nat
<1>1. YRES * W.row \in Nat /\ XRES * W.col \in Nat
  BY Sizes DEF WidgetOK
<1> QED
  BY <1>1 DEF Home, WidgetOK

\* Every canvas covers the screen.
LEMMA ScreenIn ==
  ASSUME NEW K, CanvasOK(K)
  PROVE  Screen \subseteq Pixels(K)
  BY Sizes, InRect DEF CanvasOK, Screen, Pixels

\* The area of a blit is on the screen and holds what was to be sent.
LEMMA BlittedOK ==
  ASSUME NEW row \in Nat, NEW col \in Nat, NEW h \in Nat, NEW w \in Nat
  PROVE  WinOK(blit(row, col, h, w)) /\ \A p \in Screen \cap Rect(row, col, h, w) : Reached(blit(row, col, h, w), p)
  BY Blitted DEF WinOK, Reached

\* Painting after the canvas grew: the pixels that are painted, and the old ones.
LEMMA GrownAndPainted ==
  ASSUME NEW K, CanvasOK(K), NEW rows \in Nat, NEW cols \in Nat, NEW layer \in Layers,
         NEW S, S \subseteq Pixels(resizeFB(K, rows, cols)), NEW f \in [S -> Colours]
  PROVE  Holds(K, Paint(resizeFB(K, rows, cols), layer, f), layer, S, f)
<1> DEFINE big == resizeFB(K, rows, cols)
           out == Paint(big, layer, f)
<1>1. /\ CanvasOK(big) /\ big.rows >= K.rows /\ big.cols >= K.cols /\ Pixels(K) \subseteq Pixels(big)
      /\ \A l \in Layers : \A p \in Pixels(big) : big.fb[l][p] = IF p \in Pixels(K) THEN K.fb[l][p] ELSE NO_COL
  BY Resized
<1>2. S \subseteq Pixels(big)
  OBVIOUS
<1> HIDE DEF big
<1>3. /\ CanvasOK(out) /\ out.rows = big.rows /\ out.cols = big.cols
      /\ \A l \in Layers : \A p \in Pixels(big) : out.fb[l][p] = IF l = layer /\ p \in S THEN f[p] ELSE big.fb[l][p]
  BY <1>1, <1>2, PaintedOK
<1>4. Pixels(out) = Pixels(big)
  BY <1>3 DEF Pixels
<1> HIDE DEF out
<1>5. Holds(K, out, layer, S, f)
  BY <1>1, <1>2, <1>3, <1>4 DEF Holds
<1> QED
  BY <1>5 DEF out, big

\* Most widgets paint a box and send it.
LEMMA BoxDrawn ==
  ASSUME NEW K, CanvasOK(K), NEW at, at = <<at[1], at[2]>>, at[1] \in Nat, at[2] \in Nat,
         NEW h \in Nat, NEW w \in Nat, NEW layer \in Layers, NEW f \in [Box(at, h, w) -> Colours]
  PROVE  LET out == Painted(Paint(resizeFB(K, at[1] + h, at[2] + w), layer, f), blit(at[1], at[2], h, w))
         IN  /\ Holds(K, out.cv, layer, Box(at, h, w), f)
             /\ WinOK(out.win)
             /\ \A p \in Screen \cap Box(at, h, w) : Reached(out.win, p)
<1> DEFINE big == resizeFB(K, at[1] + h, at[2] + w)
<1>0. at[1] + h \in Nat /\ at[2] + w \in Nat
  OBVIOUS
<1>1. CanvasOK(big) /\ big.rows >= at[1] + h /\ big.cols >= at[2] + w
  BY <1>0, Resized
<1>2. Box(at, h, w) \subseteq Pixels(big)
  <2>1. big.rows \in Nat /\ big.cols \in Nat
    BY <1>1 DEF CanvasOK
  <2> HIDE DEF big
  <2> QED
    BY <1>1, <2>1, InRect DEF Box, Pixels
<1>3. Holds(K, Paint(big, layer, f), layer, Box(at, h, w), f)
  <2>1. at[1] + h \in Nat /\ at[2] + w \in Nat
    OBVIOUS
  <2> QED
    BY <1>2, <2>1, GrownAndPainted
<1>4. WinOK(blit(at[1], at[2], h, w)) /\ \A p \in Screen \cap Box(at, h, w) : Reached(blit(at[1], at[2], h, w), p)
  BY BlittedOK DEF Box
<1> QED
  BY <1>3, <1>4 DEF Painted

\* What a draw may do: it changes its own pixels of its own layer ...
Drawn(K, W, out) ==
  /\ CanvasOK(out.cv) /\ out.cv.rows >= K.rows /\ out.cv.cols >= K.cols /\ Pixels(K) \subseteq Pixels(out.cv)
  /\ WinOK(out.win)
  /\ \A l \in Layers : \A p \in Pixels(K) :
       out.cv.fb[l][p] # K.fb[l][p] => l = W.layer /\ p \in Footprint(W, out.cv.cols)
\* ... and sends what it changes.
Sends(K, out) ==
  \A l \in Layers : \A p \in Screen : out.cv.fb[l][p] # K.fb[l][p] => Reached(out.win, p)

\* So does a draw that paints a box.
LEMMA BoxIsDrawn ==
  ASSUME NEW K, CanvasOK(K), NEW W, WidgetOK(W), NEW h \in Nat, NEW w \in Nat, NEW f,
         NEW S, Box(Home(W), h, w) = S, f \in [S -> Colours],
         \A cols : Footprint(W, cols) = S,
         NEW out, out = Painted(Paint(resizeFB(K, Home(W)[1] + h, Home(W)[2] + w), W.layer, f),
                                blit(Home(W)[1], Home(W)[2], h, w))
  PROVE  /\ Drawn(K, W, out) /\ Sends(K, out)
         /\ S \subseteq Pixels(out.cv) /\ \A p \in S : out.cv.fb[W.layer][p] = f[p]
<1>1. W.layer \in Layers
  BY DEF WidgetOK, Layers
<1>2. /\ Holds(K, out.cv, W.layer, S, f) /\ WinOK(out.win)
      /\ \A p \in Screen \cap S : Reached(out.win, p)
  <2> DEFINE at == Home(W)
  <2>1. at = <<at[1], at[2]>> /\ at[1] \in Nat /\ at[2] \in Nat
    BY HomeOK
  <2> HIDE DEF at
  <2>2. LET o == Painted(Paint(resizeFB(K, at[1] + h, at[2] + w), W.layer, f), blit(at[1], at[2], h, w))
        IN  /\ Holds(K, o.cv, W.layer, Box(at, h, w), f)
            /\ WinOK(o.win)
            /\ \A p \in Screen \cap Box(at, h, w) : Reached(o.win, p)
    <3>1. Box(at, h, w) = S
      BY DEF at
    <3>2. f \in [Box(at, h, w) -> Colours]
      BY <3>1
    <3> HIDE <3>1
    <3> QED
      BY <1>1, <2>1, <3>2, BoxDrawn
  <2> QED
    BY <2>2 DEF at
<1>3. Screen \subseteq Pixels(K)
  BY ScreenIn
<1>4. Drawn(K, W, out)
  <2>1. \A l \in Layers : \A p \in Pixels(K) : out.cv.fb[l][p] # K.fb[l][p] => l = W.layer /\ p \in S
    BY <1>2 DEF Holds
  <2>2. Footprint(W, out.cv.cols) = S
    OBVIOUS
  <2> QED
    BY <1>2, <2>1, <2>2 DEF Drawn, Holds
<1>5. Sends(K, out)
  <2> SUFFICES ASSUME NEW l \in Layers, NEW p \in Screen, out.cv.fb[l][p] # K.fb[l][p]
               PROVE  Reached(out.win, p)
    BY DEF Sends
  <2>1. p \in Pixels(K)
    BY <1>3
  <2>2. p \in S
    BY <1>2, <2>1 DEF Holds
  <2> QED
    BY <1>2, <2>2
<1> QED
  BY <1>2, <1>4, <1>5 DEF Holds

-----------------------------------------------------------------------------
(* Widgets that paint a box. *)

\* drv_generic_graphic_icon_draw() paints a box and sends it.
LEMMA IconDrawn ==
  ASSUME NEW K, CanvasOK(K), NEW W, WidgetOK(W), W.class = "icon", NEW map
  PROVE  Drawn(K, W, icon_draw(K, W, map)) /\ Sends(K, icon_draw(K, W, map))
<1> DEFINE at == Home(W)
           S == Box(at, YRES, XRES)
           f == [p \in S |-> IF map = 0 THEN BG_COL
                             ELSE IF <<p[1] - at[1], p[2] - at[2]>> \in W.bitmap[map] THEN W.fg ELSE W.bg]
           out == icon_draw(K, W, map)
<1>1. \A cols : Footprint(W, cols) = S
  BY DEF Footprint
<1>2. f \in [S -> Colours]
  BY Sizes DEF WidgetOK
<1>3. out = Painted(Paint(resizeFB(K, at[1] + YRES, at[2] + XRES), W.layer, f), blit(at[1], at[2], YRES, XRES))
  BY DEF icon_draw
<1> HIDE DEF f, out
<1> QED
  BY <1>1, <1>2, <1>3, BoxIsDrawn, Sizes DEF out

\* The height and width of a bar.
Across(W) == W.dir \in {"east", "west"}
BarMax(W) == W.len * (IF Across(W) THEN XRES ELSE YRES)
BarHeight(W) == IF Across(W) THEN YRES ELSE BarMax(W)
BarWidth(W) == IF Across(W) THEN BarMax(W) ELSE XRES
BarBox(W) == Box(Home(W), BarHeight(W), BarWidth(W))
BarColour(W, vals, p) ==
  LET at == Home(W)
      y == p[1] - at[1]
      x == p[2] - at[2]
      n == IF Across(W) THEN x ELSE y
      half == IF (IF Across(W) THEN y < YRES \div 2 ELSE x < XRES \div 2) THEN 1 ELSE 2
      rev == W.dir \in {"west", "north"}
  IN IF W.hollow /\ (y \in {0, BarHeight(W) - 1} \/ x \in {0, BarWidth(W) - 1}) THEN W.fg
     ELSE IF (n < BarValue(vals[half], BarMax(W), rev)) # rev THEN W.bar[half] ELSE W.bg

\* The size of a bar; a bar of length 0 has no pixels.
LEMMA BarSizes ==
  ASSUME NEW W, WidgetOK(W), W.class = "bar"
  PROVE  /\ BarMax(W) \in Nat /\ BarHeight(W) \in Nat /\ BarWidth(W) \in Nat
         /\ W.len > 0 => BarMax(W) > 0
<1>1. \A a \in Nat, b \in Nat \ {0} : a * b \in Nat /\ (a > 0 => a * b > 0)
  OBVIOUS
<1>2. W.len \in Nat /\ XRES \in Nat \ {0} /\ YRES \in Nat \ {0}
  BY Sizes DEF WidgetOK
<1>3. BarMax(W) \in Nat /\ (W.len > 0 => BarMax(W) > 0)
  BY <1>1, <1>2 DEF BarMax
<1> QED
  BY <1>2, <1>3 DEF BarHeight, BarWidth

\* The area of a bar is its box.
LEMMA BarFootprint ==
  ASSUME NEW W, WidgetOK(W), W.class = "bar", NEW cols
  PROVE  Footprint(W, cols) = BarBox(W)
<1>1. W.dir \in {"east", "west"} => XRES * W.len = BarWidth(W) /\ YRES = BarHeight(W)
  BY Sizes DEF BarWidth, BarHeight, BarMax, Across, WidgetOK
<1>2. W.dir \notin {"east", "west"} => XRES = BarWidth(W) /\ YRES * W.len = BarHeight(W)
  BY Sizes DEF BarWidth, BarHeight, BarMax, Across, WidgetOK
<1> QED
  BY <1>1, <1>2 DEF Footprint, BarBox

\* drv_generic_graphic_bar_draw() paints and sends its box, and in which colours.
LEMMA BarDrawn ==
  ASSUME NEW K, CanvasOK(K), NEW W, WidgetOK(W), W.class = "bar", NEW vals
  PROVE  LET out == bar_draw(K, W, vals)
         IN  /\ Drawn(K, W, out) /\ Sends(K, out)
             /\ BarBox(W) \subseteq Pixels(out.cv)
             /\ \A p \in BarBox(W) : out.cv.fb[W.layer][p] = BarColour(W, vals, p)
<1> DEFINE at == Home(W)
           h == BarHeight(W)
           w == BarWidth(W)
           S == BarBox(W)
           f == [p \in S |-> BarColour(W, vals, p)]
           out == bar_draw(K, W, vals)
<1>1. \A cols : Footprint(W, cols) = S
  BY BarFootprint
<1>2. f \in [S -> Colours]
  BY DEF WidgetOK, BarColour
<1>3. out = Painted(Paint(resizeFB(K, at[1] + h, at[2] + w), W.layer, f), blit(at[1], at[2], h, w))
  BY DEF bar_draw, BarBox, BarColour, BarHeight, BarWidth, BarMax, Across
<1>4. \A p \in S : f[p] = BarColour(W, vals, p)
  OBVIOUS
<1>5. h \in Nat /\ w \in Nat
  BY BarSizes
<1>6. Box(Home(W), h, w) = S
  BY DEF BarBox
<1> HIDE DEF f, out, S, h, w
<1>7. /\ Drawn(K, W, out) /\ Sends(K, out)
      /\ S \subseteq Pixels(out.cv) /\ \A p \in S : out.cv.fb[W.layer][p] = f[p]
  BY <1>1, <1>2, <1>3, <1>5, <1>6, BoxIsDrawn
<1> QED
  BY <1>4, <1>7 DEF out, S

\* drv_generic_graphic_image_draw() paints a box and sends it, or nothing.
LEMMA ImageDrawn ==
  ASSUME NEW K, CanvasOK(K), NEW W, WidgetOK(W), W.class = "image", NEW bitmap, ContentOK(W, bitmap)
  PROVE  Drawn(K, W, image_draw(K, W, bitmap)) /\ Sends(K, image_draw(K, W, bitmap))
<1> DEFINE at == Home(W)
           h == W.height
           w == W.width
           S == Box(at, h, w)
           f == [p \in S |-> IF W.visible THEN bitmap[p[1] - at[1]][p[2] - at[2]] ELSE BG_COL]
           out == image_draw(K, W, bitmap)
<1>1. h \in Nat /\ w \in Nat /\ h > 0 /\ w > 0
  BY DEF WidgetOK
<1>2. CASE bitmap = <<>>
  <2>1. out.cv = K /\ out.win = blit(0, 0, 0, 0)
    BY <1>2 DEF image_draw, Painted
  <2>2. WinOK(blit(0, 0, 0, 0))
    BY Blitted DEF WinOK
  <2> HIDE DEF out
  <2>3. K.rows >= K.rows /\ K.cols >= K.cols
    BY DEF CanvasOK
  <2> QED
    BY <2>1, <2>2, <2>3 DEF Drawn, Sends, out
<1>3. CASE bitmap # <<>>
  <2>1. \A cols : Footprint(W, cols) = S
    BY DEF Footprint
  <2>2. f \in [S -> Colours]
    <3>1. bitmap \in [0 .. h - 1 -> [0 .. w - 1 -> Colours]]
      BY <1>3 DEF ContentOK
    <3>2. \A p \in S : p[1] - at[1] \in 0 .. h - 1 /\ p[2] - at[2] \in 0 .. w - 1
      BY <1>1, HomeOK, InRect DEF Box
    <3> HIDE DEF S, h, w, at
    <3> QED
      BY <3>1, <3>2, Sizes
  <2>3. out = Painted(Paint(resizeFB(K, at[1] + h, at[2] + w), W.layer, f), blit(at[1], at[2], h, w))
    BY <1>3 DEF image_draw
  <2> HIDE DEF f, out
  <2> QED
    BY <1>1, <2>1, <2>2, <2>3, BoxIsDrawn DEF out
<1> QED
  BY <1>2, <1>3

\* drv_generic_graphic_graph_draw() paints and sends its box: line, grid and value lie in it.
LEMMA GraphDrawn ==
  ASSUME NEW K, CanvasOK(K), NEW W, WidgetOK(W), W.class = "graph", NEW data
  PROVE  Drawn(K, W, graph_draw(K, W, data)) /\ Sends(K, graph_draw(K, W, data))
<1> DEFINE at == Home(W)
           h == IF W.rc THEN YRES * W.height ELSE W.height
           w == IF W.rc THEN XRES * W.width ELSE W.width
           S == Box(at, h, w)
           out == graph_draw(K, W, data)
<1>1. h \in Nat /\ w \in Nat
  BY Sizes DEF WidgetOK
<1>2. \A cols : Footprint(W, cols) = S
  BY DEF Footprint
<1>3. ASSUME NEW A, NEW B, NEW C, A \subseteq S, B \subseteq S, C \subseteq S,
             NEW a \in Colours, NEW b \in Colours, NEW c \in Colours, NEW e \in Colours
      PROVE  Fill(A, a) ++ Fill(B, b) ++ Fill(C, c) ++ Fill(S, e) \in [S -> Colours]
  BY <1>3 DEF ++, Fill
<1>4. \E f \in [S -> Colours] :
        out = Painted(Paint(resizeFB(K, at[1] + h, at[2] + w), W.layer, f), blit(at[1], at[2], h, w))
  <2> DEFINE grid == {p \in S : \E i \in 1 .. W.grid : p[1] = at[1] + (h * i) \div (W.grid + 1)}
             n == IF Len(data) < W.points THEN Len(data) ELSE W.points
             step == AtLeast(w \div AtLeast(n, 1), 1)
             x(i) == IF W.leftwards THEN at[2] + w - 1 - (i - 1) * step ELSE at[2] + (i - 1) * step
             point(i) == <<at[1] + h - 1 - Clamp(data[Len(data) - n + i], 0, h - 1),
                           Clamp(x(i), at[2], at[2] + w - 1)>>
             line == IF n < 2 THEN {} ELSE UNION {LinePixels(point(i), point(i + 1)) : i \in 1 .. n - 1}
             text == IF data = <<>> THEN {} ELSE ValueBlocks(W, S, at, w, Last(data), h - 1)
             f == Fill(text, W.textcolour) ++ Fill(line \cap S, W.fg) ++ Fill(grid, W.gridcolour) ++ Fill(S, W.bg)
  <2>1. out = Painted(Paint(resizeFB(K, at[1] + h, at[2] + w), W.layer, f), blit(at[1], at[2], h, w))
    BY DEF graph_draw
  <2>2. grid \subseteq S /\ text \subseteq S
    BY DEF ValueBlocks
  <2> HIDE DEF line, grid, text, S, h, w, at
  <2>3. line \cap S \subseteq S
    OBVIOUS
  <2>4. f \in [S -> Colours]
    BY <1>3, <2>2, <2>3 DEF WidgetOK
  <2> QED
    BY <2>1, <2>4
<1>5. PICK f \in [S -> Colours] :
        out = Painted(Paint(resizeFB(K, at[1] + h, at[2] + w), W.layer, f), blit(at[1], at[2], h, w))
  BY <1>4
<1> HIDE DEF out, h, w
<1> QED
  BY <1>1, <1>2, <1>5, BoxIsDrawn DEF out

-----------------------------------------------------------------------------
(* Texts. *)

\* The bells before a character that is none.
LEMMA BellCount ==
  ASSUME NEW txt, NEW i \in Nat \ {0}, txt[i] # "bell"
  PROVE  Cardinality(Bells(txt, i)) \in 0 .. i - 1
<1>1. Bells(txt, i) \subseteq 1 .. i - 1
  BY DEF Bells
<1>2. IsFiniteSet(1 .. i - 1) /\ Cardinality(1 .. i - 1) = i - 1
  <2>1. i - 1 \in Int /\ i - 1 >= 0
    OBVIOUS
  <2> QED
    BY <2>1, FS_Interval
<1>3. Cardinality(Bells(txt, i)) <= i - 1 /\ IsFiniteSet(Bells(txt, i))
  BY <1>1, <1>2, FS_Subset
<1>4. Cardinality(Bells(txt, i)) \in Nat
  BY <1>3, FS_CardinalityType
<1> QED
  BY <1>3, <1>4

\* The pixels of a text.
TextBox(W, txt) == Box(Home(W), YRES, XRES * Len(txt))

\* Each glyph lies in the box of the text, however many bells come before it.
LEMMA GlyphOK ==
  ASSUME NEW W, WidgetOK(W), NEW txt \in Seq(STRING), NEW i \in 1 .. Len(txt), txt[i] # "bell"
  PROVE  \E S : S \subseteq TextBox(W, txt) /\ Glyph(W, txt, i) \in [S -> Colours]
<1> DEFINE n == i - 1 - Cardinality(Bells(txt, i))
           at == <<Home(W)[1], Home(W)[2] + XRES * n>>
           S == Box(at, YRES, XRES)
<1>1. n \in 0 .. Len(txt) - 1
  BY BellCount
<1>2. Glyph(W, txt, i) \in [S -> Colours]
  <2>1. \A p \in S : Glyph(W, txt, i)[p] \in {W.fg, W.bg}
    BY DEF Glyph
  <2> QED
    BY <2>1 DEF Glyph, WidgetOK
<1>3. S \subseteq TextBox(W, txt)
  <2>1. XRES * n \in Nat /\ XRES * n + XRES <= XRES * Len(txt) /\ XRES * Len(txt) \in Nat
    <3>1. \A a, b, m \in Nat : b + 1 <= m => a * b \in Nat /\ a * b + a <= a * m /\ a * m \in Nat
      OBVIOUS
    <3> QED
      BY <1>1, <3>1, Sizes
  <2>2. Home(W)[1] \in Nat /\ Home(W)[2] \in Nat
    BY HomeOK
  <2> DEFINE m == XRES * n
             M == XRES * Len(txt)
  <2>3. at[1] = Home(W)[1] /\ at[2] = Home(W)[2] + m
    OBVIOUS
  <2>4. m \in Nat /\ M \in Nat /\ m + XRES <= M
    BY <2>1
  <2> HIDE DEF m, M, at
  <2>5. at[2] \in Nat /\ at[2] >= Home(W)[2] /\ at[2] + XRES <= Home(W)[2] + M
    BY <2>2, <2>3, <2>4, Sizes
  <2>6. Rect(at[1], at[2], YRES, XRES) \subseteq Rect(Home(W)[1], Home(W)[2], YRES, M)
    BY <2>2, <2>3, <2>4, <2>5, Sizes, SubRect
  <2> QED
    BY <2>6 DEF Box, TextBox, M
<1> QED
  BY <1>2, <1>3

\* Another canvas of the same size, that differs in these pixels only.
Alike(c, big, layer, T) ==
  \A l \in Layers : \A p \in Pixels(big) : c.fb[l][p] # big.fb[l][p] => l = layer /\ p \in T

\* Painting some of these pixels keeps the others.
LEMMA PaintedAlike ==
  ASSUME NEW c, CanvasOK(c), NEW big, Pixels(c) = Pixels(big), NEW layer \in Layers, NEW T, NEW S,
         S \subseteq Pixels(c), S \subseteq T, NEW g \in [S -> Colours], Alike(c, big, layer, T)
  PROVE  LET new == Paint(c, layer, g)
         IN  CanvasOK(new) /\ new.rows = c.rows /\ new.cols = c.cols /\ Alike(new, big, layer, T)
<1> DEFINE new == Paint(c, layer, g)
<1>1. /\ CanvasOK(new) /\ new.rows = c.rows /\ new.cols = c.cols
      /\ \A l \in Layers : \A p \in Pixels(c) :
           new.fb[l][p] = IF l = layer /\ p \in S THEN g[p] ELSE c.fb[l][p]
  BY PaintedOK
<1> HIDE DEF new
<1>2. Alike(new, big, layer, T)
  BY <1>1 DEF Alike
<1> QED
  BY <1>1, <1>2 DEF new

\* drv_generic_graphic_render() changes the box of its text only, and sends it.
LEMMA TextDrawn ==
  ASSUME NEW K, CanvasOK(K), NEW W, WidgetOK(W), W.class = "text", NEW txt \in Seq(STRING)
  PROVE  Drawn(K, W, render(K, W, txt)) /\ Sends(K, render(K, W, txt))
<1> DEFINE at == Home(W)
           N == Len(txt)
           width == XRES * N
           big == resizeFB(K, at[1] + YRES, at[2] + width)
           Like(c) == Alike(c, big, W.layer, TextBox(W, txt))
           V == {c \in Canvas(big.rows, big.cols) : Like(c)}
           Step(c, i) == IF txt[i] = "bell" THEN c ELSE Paint(c, W.layer, Glyph(W, txt, i))
           step == [i \in 1 .. N |-> [c \in V |-> Step(c, i)]]
           Is(f) == f = [i \in 0 .. N |-> IF i = 0 THEN big ELSE Step(f[i - 1], i)]
           after == CHOOSE f : Is(f)
           out == render(K, W, txt)
<1>1. N \in Nat /\ width \in Nat /\ W.layer \in Layers /\ at[1] + YRES \in Nat /\ at[2] + width \in Nat
  <2>1. N \in Nat
    OBVIOUS
  <2>2. width \in Nat
    BY <2>1, Sizes, Product
  <2>3. W.layer \in Layers
    BY DEF WidgetOK, Layers
  <2>4. at[1] \in Nat /\ at[2] \in Nat
    BY HomeOK
  <2> HIDE DEF at, width
  <2>5. at[1] + YRES \in Nat /\ at[2] + width \in Nat
    BY <2>2, <2>4, Sizes
  <2> QED
    BY <2>1, <2>2, <2>3, <2>5
<1>2. /\ CanvasOK(big) /\ big.rows >= K.rows /\ big.cols >= K.cols /\ Pixels(K) \subseteq Pixels(big)
      /\ big.rows >= at[1] + YRES /\ big.cols >= at[2] + width
      /\ \A l \in Layers : \A p \in Pixels(big) : big.fb[l][p] = IF p \in Pixels(K) THEN K.fb[l][p] ELSE NO_COL
  BY <1>1, Resized
<1>3. TextBox(W, txt) \subseteq Pixels(big) /\ \A cols \in Int : cols >= at[2] + width => TextBox(W, txt) \subseteq Footprint(W, cols)
  <2>1. big.rows \in Nat /\ big.cols \in Nat
    BY <1>2 DEF CanvasOK
  <2>2. Footprint(W, big.cols) = Box(at, YRES, big.cols) /\ \A cols : Footprint(W, cols) = Box(at, YRES, cols)
    BY DEF Footprint
  <2>3. at[1] \in Nat /\ at[2] \in Nat
    BY HomeOK
  <2> HIDE DEF big, width, at
  <2>4. TextBox(W, txt) = Box(at, YRES, width)
    BY DEF TextBox, at, width
  <2>5. TextBox(W, txt) \subseteq Pixels(big)
    <3>1. Rect(at[1], at[2], YRES, width) \subseteq Rect(0, 0, big.rows, big.cols)
      BY <1>1, <1>2, <2>1, <2>3, Sizes, SubRect
    <3> QED
      BY <2>4, <3>1 DEF Box, Pixels
  <2>6. \A cols \in Int : cols >= at[2] + width => TextBox(W, txt) \subseteq Footprint(W, cols)
    <3> SUFFICES ASSUME NEW cols \in Int, cols >= at[2] + width
                 PROVE  TextBox(W, txt) \subseteq Footprint(W, cols)
      OBVIOUS
    <3>1. Rect(at[1], at[2], YRES, width) \subseteq Rect(at[1], at[2], YRES, cols)
      BY <1>1, <2>3, Sizes, SubRect
    <3> QED
      BY <2>2, <2>4, <3>1 DEF Box
  <2> QED
    BY <2>5, <2>6
<1>4. ASSUME NEW c \in V
      PROVE  CanvasOK(c) /\ c.rows = big.rows /\ c.cols = big.cols /\ Pixels(c) = Pixels(big) /\ Like(c)
  BY <1>2, <1>4 DEF CanvasOK, Canvas, Pixels
<1>5. \A c : CanvasOK(c) /\ c.rows = big.rows /\ c.cols = big.cols /\ Like(c) => c \in V
  BY DEF CanvasOK
<1> HIDE DEF big
<1>6. big \in V
  <2>1. Like(big)
    BY DEF Alike
  <2> QED
    BY <1>2, <1>5, <2>1
<1> HIDE DEF Like
<1> HIDE DEF V
<1>7. ASSUME NEW i \in 1 .. N, NEW c \in V PROVE Step(c, i) \in V
  <2>1. CASE txt[i] = "bell"
    BY <1>7, <2>1
  <2>2. CASE txt[i] # "bell"
    <3>1. PICK S : S \subseteq TextBox(W, txt) /\ Glyph(W, txt, i) \in [S -> Colours]
      BY <2>2, GlyphOK
    <3>2. CanvasOK(c) /\ c.rows = big.rows /\ c.cols = big.cols /\ Pixels(c) = Pixels(big) /\ Like(c)
      BY <1>4
    <3> DEFINE g == Glyph(W, txt, i)
               new == Paint(c, W.layer, g)
    <3> HIDE DEF g
    <3>3. S \subseteq Pixels(c) /\ g \in [S -> Colours] /\ S \subseteq TextBox(W, txt) /\ W.layer \in Layers
      BY <1>1, <1>3, <3>1, <3>2 DEF g
    <3>4. CanvasOK(new) /\ new.rows = c.rows /\ new.cols = c.cols /\ Like(new)
      BY <3>2, <3>3, PaintedAlike DEF Like
    <3> HIDE DEF new
    <3>6. new \in V
      BY <1>5, <3>2, <3>4
    <3>7. Step(c, i) = new
      BY <2>2 DEF new, g
    <3> QED
      BY <3>6, <3>7
  <2> QED
    BY <2>1, <2>2
<1> HIDE DEF Step
<1>8. LoopOf(N, V, big, step)
  BY <1>6, <1>7 DEF LoopOf
<1>9. PICK f : IsRun(f, N, V, big, step)
  <2> HIDE DEF N, step
  <2> QED
    BY <1>1, <1>8, LoopRuns
<1>10. Is(f)
  <2>1. f \in [0 .. N -> V] /\ f[0] = big
    BY <1>9 DEF IsRun
  <2>2. ASSUME NEW k \in 1 .. N PROVE f[k] = Step(f[k - 1], k)
    <3>1. k - 1 \in 0 .. N /\ f[k] = step[k][f[k - 1]]
      BY <1>1, <1>9 DEF IsRun
    <3>2. f[k - 1] \in V
      BY <2>1, <3>1
    <3> QED
      BY <3>1, <3>2
  <2> HIDE DEF N
  <2>3. \A k \in 0 .. N : k = 0 \/ k \in 1 .. N
    BY <1>1
  <2> QED
    BY <2>1, <2>2, <2>3
<1>11. Is(after)
  BY <1>10
<1> HIDE DEF after, step
<1> DEFINE P == {k \in 0 .. N : after[k] \in V}
<1>12. 0 \in P /\ \A k \in 1 .. N : k - 1 \in P => k \in P
  <2>1. after[0] = big
    BY <1>1, <1>11
  <2>2. ASSUME NEW k \in 1 .. N PROVE after[k] = Step(after[k - 1], k)
    BY <1>1, <1>11
  <2> HIDE DEF after, Is
  <2> QED
    BY <1>1, <1>6, <1>7, <2>1, <2>2
<1>13. after[N] \in V
  <2> HIDE DEF P, N
  <2>1. \A k \in 0 .. N : k \in P
    BY <1>1, <1>12, LoopInvariant
  <2> QED
    BY <1>1, <2>1 DEF P
<1>14. out = [cv |-> after[N], win |-> blit(at[1], at[2], YRES, width)]
  BY DEF render, Painted, after, Step, big
<1>15. WinOK(out.win) /\ \A p \in Screen \cap TextBox(W, txt) : Reached(out.win, p)
  <2>1. WinOK(blit(at[1], at[2], YRES, width))
        /\ \A p \in Screen \cap Rect(at[1], at[2], YRES, width) : Reached(blit(at[1], at[2], YRES, width), p)
    <3>1. at[1] \in Nat /\ at[2] \in Nat
      BY HomeOK
    <3> HIDE DEF at, width
    <3> QED
      BY <1>1, <3>1, Sizes, BlittedOK
  <2>2. TextBox(W, txt) = Rect(at[1], at[2], YRES, width)
    BY DEF TextBox, Box
  <2> QED
    BY <1>14, <2>1, <2>2
<1>16. /\ CanvasOK(out.cv) /\ out.cv.rows = big.rows /\ out.cv.cols = big.cols /\ Pixels(out.cv) = Pixels(big)
       /\ Like(out.cv)
  BY <1>4, <1>13, <1>14
<1>17. \A l \in Layers : \A p \in Pixels(K) :
         out.cv.fb[l][p] # K.fb[l][p] => l = W.layer /\ p \in TextBox(W, txt)
  <2> HIDE DEF out
  <2> QED
    BY <1>2, <1>16 DEF Like, Alike
<1>18. Drawn(K, W, out)
  <2>1. TextBox(W, txt) \subseteq Footprint(W, out.cv.cols)
    <3>1. big.cols \in Int
      BY <1>2 DEF CanvasOK
    <3> HIDE DEF at, width, out
    <3> QED
      BY <1>2, <1>3, <1>16, <3>1
  <2> HIDE DEF out
  <2> QED
    BY <1>2, <1>15, <1>16, <1>17, <2>1 DEF Drawn
<1>19. Sends(K, out)
  <2>1. Screen \subseteq Pixels(K)
    BY ScreenIn
  <2> HIDE DEF out
  <2> QED
    BY <1>15, <1>17, <2>1 DEF Sends
<1> QED
  BY <1>18, <1>19

-----------------------------------------------------------------------------
(* Lines and circles. *)

\* A multiple of a tenth, cut to an integer, is not longer than the radius.
LEMMA CutBounds ==
  ASSUME NEW r \in Nat, NEW c \in -10 .. 10
  PROVE  Cut(r * c) \in -r .. r
<1>1. r * c \in Int /\ r * c <= 10 * r /\ r * c >= -(10 * r)
  <2>1. ASSUME NEW k \in Nat, NEW m \in Nat, k <= 10 PROVE m * k \in Nat /\ m * k <= 10 * m
    BY <2>1
  <2>2. CASE c >= 0
    <3>1. c \in Nat /\ c <= 10
      BY <2>2
    <3> QED
      BY <2>1, <3>1
  <2>3. CASE c < 0
    <3>1. -c \in Nat /\ -c <= 10 /\ r * c = -(r * (-c))
      BY <2>3
    <3>2. r * (-c) \in Nat /\ r * (-c) <= 10 * r
      BY <2>1, <3>1
    <3> QED
      BY <3>1, <3>2
  <2> QED
    BY <2>2, <2>3
<1> DEFINE x == r * c
<1>2. x \in Int /\ x <= 10 * r /\ x >= -(10 * r)
  BY <1>1
<1> HIDE DEF x
<1>3. Cut(x) \in -r .. r
  <2>1. CASE x >= 0
    BY <1>2, <2>1 DEF Cut, Toward0
  <2>2. CASE x < 0
    BY <1>2, <2>2 DEF Cut, Toward0
  <2> QED
    BY <1>2, <2>1, <2>2
<1> QED
  BY <1>3 DEF x

\* The points of a circle lie in the square around it.
LEMMA PolarInSquare ==
  ASSUME NEW y \in Int, NEW x \in Int, NEW r \in Nat, NEW k \in Int
  PROVE  Polar(<<y, x>>, r, k) \in Rect(y - r, x - r, 2 * r + 1, 2 * r + 1)
<1>1. \A i \in 1 .. 8 : Cos10[i] \in -10 .. 10
  BY DEF Cos10
<1>2. ((k + 6) % 8) + 1 \in 1 .. 8 /\ (k % 8) + 1 \in 1 .. 8
  OBVIOUS
<1> DEFINE a == Cut(r * Cos10[((k + 6) % 8) + 1])
           b == Cut(r * Cos10[(k % 8) + 1])
<1>3. a \in -r .. r /\ b \in -r .. r
  BY <1>1, <1>2, CutBounds
<1>4. Polar(<<y, x>>, r, k) = <<y - a, x + b>>
  BY DEF Polar
<1> HIDE DEF a, b
<1>5. y - a \in y - r .. y + r /\ x + b \in x - r .. x + r
  BY <1>3
<1>6. y - r + (2 * r + 1) - 1 = y + r /\ x - r + (2 * r + 1) - 1 = x + r
  OBVIOUS
<1> QED
  BY <1>4, <1>5, <1>6, InRect

-----------------------------------------------------------------------------
(* Round widgets. *)

\* Colours for some of the pixels T.
Colouring(f, T) == \E S : S \subseteq T /\ f \in [S -> Colours]

\* An area of one colour.
LEMMA FillColours ==
  ASSUME NEW S, NEW T, S \subseteq T, NEW c \in Colours
  PROVE  Colouring(Fill(S, c), T)
<1>1. Fill(S, c) \in [S -> Colours]
  BY DEF Fill
<1> QED
  BY <1>1 DEF Colouring

\* Nothing painted.
LEMMA NoColours ==
  ASSUME NEW T
  PROVE  Colouring(<<>>, T)
<1>1. <<>> \in [{} -> Colours]
  OBVIOUS
<1> QED
  BY <1>1 DEF Colouring

\* One painting over another.
LEMMA ColoursUpon ==
  ASSUME NEW f, NEW g, NEW T, Colouring(f, T), Colouring(g, T)
  PROVE  Colouring(f ++ g, T)
<1>1. PICK A : A \subseteq T /\ f \in [A -> Colours]
  BY DEF Colouring
<1>2. PICK B : B \subseteq T /\ g \in [B -> Colours]
  BY DEF Colouring
<1>3. f ++ g \in [A \union B -> Colours]
  BY <1>1, <1>2 DEF ++
<1> QED
  BY <1>1, <1>2, <1>3 DEF Colouring

\* The centre of a round widget, and what is drawn around it.
Centre(W) == <<Home(W)[1] + W.diameter \div 2, Home(W)[2] + W.diameter \div 2>>
Square(W) == Box(Home(W), W.diameter, W.diameter)

\* A point of the circle lies in the square of the widget.
LEMMA PointInSquare ==
  ASSUME NEW W, WidgetOK(W), W.diameter \in Nat, NEW r \in Nat, 2 * r + 2 <= W.diameter \/ r <= W.diameter \div 2 - 1,
         NEW k \in Int
  PROVE  Polar(Centre(W), r, k) \in Square(W) /\ Centre(W) \in Int \X Int /\ Polar(Centre(W), r, k) \in Int \X Int
<1> DEFINE y == Home(W)[1] + W.diameter \div 2
           x == Home(W)[2] + W.diameter \div 2
<1>1. Home(W)[1] \in Nat /\ Home(W)[2] \in Nat
  BY HomeOK
<1>2. y \in Int /\ x \in Int /\ Centre(W) = <<y, x>>
  BY <1>1 DEF Centre
<1>3. /\ y - r >= Home(W)[1] /\ y - r + (2 * r + 1) <= Home(W)[1] + W.diameter
      /\ x - r >= Home(W)[2] /\ x - r + (2 * r + 1) <= Home(W)[2] + W.diameter
  BY <1>1
<1> HIDE DEF y, x
<1>4. Polar(<<y, x>>, r, k) \in Rect(y - r, x - r, 2 * r + 1, 2 * r + 1)
  BY <1>2, PolarInSquare
<1>5. Rect(y - r, x - r, 2 * r + 1, 2 * r + 1) \subseteq Square(W)
  <2>1. Rect(y - r, x - r, 2 * r + 1, 2 * r + 1) \subseteq Rect(Home(W)[1], Home(W)[2], W.diameter, W.diameter)
    BY <1>1, <1>2, <1>3, SubRect
  <2> QED
    BY <2>1 DEF Square, Box
<1>6. Polar(<<y, x>>, r, k) \in Int \X Int
  BY <1>2, <1>4 DEF Rect
<1> QED
  BY <1>2, <1>4, <1>5, <1>6

\* So does the ring ...
LEMMA RingInSquare ==
  ASSUME NEW W, WidgetOK(W), W.class \in {"arc", "ring"}, NEW ks \in SUBSET Int
  PROVE  Ring(Centre(W), Radii(W), ks) \subseteq Square(W)
<1>1. W.diameter \in Nat /\ W.thickness \in Nat
  BY DEF WidgetOK
<1>2. \A r \in Radii(W) : r \in Nat /\ r <= W.diameter \div 2 - 1
  BY <1>1 DEF Radii, AtLeast
<1>3. \A r \in Radii(W) : \A k \in ks : Polar(Centre(W), r, k) \in Square(W)
  BY <1>1, <1>2, PointInSquare
<1> QED
  BY <1>3 DEF Ring

\* What is between 0 and a is between 0 and a after any part of the way.
LEMMA PartOfTheWay ==
  ASSUME NEW a \in Int, NEW r \in Nat, a \in -r .. r, NEW n \in Nat \ {0}, NEW k \in 0 .. n
  PROVE  Toward0(a * k, n) \in -r .. r
<1>1. ASSUME NEW b \in 0 .. r PROVE b * k \in Nat /\ (b * k) \div n \in 0 .. r
  <2>1. b * k \in Nat /\ b * k <= r * n
    <3>1. r * n = b * k + b * (n - k) + (r - b) * n
      OBVIOUS
    <3>2. n - k \in Nat /\ r - b \in Nat /\ k \in Nat
      OBVIOUS
    <3>3. b * k \in Nat /\ b * (n - k) \in Nat /\ (r - b) * n \in Nat
      BY <3>2, Product
    <3> QED
      BY <3>1, <3>3
  <2> DEFINE m == b * k
             q == m \div n
  <2>2. m \in Nat /\ m <= r * n
    BY <2>1
  <2> HIDE DEF m
  <2>3. q \in Int /\ n * q <= m /\ m < n * q + n
    BY <2>2
  <2> HIDE DEF q
  <2>4. n * q <= r * n /\ n * q + n > 0
    BY <2>2, <2>3
  <2>5. q <= r
    <3>1. ASSUME q > r PROVE n * q > r * n
      <4>1. n * q = r * n + n * (q - r) /\ q - r \in Nat \ {0}
        BY <2>3, <3>1
      <4>2. \A c \in Nat \ {0} : n * c > 0
        OBVIOUS
      <4> QED
        BY <4>1, <4>2
    <3> QED
      BY <2>3, <2>4, <3>1
  <2>6. q >= 0
    <3>1. ASSUME q < 0 PROVE n * q + n <= 0
      <4>1. n * q + n = -(n * (-1 - q)) /\ -1 - q \in Nat
        BY <2>3, <3>1
      <4> QED
        BY <4>1, Product
    <3> QED
      BY <2>3, <2>4, <3>1
  <2>7. q \in 0 .. r
    BY <2>3, <2>5, <2>6
  <2> QED
    BY <2>2, <2>7 DEF q, m
<1>2. CASE a >= 0
  <2>1. a \in 0 .. r /\ a * k >= 0
    BY <1>1, <1>2
  <2>2. (a * k) \div n \in 0 .. r
    BY <1>1, <2>1
  <2> QED
    BY <2>1, <2>2 DEF Toward0
<1>3. CASE a < 0
  <2> DEFINE b == -a
  <2>1. b \in 0 .. r /\ a * k = -(b * k)
    BY <1>3
  <2> HIDE DEF b
  <2>2. b * k \in Nat /\ (b * k) \div n \in 0 .. r
    BY <1>1, <2>1
  <2>3. b * k = 0 => (b * k) \div n = 0
    OBVIOUS
  <2>4. Toward0(a * k, n) \in {(b * k) \div n, -((b * k) \div n)}
    <3>1. -(a * k) = b * k /\ (a * k >= 0 => a * k = b * k)
      BY <2>1, <2>2
    <3> QED
      BY <3>1 DEF Toward0
  <2> QED
    BY <2>2, <2>4
<1> QED
  BY <1>2, <1>3

\* The square of a gauge, as wide as its needle makes it.
NeedleBox(W) == Box(<<Home(W)[1] - Half(W), Home(W)[2] - Half(W)>>, W.diameter + 2 * Half(W), W.diameter + 2 * Half(W))

\* The pixels of a needle are those of a line, and half its width to either side.
LEMMA NeedleAround ==
  ASSUME NEW y \in Int, NEW x \in Int, NEW r \in Nat, NEW half \in Nat,
         NEW to, to \in Rect(y - r, x - r, 2 * r + 1, 2 * r + 1)
  PROVE  Needle(<<y, x>>, to, half) \subseteq
           Rect(y - r - half, x - r - half, 2 * r + 1 + 2 * half, 2 * r + 1 + 2 * half)
<1> DEFINE dy == to[1] - y
           dx == to[2] - x
           steps == AtLeast(Abs(dx), Abs(dy))
           base(k) == <<y + Toward0(dy * k, steps), x + Toward0(dx * k, steps)>>
<1>1. dy \in -r .. r /\ dx \in -r .. r
  BY InRect
<1>2. steps \in Nat
  BY <1>1 DEF AtLeast, Abs
<1>3. Needle(<<y, x>>, to, half) =
        IF steps = 0 THEN {}
        ELSE {<<base(k)[1] + o[1], base(k)[2] + o[2]>> : k \in 0 .. steps, o \in Stroke(dy, dx, half)}
  BY DEF Needle
<1> HIDE DEF dy, dx, steps
<1>4. ASSUME steps # 0, NEW k \in 0 .. steps, NEW o \in Stroke(dy, dx, half)
      PROVE  <<base(k)[1] + o[1], base(k)[2] + o[2]>> \in
               Rect(y - r - half, x - r - half, 2 * r + 1 + 2 * half, 2 * r + 1 + 2 * half)
  <2> DEFINE b1 == Toward0(dy * k, steps)
             b2 == Toward0(dx * k, steps)
  <2>1. b1 \in -r .. r /\ b2 \in -r .. r
    <3>1. dy \in Int /\ dx \in Int /\ steps \in Nat \ {0}
      BY <1>1, <1>2, <1>4
    <3> QED
      BY <1>1, <3>1, PartOfTheWay
  <2>2. o[1] \in -half .. half /\ o[2] \in -half .. half
    BY <1>4 DEF Stroke
  <2>3. base(k)[1] = y + b1 /\ base(k)[2] = x + b2
    OBVIOUS
  <2> HIDE DEF b1, b2, base
  <2>4. /\ base(k)[1] + o[1] \in y - r - half .. (y - r - half) + (2 * r + 1 + 2 * half) - 1
        /\ base(k)[2] + o[2] \in x - r - half .. (x - r - half) + (2 * r + 1 + 2 * half) - 1
    BY <2>1, <2>2, <2>3
  <2> QED
    BY <2>4, InRect
<1> QED
  BY <1>3, <1>4

\* So a needle of any length lies in that square.
LEMMA NeedleInBox ==
  ASSUME NEW W, WidgetOK(W), W.class = "arc", NEW r \in Nat, r <= W.diameter \div 2 - 1, NEW k \in Int
  PROVE  Needle(Centre(W), Polar(Centre(W), r, k), Half(W)) \subseteq NeedleBox(W)
<1> DEFINE y == Home(W)[1] + W.diameter \div 2
           x == Home(W)[2] + W.diameter \div 2
           half == Half(W)
<1>1. Home(W)[1] \in Nat /\ Home(W)[2] \in Nat /\ W.diameter \in Nat /\ half \in Nat
  <2>1. W.thick \in Nat /\ W.diameter \in Nat
    BY DEF WidgetOK
  <2> QED
    BY <2>1, HomeOK DEF Half
<1>2. y \in Int /\ x \in Int /\ Centre(W) = <<y, x>>
  BY <1>1 DEF Centre
<1>3. /\ y - r - half >= Home(W)[1] - half /\ x - r - half >= Home(W)[2] - half
      /\ y - r - half + (2 * r + 1 + 2 * half) <= Home(W)[1] - half + (W.diameter + 2 * half)
      /\ x - r - half + (2 * r + 1 + 2 * half) <= Home(W)[2] - half + (W.diameter + 2 * half)
  BY <1>1
<1> HIDE DEF y, x, half
<1>4. Polar(<<y, x>>, r, k) \in Rect(y - r, x - r, 2 * r + 1, 2 * r + 1)
  BY <1>2, PolarInSquare
<1> DEFINE to == Polar(<<y, x>>, r, k)
<1> HIDE DEF to
<1>5. Needle(<<y, x>>, to, half) \subseteq
        Rect(y - r - half, x - r - half, 2 * r + 1 + 2 * half, 2 * r + 1 + 2 * half)
  BY <1>1, <1>2, <1>4, NeedleAround DEF to
<1>6. Rect(y - r - half, x - r - half, 2 * r + 1 + 2 * half, 2 * r + 1 + 2 * half)
        \subseteq Rect(Home(W)[1] - half, Home(W)[2] - half, W.diameter + 2 * half, W.diameter + 2 * half)
  <2> DEFINE a == Home(W)[1]
             b == Home(W)[2]
             side == W.diameter
  <2>1. a \in Int /\ b \in Int /\ side \in Int
    BY <1>1
  <2>2. /\ y - r - half >= a - half /\ x - r - half >= b - half
        /\ y - r - half + (2 * r + 1 + 2 * half) <= a - half + (side + 2 * half)
        /\ x - r - half + (2 * r + 1 + 2 * half) <= b - half + (side + 2 * half)
    BY <1>3
  <2> HIDE DEF a, b, side
  <2>3. Rect(y - r - half, x - r - half, 2 * r + 1 + 2 * half, 2 * r + 1 + 2 * half)
          \subseteq Rect(a - half, b - half, side + 2 * half, side + 2 * half)
    BY <1>1, <1>2, <2>1, <2>2, SubRect
  <2> QED
    BY <2>3 DEF a, b, side
<1> QED
  BY <1>2, <1>5, <1>6 DEF to, half, NeedleBox, Box

\* What a round widget changes.
RoundFootprint(W) ==
  IF W.class = "arc" THEN NeedleBox(W) \union Disc(Centre(W), Dot(W))
  ELSE Square(W) \union Disc(Centre(W), W.diameter \div 2 + W.margin)

\* The square of a gauge lies in that of its needle.
LEMMA SquareInNeedleBox ==
  ASSUME NEW W, WidgetOK(W), W.class = "arc"
  PROVE  Square(W) \subseteq NeedleBox(W)
<1> DEFINE a == Home(W)[1]
           b == Home(W)[2]
           side == W.diameter
           half == Half(W)
<1>1. a \in Int /\ b \in Int /\ side \in Int /\ half \in Nat
  <2>1. W.thick \in Nat /\ W.diameter \in Nat
    BY DEF WidgetOK
  <2> QED
    BY <2>1, HomeOK DEF Half
<1>2. Square(W) = Rect(a, b, side, side) /\ NeedleBox(W) = Rect(a - half, b - half, side + 2 * half, side + 2 * half)
  BY DEF Square, NeedleBox, Box
<1> HIDE DEF a, b, side, half
<1> QED
  BY <1>1, <1>2, SubRect

\* The area of a round widget.
LEMMA RoundFootprints ==
  ASSUME NEW W, W.class \in {"arc", "ring"}
  PROVE  \A cols : Footprint(W, cols) = RoundFootprint(W)
  BY DEF Footprint, RoundFootprint, Square, NeedleBox, Centre

\* drv_generic_graphic_arc_draw() changes the square of its needle and the disc of its dot.
LEMMA ArcDrawn ==
  ASSUME NEW K, CanvasOK(K), NEW W, WidgetOK(W), W.class = "arc", NEW value \in Int
  PROVE  Drawn(K, W, arc_draw(K, W, value))
<1> DEFINE at == Home(W)
           d0 == W.diameter
           centre == Centre(W)
           big == resizeFB(K, at[1] + d0, at[2] + d0)
           k(i) == IF W.reverse THEN 4 - i ELSE i
           v == Clamp(value, 0, 4)
           back == IF W.background THEN Fill(On(big, Ring(centre, Radii(W), 0 .. 4)), W.bg) ELSE <<>>
           arc == Fill(On(big, Ring(centre, Radii(W), {k(i) : i \in 0 .. v - 1})), W.fg)
           needle == IF W.needle = 0 THEN <<>>
                     ELSE Fill(On(big, Needle(centre, Polar(centre, NeedleLength(W), k(v)), Half(W))), W.fg)
           dot == IF W.needle = 0 THEN <<>> ELSE Fill(On(big, Disc(centre, Dot(W))), W.fg)
           clear == Fill(Box(at, d0, d0), IF W.background THEN W.bg ELSE NO_COL)
           f == dot ++ needle ++ arc ++ back ++ clear
           out == arc_draw(K, W, value)
           T == Pixels(big) \cap RoundFootprint(W)
<1>1. /\ out.cv = Paint(big, W.layer, f) /\ out.win = blit(at[1], at[2], d0, d0)
  BY DEF arc_draw, Painted, Centre
<1>2. d0 \in Nat /\ W.layer \in Layers /\ W.fg \in Colours /\ W.bg \in Colours /\ NO_COL \in Colours
  BY Sizes DEF WidgetOK, Layers
<1>3. at[1] \in Nat /\ at[2] \in Nat
  BY HomeOK
<1>4. v \in 0 .. 4 /\ \A i \in Int : k(i) \in Int
  BY DEF Clamp
<1>5. CanvasOK(big) /\ Square(W) \subseteq Pixels(big)
  <2>0. at[1] + d0 \in Nat /\ at[2] + d0 \in Nat
    BY <1>2, <1>3
  <2>1. CanvasOK(big) /\ big.rows >= at[1] + d0 /\ big.cols >= at[2] + d0
    BY <2>0, Resized
  <2>2. big.rows \in Nat /\ big.cols \in Nat
    BY <2>1 DEF CanvasOK
  <2> HIDE DEF big
  <2>3. Rect(at[1], at[2], d0, d0) \subseteq Rect(0, 0, big.rows, big.cols)
    <3> DEFINE y == at[1]
               x == at[2]
    <3>1. /\ y \in Int /\ x \in Int /\ d0 \in Int /\ big.rows \in Int /\ big.cols \in Int
          /\ 0 <= y /\ 0 <= x /\ y + d0 <= 0 + big.rows /\ x + d0 <= 0 + big.cols
      BY <1>2, <1>3, <2>1, <2>2
    <3> HIDE DEF y, x, d0
    <3>2. Rect(y, x, d0, d0) \subseteq Rect(0, 0, big.rows, big.cols)
      BY <3>1, SubRect
    <3> QED
      BY <3>2 DEF y, x
  <2>4. Square(W) = Rect(at[1], at[2], d0, d0)
    BY DEF Square, Box
  <2>5. Pixels(big) = Rect(0, 0, big.rows, big.cols)
    BY DEF Pixels
  <2> HIDE DEF at, d0
  <2> QED
    BY <2>1, <2>3, <2>4, <2>5
<1> HIDE DEF out, v, k
<1>6. /\ Square(W) \subseteq T
      /\ \A S : S \subseteq Square(W) => On(big, S) \subseteq T
      /\ \A S : S \subseteq NeedleBox(W) => On(big, S) \subseteq T
      /\ On(big, Disc(centre, Dot(W))) \subseteq T
  <2> HIDE DEF big
  <2> QED
    BY <1>5, SquareInNeedleBox DEF RoundFootprint, On, Pixels
<1> HIDE DEF T, big
<1>7. Colouring(f, T)
  <2>1. Colouring(clear, T)
    <3>1. Box(at, d0, d0) \subseteq T
      BY <1>6 DEF Square
    <3> QED
      BY <1>2, <3>1, FillColours
  <2>2. Colouring(back, T)
    <3>1. Ring(centre, Radii(W), 0 .. 4) \subseteq Square(W)
      BY RingInSquare
    <3>2. On(big, Ring(centre, Radii(W), 0 .. 4)) \subseteq T
      BY <1>6, <3>1
    <3> QED
      BY <1>2, <3>2, FillColours, NoColours
  <2>3. Colouring(arc, T)
    <3>1. {k(i) : i \in 0 .. v - 1} \in SUBSET Int
      BY <1>4
    <3>2. Ring(centre, Radii(W), {k(i) : i \in 0 .. v - 1}) \subseteq Square(W)
      BY <3>1, RingInSquare
    <3>3. On(big, Ring(centre, Radii(W), {k(i) : i \in 0 .. v - 1})) \subseteq T
      BY <1>6, <3>2
    <3> QED
      BY <1>2, <3>3, FillColours
  <2>4. Colouring(needle, T)
    <3>1. k(v) \in Int
      BY <1>4
    <3>2. Needle(centre, Polar(centre, NeedleLength(W), k(v)), Half(W)) \subseteq NeedleBox(W)
      <4>1. NeedleLength(W) \in Nat /\ NeedleLength(W) <= d0 \div 2 - 1
        BY DEF WidgetOK, NeedleLength
      <4> QED
        BY <3>1, <4>1, NeedleInBox
    <3>3. On(big, Needle(centre, Polar(centre, NeedleLength(W), k(v)), Half(W))) \subseteq T
      BY <1>6, <3>2
    <3> QED
      BY <1>2, <3>3, FillColours, NoColours
  <2>5. Colouring(dot, T)
    BY <1>2, <1>6, FillColours, NoColours
  <2> HIDE DEF dot, needle, arc, back, clear
  <2> QED
    BY <2>1, <2>2, <2>3, <2>4, <2>5, ColoursUpon
<1> HIDE DEF f
<1>8. PICK S : S \subseteq T /\ f \in [S -> Colours]
  BY <1>7 DEF Colouring
<1>9. Holds(K, out.cv, W.layer, S, f)
  <2>1. S \subseteq Pixels(big)
    BY <1>8 DEF T
  <2>2. at[1] + d0 \in Nat /\ at[2] + d0 \in Nat
    BY <1>2, <1>3
  <2> HIDE DEF at, d0
  <2> QED
    BY <1>1, <1>2, <1>8, <2>1, <2>2, GrownAndPainted DEF big
<1>10. WinOK(out.win)
  BY <1>1, <1>2, <1>3, BlittedOK
<1>11. Footprint(W, out.cv.cols) = RoundFootprint(W)
  BY RoundFootprints
<1>12. S \subseteq RoundFootprint(W)
  BY <1>8 DEF T
<1> QED
  BY <1>9, <1>10, <1>11, <1>12 DEF Drawn, Holds, out

\* drv_generic_graphic_ring_draw() changes its square and the disc of its margin.
LEMMA RingDrawn ==
  ASSUME NEW K, CanvasOK(K), NEW W, WidgetOK(W), W.class = "ring", NEW value \in Int
  PROVE  Drawn(K, W, ring_draw(K, W, value))
<1> DEFINE at == Home(W)
           d0 == W.diameter
           centre == Centre(W)
           margin == Fill(On(K, Disc(centre, d0 \div 2 + W.margin)), NO_COL)
           cleared == Paint(K, W.layer, margin)
           big == resizeFB(cleared, at[1] + d0, at[2] + d0)
           k(i) == IF W.reverse THEN W.start - i ELSE W.start + i
           v == Clamp(value, 0, 8)
           back == IF W.background THEN Fill(On(big, Ring(centre, Radii(W), 0 .. 7)), W.bg) ELSE <<>>
           ring == IF v = 0 THEN <<>>
                   ELSE Fill(On(big, Ring(centre, Radii(W), {(k(i) + 8) % 8 : i \in 0 .. v})), W.fg)
           f == ring ++ back
           out == ring_draw(K, W, value)
           T == Pixels(big) \cap RoundFootprint(W)
<1>1. /\ out.cv = Paint(big, W.layer, f) /\ out.win = blit(at[1], at[2], d0 + W.margin, d0 + W.margin)
  BY DEF ring_draw, Painted, Centre
<1>2. /\ d0 \in Nat /\ W.layer \in Layers /\ W.fg \in Colours /\ W.bg \in Colours /\ NO_COL \in Colours
      /\ W.start \in Nat /\ W.margin \in Nat
  BY Sizes DEF WidgetOK, Layers
<1>3. at[1] \in Nat /\ at[2] \in Nat
  BY HomeOK
<1>4. v \in 0 .. 8 /\ \A i \in Int : (k(i) + 8) % 8 \in Int
  BY <1>2 DEF Clamp
<1>5. /\ CanvasOK(cleared) /\ cleared.rows = K.rows /\ cleared.cols = K.cols /\ Pixels(cleared) = Pixels(K)
      /\ \A l \in Layers : \A p \in Pixels(K) :
           cleared.fb[l][p] # K.fb[l][p] => l = W.layer /\ p \in RoundFootprint(W)
  <2> DEFINE S == On(K, Disc(centre, d0 \div 2 + W.margin))
  <2>1. S \subseteq Pixels(K) /\ S \subseteq RoundFootprint(W)
    BY DEF On, Pixels, RoundFootprint
  <2>2. margin \in [S -> Colours]
    BY <1>2 DEF Fill
  <2> HIDE DEF S, margin
  <2>3. Alike(K, K, W.layer, RoundFootprint(W))
    BY DEF Alike
  <2>4. /\ CanvasOK(cleared) /\ cleared.rows = K.rows /\ cleared.cols = K.cols
        /\ Alike(cleared, K, W.layer, RoundFootprint(W))
    BY <1>2, <2>1, <2>2, <2>3, PaintedAlike
  <2> HIDE DEF cleared
  <2> QED
    BY <2>4 DEF Pixels, Alike
<1> HIDE DEF cleared, out, v, k
<1>6. /\ \A S : S \subseteq Square(W) => On(big, S) \subseteq T
  <2> HIDE DEF big
  <2> QED
    BY DEF RoundFootprint, On, Pixels
<1> HIDE DEF T, big
<1>7. Colouring(f, T)
  <2>2. Colouring(back, T)
    <3>1. Ring(centre, Radii(W), 0 .. 7) \subseteq Square(W)
      BY RingInSquare
    <3>2. On(big, Ring(centre, Radii(W), 0 .. 7)) \subseteq T
      BY <1>6, <3>1
    <3> QED
      BY <1>2, <3>2, FillColours, NoColours
  <2>3. Colouring(ring, T)
    <3> DEFINE ks == {(k(i) + 8) % 8 : i \in 0 .. v}
    <3>1. ks \in SUBSET Int
      BY <1>4
    <3>2. Ring(centre, Radii(W), ks) \subseteq Square(W)
      BY <3>1, RingInSquare
    <3>3. On(big, Ring(centre, Radii(W), ks)) \subseteq T
      BY <1>6, <3>2
    <3> QED
      BY <1>2, <3>3, FillColours, NoColours
  <2> HIDE DEF ring, back
  <2> QED
    BY <2>2, <2>3, ColoursUpon
<1> HIDE DEF f
<1>8. PICK S : S \subseteq T /\ f \in [S -> Colours]
  BY <1>7 DEF Colouring
<1>9. Holds(cleared, out.cv, W.layer, S, f)
  <2>1. S \subseteq Pixels(big)
    BY <1>8 DEF T
  <2>2. at[1] + d0 \in Nat /\ at[2] + d0 \in Nat
    BY <1>2, <1>3
  <2> HIDE DEF at, d0
  <2> QED
    BY <1>1, <1>2, <1>5, <1>8, <2>1, <2>2, GrownAndPainted DEF big
<1>10. WinOK(out.win)
  <2>1. d0 + W.margin \in Nat
    BY <1>2
  <2> HIDE DEF d0, at
  <2> QED
    BY <1>1, <1>3, <2>1, BlittedOK
<1>11. Footprint(W, out.cv.cols) = RoundFootprint(W)
  BY RoundFootprints
<1>12. S \subseteq RoundFootprint(W)
  BY <1>8 DEF T
<1> HIDE DEF out
<1> QED
  BY <1>5, <1>9, <1>10, <1>11, <1>12 DEF Drawn, Holds, out

-----------------------------------------------------------------------------
(* Blending. *)

\* Over() needs no case for a transparent layer.
Mixed(q, r) == IF q.a = MaxV THEN q.v ELSE (q.v * q.a + r * (MaxV - q.a)) \div MaxV

\* An opaque layer, a transparent one and one in between are mixed alike, within bounds.
LEMMA OverIsMixed ==
  ASSUME NEW q \in Colours, NEW r \in 0 .. MaxV
  PROVE  Over(q, r) = Mixed(q, r) /\ Mixed(q, r) \in 0 .. MaxV
<1>1. q.v \in 0 .. MaxV /\ q.a \in 0 .. MaxV /\ MaxV \in Nat /\ MaxV > 0
  BY Sizes DEF Colours
<1> DEFINE v == q.v
           a == q.a
<1>2. v \in 0 .. MaxV /\ a \in 0 .. MaxV
  BY <1>1
<1> HIDE DEF v, a
<1>3. v * a + r * (MaxV - a) \in 0 .. MaxV * MaxV
  <2>1. v * a \in Nat /\ v * a <= MaxV * a
    <3>1. v * a \in Nat /\ (MaxV - v) * a \in Nat
      BY <1>1, <1>2, Product
    <3> QED
      BY <1>1, <1>2, <3>1
  <2>2. r * (MaxV - a) \in Nat /\ r * (MaxV - a) <= MaxV * (MaxV - a)
    <3>1. r * (MaxV - a) \in Nat /\ (MaxV - r) * (MaxV - a) \in Nat
      <4>1. r \in Nat /\ MaxV - a \in Nat /\ MaxV - r \in Nat
        BY <1>1, <1>2
      <4> QED
        BY <4>1, Product
    <3> QED
      BY <1>1, <1>2, <3>1
  <2>3. MaxV * a + MaxV * (MaxV - a) = MaxV * MaxV /\ MaxV * MaxV \in Nat
    BY <1>1, <1>2
  <2>4. MaxV * a \in Int /\ MaxV * (MaxV - a) \in Int
    BY <1>1, <1>2
  <2> QED
    BY <2>1, <2>2, <2>3, <2>4
<1>4. \A x \in 0 .. MaxV * MaxV : x \div MaxV \in 0 .. MaxV
  BY <1>1
<1>5. a = 0 => (v * a + r * (MaxV - a)) \div MaxV = r
  <2>1. SUFFICES ASSUME a = 0 PROVE (r * MaxV) \div MaxV = r
    BY <1>1, <1>2
  <2> QED
    BY <1>1
<1>6. (v * a + r * (MaxV - a)) \div MaxV \in 0 .. MaxV
  BY <1>3, <1>4
<1> QED
  BY <1>1, <1>2, <1>5, <1>6 DEF Over, Mixed, v, a

\* Layers laid over each other, from the one behind.
LayersOf(q, N) == [k \in 1 .. N |-> [r \in 0 .. MaxV |-> Mixed(q[k], r)]]
IsBlend(f, q, N) ==
  /\ f \in [0 .. N -> 0 .. MaxV] /\ f[0] = BL_COL.v
  /\ \A k \in 1 .. N : f[k] = Mixed(q[k], f[k - 1])

\* Layers can be blended ...
LEMMA BlendRuns ==
  ASSUME NEW N \in Nat, NEW q \in [1 .. N -> Colours]
  PROVE  \E f : IsBlend(f, q, N)
<1> DEFINE step == LayersOf(q, N)
           V == 0 .. MaxV
<1>1. BL_COL.v \in V
  BY Sizes DEF Colours
<1>2. \A c \in Colours, r \in V : Mixed(c, r) \in V
  BY OverIsMixed
<1>3. step \in [1 .. N -> [V -> V]]
  BY <1>2 DEF LayersOf
<1>4. LoopOf(N, V, BL_COL.v, step)
  BY <1>1, <1>3 DEF LoopOf
<1>5. PICK f : IsRun(f, N, V, BL_COL.v, step)
  <2> HIDE DEF V, step
  <2> QED
    BY <1>4, LoopRuns
<1>6. f \in [0 .. N -> V] /\ f[0] = BL_COL.v /\ \A k \in 1 .. N : f[k] = step[k][f[k - 1]]
  BY <1>5 DEF IsRun
<1>7. \A k \in 1 .. N : f[k] = Mixed(q[k], f[k - 1])
  <2> SUFFICES ASSUME NEW k \in 1 .. N PROVE f[k] = Mixed(q[k], f[k - 1])
    OBVIOUS
  <2>1. k - 1 \in 0 .. N
    OBVIOUS
  <2>2. f[k - 1] \in V
    BY <1>6, <2>1
  <2>3. f[k] = step[k][f[k - 1]]
    BY <1>6
  <2> QED
    BY <2>2, <2>3 DEF LayersOf
<1> QED
  BY <1>6, <1>7 DEF IsBlend

\* ... and what each step of the loop of drv_generic_graphic_blend() yields is that blend.
LEMMA IsABlend ==
  ASSUME NEW N \in Nat, NEW q \in [1 .. N -> Colours], NEW f, f = [k \in 0 .. N |-> f[k]], f[0] = BL_COL.v,
         \A k \in 1 .. N : f[k] = Mixed(q[k], f[k - 1]) \/ f[k] = Over(q[k], f[k - 1])
  PROVE  IsBlend(f, q, N)
<1> DEFINE V == 0 .. MaxV
           P == {k \in 0 .. N : f[k] \in V}
<1>1. 0 \in P
  <2>1. BL_COL.v \in V
    BY Sizes DEF Colours
  <2> QED
    BY <2>1
<1>2. ASSUME NEW k \in 1 .. N, f[k - 1] \in V PROVE f[k] \in V /\ f[k] = Mixed(q[k], f[k - 1])
  <2>1. q[k] \in Colours
    OBVIOUS
  <2>2. Over(q[k], f[k - 1]) = Mixed(q[k], f[k - 1]) /\ Mixed(q[k], f[k - 1]) \in V
    BY <1>2, <2>1, OverIsMixed
  <2> QED
    BY <2>2
<1>3. ASSUME NEW k \in 1 .. N, k - 1 \in P PROVE k \in P
  <2>1. f[k - 1] \in V /\ k \in 0 .. N
    BY <1>3
  <2>2. f[k] \in V
    BY <1>2, <2>1
  <2> HIDE DEF V
  <2> QED
    BY <2>1, <2>2
<1>4. \A k \in 0 .. N : k \in P
  <2> HIDE DEF P
  <2> QED
    BY <1>1, <1>3, LoopInvariant
<1>5. \A k \in 1 .. N : f[k] = Mixed(q[k], f[k - 1])
  <2> SUFFICES ASSUME NEW k \in 1 .. N PROVE f[k] = Mixed(q[k], f[k - 1])
    OBVIOUS
  <2>1. k - 1 \in P
    BY <1>4
  <2> QED
    BY <1>2, <2>1
<1>6. f \in [0 .. N -> V]
  <2>1. \A k \in 0 .. N : f[k] \in V
    BY <1>4
  <2> HIDE DEF V
  <2> QED
    BY <2>1
<1> QED
  BY <1>5, <1>6 DEF IsBlend

\* Two runs that have the same layers in front, the rearmost of them opaque
\* or the same background behind it, end alike.
TwoBlends(q, N, f, s, M, g) ==
  /\ N \in Nat /\ M \in Nat /\ 1 <= M /\ M <= N
  /\ q \in [1 .. N -> Colours] /\ s \in [1 .. M -> Colours]
  /\ \A k \in 1 .. M : s[k] = q[N - M + k]
  /\ M = N \/ s[1].a = MaxV
  /\ IsBlend(f, q, N) /\ IsBlend(g, s, M)

\* So they end alike.
LEMMA SameEnd ==
  ASSUME NEW N, NEW M, NEW q, NEW s, NEW f, NEW g, TwoBlends(q, N, f, s, M, g)
  PROVE  f[N] = g[M]
<1> USE DEF TwoBlends, IsBlend
<1> DEFINE P == {k \in 0 .. M : k = 0 \/ f[N - M + k] = g[k]}
<1>1. 0 \in P
  OBVIOUS
<1>2. ASSUME NEW k \in 1 .. M, k - 1 \in P PROVE k \in P
  <2>1. N - M + k \in 1 .. N /\ (N - M + k) - 1 = N - M + (k - 1)
    OBVIOUS
  <2>2. f[N - M + k] = Mixed(s[k], f[N - M + (k - 1)]) /\ g[k] = Mixed(s[k], g[k - 1])
    BY <2>1
  <2>3. CASE k = 1 /\ M = N
    BY <2>2, <2>3
  <2>4. CASE k = 1 /\ s[1].a = MaxV
    BY <2>2, <2>4 DEF Mixed
  <2>5. CASE k # 1
    <3>1. f[N - M + (k - 1)] = g[k - 1]
      BY <1>2, <2>5
    <3> QED
      BY <2>2, <3>1
  <2> QED
    BY <2>3, <2>4, <2>5
<1> HIDE DEF P
<1>3. M \in Nat
  OBVIOUS
<1>4. M \in P
  <2>1. \A k \in 0 .. M : k \in P
    BY <1>1, <1>2, <1>3, LoopInvariant
  <2> QED
    BY <1>3, <2>1
<1> QED
  BY <1>4 DEF P

\* Of a canvas: the layers composed without skipping any.
ComposedOf(K, inverted, p) ==
  LET behind[k \in 0 .. LAYERS] ==
        IF k = 0 THEN BL_COL.v
        ELSE LET q == K.fb[LAYERS - k][p] IN
             IF q.a = MaxV THEN q.v ELSE (q.v * q.a + behind[k - 1] * (MaxV - q.a)) \div MaxV
  IN IF inverted THEN MaxV - behind[LAYERS] ELSE behind[LAYERS]

\* The layers of a pixel, from the one behind.
LayersAt(K, p) == [k \in 1 .. LAYERS |-> K.fb[LAYERS - k][p]]
Shade(inverted, v) == IF inverted THEN MaxV - v ELSE v

\* drv_generic_graphic_blend(), which starts at the first opaque layer, yields
\* the composition of all layers.
LEMMA BlendComposes ==
  ASSUME NEW K, CanvasOK(K), NEW inverted, NEW p \in Pixels(K)
  PROVE  \E f : /\ IsBlend(f, LayersAt(K, p), LAYERS)
                /\ blend(K, inverted, p) = Shade(inverted, f[LAYERS])
                /\ ComposedOf(K, inverted, p) = Shade(inverted, f[LAYERS])
<1> DEFINE N == LAYERS
           o == FirstOpaque(K, p)
           M == o + 1
           q == [k \in 1 .. N |-> K.fb[N - k][p]]
           s == [k \in 1 .. M |-> K.fb[M - k][p]]
           IsB(f) == f = [k \in 0 .. N |-> IF k = 0 THEN BL_COL.v
                            ELSE LET c == K.fb[N - k][p] IN
                                 IF c.a = MaxV THEN c.v ELSE (c.v * c.a + f[k - 1] * (MaxV - c.a)) \div MaxV]
           R(k, y) == Over(K.fb[o + 1 - k][p], y)
           IsR(f) == f = [k \in 0 .. o + 1 |-> IF k = 0 THEN BL_COL.v ELSE R(k, f[k - 1])]
           behind == CHOOSE f : IsB(f)
           ret == CHOOSE f : IsR(f)
<1>1. N \in Nat /\ N > 0 /\ Layers = 0 .. N - 1 /\ DOMAIN K.fb = Layers
      /\ \A l \in Layers : K.fb[l][p] \in Colours
  BY Sizes DEF Layers, CanvasOK, Canvas, Pixels
<1>2. o \in Layers /\ (o = N - 1 \/ K.fb[o][p].a = MaxV)
  <2> DEFINE opaque == {l \in DOMAIN K.fb : K.fb[l][p].a = MaxV}
  <2>1. CASE opaque = {}
    BY <1>1, <2>1 DEF FirstOpaque
  <2>2. CASE opaque # {}
    <3>1. opaque \in SUBSET Nat
      BY <1>1
    <3>2. Min(opaque) \in opaque
      <4> HIDE DEF opaque
      <4> QED
        BY <2>2, <3>1, MinProperty
    <3> QED
      BY <1>1, <2>2, <3>2 DEF FirstOpaque
  <2> QED
    BY <2>1, <2>2
<1> HIDE DEF o
<1>3. M \in Nat /\ 1 <= M /\ M <= N
  BY <1>1, <1>2
<1>4. q \in [1 .. N -> Colours] /\ s \in [1 .. M -> Colours]
  BY <1>1, <1>3
<1>5. \A k \in 1 .. M : s[k] = q[N - M + k]
  <2> SUFFICES ASSUME NEW k \in 1 .. M PROVE s[k] = q[N - M + k]
    OBVIOUS
  <2>1. N - M + k \in 1 .. N /\ N - (N - M + k) = M - k
    BY <1>1, <1>3
  <2> QED
    BY <2>1
<1>6. M = N \/ s[1].a = MaxV
  BY <1>1, <1>2, <1>3
<1>7. PICK f : IsBlend(f, q, N)
  BY <1>1, <1>4, BlendRuns
<1>8. PICK g : IsBlend(g, s, M)
  BY <1>3, <1>4, BlendRuns
<1>9. IsB(f)
  <2>1. f = [k \in 0 .. N |-> f[k]]
    BY <1>7 DEF IsBlend
  <2>2. ASSUME NEW k \in 0 .. N, k # 0 PROVE f[k] = Mixed(K.fb[N - k][p], f[k - 1])
    <3>1. k \in 1 .. N
      BY <1>1, <2>2
    <3> QED
      BY <1>7, <3>1 DEF IsBlend
  <2>3. f[0] = BL_COL.v
    BY <1>7 DEF IsBlend
  <2>4. f = [k \in 0 .. N |-> IF k = 0 THEN BL_COL.v ELSE Mixed(K.fb[N - k][p], f[k - 1])]
    BY <2>1, <2>2, <2>3
  <2> QED
    BY <2>4 DEF Mixed
<1>10. IsR(g)
  <2>1. g = [k \in 0 .. M |-> g[k]]
    BY <1>8 DEF IsBlend
  <2>2. ASSUME NEW k \in 0 .. M, k # 0 PROVE g[k] = Over(K.fb[M - k][p], g[k - 1])
    <3>1. k \in 1 .. M /\ k - 1 \in 0 .. M
      BY <1>3, <2>2
    <3>2. g[k] = Mixed(s[k], g[k - 1]) /\ g[k - 1] \in 0 .. MaxV
      BY <1>8, <3>1 DEF IsBlend
    <3>3. s[k] = K.fb[M - k][p] /\ s[k] \in Colours
      BY <1>4, <3>1
    <3> QED
      BY <3>2, <3>3, OverIsMixed
  <2>3. g[0] = BL_COL.v
    BY <1>8 DEF IsBlend
  <2>4. \A k \in 0 .. o + 1 : g[k] = IF k = 0 THEN BL_COL.v ELSE R(k, g[k - 1])
    BY <1>1, <1>2, <2>2, <2>3
  <2>5. g = [k \in 0 .. o + 1 |-> g[k]]
    BY <2>1
  <2> HIDE DEF R, q, s
  <2> QED
    BY <2>4, <2>5
<1>11. IsB(behind) /\ IsR(ret)
  <2> HIDE DEF IsB, IsR
  <2> QED
    BY <1>9, <1>10
<1> HIDE DEF behind, ret
<1>12. IsBlend(behind, q, N)
  <2>1. behind = [k \in 0 .. N |-> behind[k]] /\ behind[0] = BL_COL.v
    BY <1>1, <1>11
  <2>2. ASSUME NEW k \in 1 .. N PROVE behind[k] = Mixed(q[k], behind[k - 1])
    <3>1. k \in 0 .. N /\ k # 0
      OBVIOUS
    <3>2. behind[k] = Mixed(K.fb[N - k][p], behind[k - 1])
      BY <1>11, <3>1 DEF Mixed
    <3> QED
      BY <3>2
  <2> HIDE DEF IsB, q, N
  <2> QED
    BY <1>1, <1>4, <2>1, <2>2, IsABlend
<1>13. IsBlend(ret, s, M)
  <2>1. ret = [k \in 0 .. M |-> ret[k]] /\ ret[0] = BL_COL.v
    BY <1>3, <1>11
  <2>2. ASSUME NEW k \in 1 .. M PROVE ret[k] = Over(s[k], ret[k - 1])
    <3>1. k \in 0 .. M /\ k # 0
      BY <1>3
    <3>2. ret[k] = R(k, ret[k - 1])
      <4> HIDE DEF R, q, s
      <4> QED
        BY <1>11, <3>1
    <3>3. R(k, ret[k - 1]) = Over(s[k], ret[k - 1])
      BY <1>1, <1>2
    <3> QED
      BY <3>2, <3>3
  <2> HIDE DEF IsR, s, M
  <2> QED
    BY <1>3, <1>4, <2>1, <2>2, IsABlend
<1>14. behind[N] = ret[M]
  <2>1. N \in Nat
    BY <1>1
  <2> HIDE DEF q, s, N, M, R, IsB, IsR
  <2>2. TwoBlends(q, N, behind, s, M, ret)
    BY <2>1, <1>3, <1>4, <1>5, <1>6, <1>12, <1>13 DEF TwoBlends
  <2> QED
    BY <2>2, SameEnd
<1>15. blend(K, inverted, p) = Shade(inverted, ret[M])
  BY DEF blend, ret, o, Shade
<1>16. ComposedOf(K, inverted, p) = Shade(inverted, behind[N])
  BY DEF ComposedOf, behind, Shade
<1>17. q = LayersAt(K, p)
  BY DEF LayersAt
<1> HIDE DEF q, N, M
<1>18. IsBlend(behind, LayersAt(K, p), N)
  BY <1>12, <1>17
<1>19. \E h : /\ IsBlend(h, LayersAt(K, p), N)
              /\ blend(K, inverted, p) = Shade(inverted, h[N])
              /\ ComposedOf(K, inverted, p) = Shade(inverted, h[N])
  BY <1>14, <1>15, <1>16, <1>18
<1> QED
  BY <1>19 DEF N

\* What is seen in a pixel depends on its layers only.
LEMMA BlendAlike ==
  ASSUME NEW K, CanvasOK(K), NEW L, CanvasOK(L), NEW inverted, NEW p \in Pixels(K) \cap Pixels(L),
         \A l \in Layers : K.fb[l][p] = L.fb[l][p]
  PROVE  blend(K, inverted, p) = blend(L, inverted, p)
<1> DEFINE q == LayersAt(K, p)
           N == LAYERS
<1>1. PICK f : IsBlend(f, q, N) /\ blend(K, inverted, p) = Shade(inverted, f[N])
  BY BlendComposes
<1>2. PICK g : IsBlend(g, LayersAt(L, p), N) /\ blend(L, inverted, p) = Shade(inverted, g[N])
  BY BlendComposes
<1>3. N \in Nat /\ N > 0 /\ Layers = 0 .. N - 1
  BY Sizes DEF Layers
<1>4. LayersAt(L, p) = q
  BY <1>3 DEF LayersAt
<1>5. q \in [1 .. N -> Colours]
  <2>1. \A l \in Layers : K.fb[l][p] \in Colours
    BY DEF CanvasOK, Canvas, Pixels
  <2>2. \A k \in 1 .. N : N - k \in Layers
    BY <1>3
  <2> QED
    BY <2>1, <2>2 DEF LayersAt
<1> HIDE DEF q, N
<1>6. TwoBlends(q, N, f, q, N, g)
  BY <1>1, <1>2, <1>3, <1>4, <1>5 DEF TwoBlends
<1>7. f[N] = g[N]
  BY <1>6, SameEnd
<1> QED
  BY <1>1, <1>2, <1>7

-----------------------------------------------------------------------------
(* Drivers. *)

\* The buffer and the display of a driver have the pixels of the screen.
DevOK(e) ==
  /\ {"buf", "dev"} \subseteq DOMAIN e
  /\ DOMAIN e.buf = Screen /\ DOMAIN e.dev = Screen

\* What the driver does with its buffer and the display keeps their size.
LEMMA PutOK ==
  ASSUME NEW e, DevOK(e), NEW img, NEW win, WinOK(win)
  PROVE  DevOK(Put(e, img, win))
  BY DEF DevOK, Put, WinOK, ++

\* So does sending,
LEMMA SendOK ==
  ASSUME NEW e, DevOK(e), NEW S, S \subseteq Screen
  PROVE  DevOK(Send(e, S))
  BY DEF DevOK, Send, ++

\* and they have it at the start,
LEMMA AllocatedOK ==
  ASSUME NEW buf, NEW dev
  PROVE  DevOK(Allocated(buf, dev))
  BY DEF DevOK, Allocated, Fill

\* whatever other fields a driver has.
LEMMA WithMoreOK ==
  ASSUME NEW e, DevOK(e), NEW f, DOMAIN f \cap {"buf", "dev"} = {}
  PROVE  DevOK(f ++ e)
  BY DEF DevOK, ++

\* Clearing the display.
LEMMA ClearOK ==
  ASSUME NEW e, DevOK(e)
  PROVE  DevOK(drv_MDM166A_clear(e)) /\ DevOK(drv_pLG_clear(e))
  BY DEF DevOK, drv_MDM166A_clear, drv_pLG_clear, Fill

\* The start of each of the nineteen drivers.
LEMMA StartedOK ==
  ASSUME NEW c \in Cases
  PROVE  DevOK(Started(c))
<1>0. c.driver \in Mono \union Colour
  BY SceneAssumption DEF OptionsOK, Drivers
<1>1. \A buf, dev : DevOK(Allocated(buf, dev))
  BY AllocatedOK
<1>2. CASE c.driver \in {"LUIse", "D4D", "serdisplib", "G15", "st2205", "GLCD2USB", "SamsungSPF", "Image"}
  BY <1>1, <1>2 DEF Started, drv_LUIse_start, drv_D4D_start, drv_SD_start, drv_G15_start, drv_st2205_start2,
                    drv_GLCD2USB_start, drv_SamsungSPF_start, drv_IMG_start
<1>3. CASE c.driver \in {"EA232graphic", "MatrixOrbitalGX", "PICGraphic", "T6963"}
  BY <1>1, <1>3, WithMoreOK
     DEF Started, drv_EA232graphic_start, drv_MOGX_start, drv_PICGraphic_start2, drv_T6_start
<1>4. CASE c.driver = "LPH7508"
  <2>1. \A ctl : DevOK([ctl |-> ctl] ++ Allocated(0, Unknown))
    BY <1>1, WithMoreOK
  <2>2. \A e : DevOK(e) => DevOK(drv_L7_clear(e))
    BY DEF DevOK, drv_L7_clear, Fill
  <2> QED
    BY <1>4, <2>1, <2>2 DEF Started, drv_L7_start
<1>5. CASE c.driver = "X11"
  BY <1>5 DEF Started, drv_X11_start, DevOK, Allocated, Fill, ++
<1>6. CASE c.driver = "dpf"
  BY <1>6, <1>1, WithMoreOK DEF Started, drv_dpf_start, DevOK
<1>7. CASE c.driver \in {"LEDMatrix", "vnc"}
  BY <1>7, <1>1, WithMoreOK DEF Started, drv_LEDMatrix_start, drv_vnc_start
<1>8. CASE c.driver = "mdm166a"
  BY <1>8, <1>1, WithMoreOK, ClearOK DEF Started, drv_MDM166A_start
<1>9. CASE c.driver = "picoLCDGraphic"
  BY <1>9, <1>1, WithMoreOK, ClearOK DEF Started, drv_pLG_start
<1> QED
  BY <1>0, <1>2, <1>3, <1>4, <1>5, <1>6, <1>7, <1>8, <1>9 DEF Mono, Colour

\* The blit of X11, which its brightness uses, too.
LEMMA X11OK ==
  ASSUME NEW e, DevOK(e), NEW img, NEW win, WinOK(win)
  PROVE  DevOK(drv_X11_blit(e, img, win))
<1>1. DevOK(Put(e, img, win))
  BY PutOK
<1>2. Changed(e, img, win) \subseteq Screen
  BY DEF Changed, WinOK
<1> QED
  BY <1>1, <1>2 DEF drv_X11_blit, DevOK, Fill, ++

\* The blit of each driver.
LEMMA BlitsOK ==
  ASSUME NEW e, DevOK(e), NEW img, NEW win, WinOK(win)
  PROVE  /\ DevOK(drv_LUIse_blit(e, img, win)) /\ DevOK(drv_D4D_blit(e, img, win))
         /\ DevOK(drv_SD_blit(e, img, win)) /\ DevOK(drv_EA232graphic_blit(e, img, win))
         /\ DevOK(drv_G15_blit(e, img, win)) /\ DevOK(drv_MOGX_blit(e, img, win))
         /\ DevOK(drv_st2205_blit(e, img, win)) /\ DevOK(drv_PICGraphic_blit(e, img, win))
         /\ \A o \in drv_LEDMatrix_blit(e, img, win) : DevOK(o)
         /\ DevOK(drv_T6_blit(e, img, win)) /\ DevOK(drv_L7_blit(e, img, win))
         /\ DevOK(drv_GLCD2USB_blit(e, img, win)) /\ DevOK(drv_dpf_blit(e, img, win))
         /\ DevOK(drv_MDM166A_blit(e, img, win)) /\ DevOK(drv_SamsungSPF_blit(e, img, win))
         /\ DevOK(drv_IMG_blit(e, img, win)) /\ DevOK(drv_pLG_blit(e, img, win))
         /\ DevOK(drv_X11_blit(e, img, win)) /\ DevOK(drv_vnc_blit(e, img, win))
<1>1. \A im : DevOK(Put(e, im, win))
  BY PutOK
<1>2. Win(win) \subseteq Screen
  BY DEF WinOK
<1>3. \A b, S : DevOK(b) /\ S \subseteq Screen => DevOK(Send(b, S))
  BY SendOK
<1>4. /\ DevOK(drv_LUIse_blit(e, img, win)) /\ DevOK(drv_D4D_blit(e, img, win))
      /\ DevOK(drv_SD_blit(e, img, win)) /\ DevOK(drv_st2205_blit(e, img, win))
  BY <1>1, <1>2, <1>3 DEF drv_LUIse_blit, drv_D4D_blit, drv_SD_blit, drv_st2205_blit
<1>5. DevOK(drv_EA232graphic_blit(e, img, win))
  <2>1. \A pr, bits : DOMAIN EA232_Unpack(pr, win, bits) = Win(win)
    BY DEF EA232_Unpack
  <2> QED
    BY <1>2, <2>1 DEF drv_EA232graphic_blit, DevOK, ++
<1>6. DevOK(drv_G15_blit(e, img, win))
  BY <1>1, <1>3 DEF drv_G15_blit, G15_Sent
<1>7. DevOK(drv_MOGX_blit(e, img, win))
  <2>1. \A b : DevOK(b) => DevOK(drv_MOGX_update_lcd(b))
    BY DEF drv_MOGX_update_lcd, DevOK
  <2> QED
    BY <1>1, <2>1 DEF drv_MOGX_blit
<1>8. DevOK(drv_PICGraphic_blit(e, img, win))
  <2>1. \A b : DevOK(b) => DevOK([b EXCEPT !.delayDone = FALSE, !.late = FALSE]) /\ DevOK([b EXCEPT !.late = TRUE])
    BY DEF DevOK
  <2> QED
    BY <1>1, <1>3, <2>1 DEF drv_PICGraphic_blit
<1>9. \A o \in drv_LEDMatrix_blit(e, img, win) : DevOK(o)
  <2> DEFINE b == Put(e, [p \in Screen |-> IF 2 * img[p] >= MaxV THEN MaxV ELSE 0], win)
             s == Send(b, Screen)
  <2>2. DevOK(b) /\ DevOK(s)
    BY <1>1, <1>3
  <2>3. \A o \in drv_LEDMatrix_blit(e, img, win) :
          \E n : o = [s EXCEPT !.late = n, !.lost = FALSE] \/ o = [b EXCEPT !.late = n, !.lost = TRUE]
    BY DEF drv_LEDMatrix_blit
  <2> HIDE DEF b, s
  <2> SUFFICES ASSUME NEW o \in drv_LEDMatrix_blit(e, img, win) PROVE DevOK(o)
    OBVIOUS
  <2>4. PICK n : o = [s EXCEPT !.late = n, !.lost = FALSE] \/ o = [b EXCEPT !.late = n, !.lost = TRUE]
    BY <2>3
  <2>5. DevOK([s EXCEPT !.late = n, !.lost = FALSE]) /\ DevOK([b EXCEPT !.late = n, !.lost = TRUE])
    BY <2>2 DEF DevOK
  <2> QED
    BY <2>4, <2>5
<1>10. DevOK(drv_T6_blit(e, img, win))
  BY <1>1 DEF drv_T6_blit, DevOK, ++, InBytes
<1>11. DevOK(drv_L7_blit(e, img, win))
  <2> DEFINE taken == {p \in Win(win) : p[1] < L7_Rows}
             b == [e EXCEPT !.buf = [p \in taken |-> Bit(img)[p]] ++ @]
             pages == {pg \in win.r \div Byte .. (win.r + win.h) \div Byte : pg < (DROWS + Byte - 1) \div Byte}
             sent == UNION {UNION {L7_Cell(pg, i) : i \in L7_Run(b, win, pg)} : pg \in pages}
             out == [p \in sent |-> b.buf[p]]
             busy == {pg \in pages : L7_Run(b, win, pg) # {}}
             ctl == [drv_L7_page(b.ctl, Max(busy)) EXCEPT !.column = Max(L7_Run(b, win, Max(busy))) + 1]
  <2>1. DevOK(b)
    <3>1. taken \subseteq Screen
      BY <1>2
    <3> HIDE DEF taken
    <3> QED
      BY <3>1 DEF DevOK, ++
  <2>2. sent \subseteq Screen
    <3>1. \A pg, i : L7_Cell(pg, i) \subseteq Screen
      BY DEF L7_Cell
    <3>2. ASSUME NEW p \in sent PROVE p \in Screen
      <4>1. PICK pg \in pages : p \in UNION {L7_Cell(pg, i) : i \in L7_Run(b, win, pg)}
        OBVIOUS
      <4>2. PICK i : p \in L7_Cell(pg, i)
        BY <4>1
      <4> QED
        BY <3>1, <4>2
    <3> HIDE DEF sent
    <3> QED
      BY <3>2
  <2>3. \/ drv_L7_blit(e, img, win) = b
        \/ drv_L7_blit(e, img, win) = [b EXCEPT !.ctl = ctl, !.sent = out ++ b.sent, !.dev = out ++ b.dev]
    BY DEF drv_L7_blit
  <2> HIDE DEF b, sent, ctl
  <2>4. DevOK([b EXCEPT !.ctl = ctl, !.sent = out ++ b.sent, !.dev = out ++ b.dev])
    BY <2>1, <2>2 DEF DevOK, ++
  <2> QED
    BY <2>1, <2>3, <2>4
<1>12. DevOK(drv_GLCD2USB_blit(e, img, win))
  BY <1>1, <1>3 DEF drv_GLCD2USB_blit, InBytes
<1>13. DevOK(drv_dpf_blit(e, img, win))
  <2>1. \A b : DevOK(b) => DevOK([b EXCEPT !.dirty = {}])
    BY DEF DevOK
  <2> QED
    BY <1>1, <1>3, <2>1 DEF drv_dpf_blit
<1>14. DevOK(drv_MDM166A_blit(e, img, win))
  <2>1. \A b, x, y, v : DevOK(b) => DevOK([b EXCEPT !.minX = x, !.maxX = y, !.dirty = v])
    BY DEF DevOK
  <2> QED
    BY <1>1, <2>1 DEF drv_MDM166A_blit
<1>15. DevOK(drv_SamsungSPF_blit(e, img, win)) /\ DevOK(drv_IMG_blit(e, img, win))
  <2>1. \A b, v : DevOK(b) => DevOK([b EXCEPT !.dirty = v])
    BY DEF DevOK
  <2> QED
    BY <1>1, <2>1 DEF drv_SamsungSPF_blit, drv_IMG_blit
<1>16. DevOK(drv_pLG_blit(e, img, win))
  <2>1. \A b, v : DevOK(b) => DevOK([b EXCEPT !.dirty = v])
    BY DEF DevOK
  <2> QED
    BY <1>1, <1>3, <2>1 DEF drv_pLG_blit, drv_pLG_update_img
<1>17. DevOK(drv_vnc_blit(e, img, win))
  <2>1. \A b, v : DevOK(b) => DevOK([b EXCEPT !.covered = v])
    BY DEF DevOK
  <2>2. \A b, v : DevOK(b) => DevOK([b EXCEPT !.dev = Fill(Keypad, MaxV) ++ b.dev, !.covered = v])
    BY DEF DevOK, Keypad, Fill, ++
  <2> QED
    BY <1>1, <1>2, <1>3, <2>1, <2>2 DEF drv_vnc_blit
<1> QED
  BY <1>4, <1>5, <1>6, <1>7, <1>8, <1>9, <1>10, <1>11, <1>12, <1>13, <1>14, <1>15, <1>16, <1>17, X11OK

-----------------------------------------------------------------------------
(* Every widget, and every driver. *)

\* Every draw callback.
LEMMA WidgetDrawn ==
  ASSUME NEW K, CanvasOK(K), NEW W, WidgetOK(W), NEW content, ContentOK(W, content)
  PROVE  /\ Drawn(K, W, DrawWidget(K, W, content))
         /\ W.class \notin {"arc", "ring"} => Sends(K, DrawWidget(K, W, content))
<1>0. W.class \in {"text", "icon", "bar", "image", "graph", "arc", "ring"}
  BY DEF WidgetOK
<1>1. CASE W.class = "text"
  BY <1>1, TextDrawn DEF DrawWidget, ContentOK
<1>2. CASE W.class = "icon"
  BY <1>2, IconDrawn DEF DrawWidget
<1>3. CASE W.class = "bar"
  BY <1>3, BarDrawn DEF DrawWidget
<1>4. CASE W.class = "image"
  BY <1>4, ImageDrawn DEF DrawWidget
<1>5. CASE W.class = "graph"
  BY <1>5, GraphDrawn DEF DrawWidget
<1>6. CASE W.class = "arc"
  <2>1. content \in Int
    BY <1>6 DEF ContentOK
  <2> QED
    BY <1>6, <2>1, ArcDrawn DEF DrawWidget
<1>7. CASE W.class = "ring"
  <2>1. content \in Int
    BY <1>7 DEF ContentOK
  <2> QED
    BY <1>7, <2>1, RingDrawn DEF DrawWidget
<1> QED
  BY <1>0, <1>1, <1>2, <1>3, <1>4, <1>5, <1>6, <1>7

\* The blit function of the driver.
LEMMA RealBlitOK ==
  ASSUME case \in Cases, NEW e, DevOK(e), NEW img, NEW win, WinOK(win), NEW o \in RealBlit(e, img, win)
  PROVE  DevOK(o)
<1>1. Driver \in Mono \union Colour
  BY SceneAssumption DEF OptionsOK, Drivers, Driver
<1>2. CASE Driver \in Mono
  BY <1>2, BlitsOK DEF RealBlit, Mono
<1>3. CASE Driver \in Colour
  BY <1>3, BlitsOK DEF RealBlit, Colour
<1> QED
  BY <1>1, <1>2, <1>3

\* The timer of each driver that has one.
LEMMA FlushedOK ==
  ASSUME DevOK(d)
  PROVE  DevOK(Flushed)
<1>1. \A S : S \subseteq Screen => DevOK(Send(d, S))
  BY SendOK
<1>2. \A b, v : DevOK(b) => DevOK([b EXCEPT !.dirty = v])
  BY DEF DevOK
<1>3. DevOK(drv_MDM166A_Flush(d))
  BY <1>1, <1>2 DEF drv_MDM166A_Flush
<1>4. DevOK(drv_SamsungSPF_timer(d)) /\ DevOK(drv_IMG_timer(d)) /\ DevOK(drv_pLG_update_img(d))
  BY <1>1, <1>2 DEF drv_SamsungSPF_timer, drv_IMG_timer, drv_pLG_update_img
<1>5. DevOK(drv_PICGraphic_delay(d))
  BY DEF drv_PICGraphic_delay, DevOK
<1>6. DevOK(drv_X11_expose(d, seen))
  BY DEF drv_X11_expose, DevOK, ++
<1> QED
  BY <1>3, <1>4, <1>5, <1>6 DEF Flushed

\* The brightness of X11.
LEMMA BrightnessOK ==
  ASSUME DevOK(d), NEW b
  PROVE  DevOK(drv_X11_brightness(d, seen, b))
<1> DEFINE win == [r |-> 0, c |-> 0, h |-> DROWS, w |-> DCOLS]
           e == [d EXCEPT !.dev = Fill(Screen, <<>>), !.buf = Fill(Screen, NO_COL.v)]
<1>1. WinOK(win)
  BY Sizes DEF WinOK, Win, Screen
<1>2. DevOK(e)
  BY DEF DevOK, Fill
<1> HIDE DEF win, e
<1>3. DevOK(drv_X11_blit(e, seen, win))
  BY <1>1, <1>2, X11OK
<1>4. \A x, v : DevOK(x) => DevOK([x EXCEPT !.brightness = v])
  BY DEF DevOK
<1> QED
  BY <1>3, <1>4 DEF drv_X11_brightness, win, e

-----------------------------------------------------------------------------
(* The invariant. *)

\* The canvas is sound, what is seen is its image, and a bar that no other
\* widget overlaps has the colours it was drawn with.
BarShown(i) ==
  LET W == Widgets[i].widget IN
  W.class = "bar" /\ last[i] # <<>> /\ Alone(i) =>
    /\ ContentOK(W, last[i][1])
    /\ BarBox(W) \subseteq Pixels(cv)
    /\ \A p \in BarBox(W) : cv.fb[W.layer][p] = BarColour(W, last[i][1], p)
CanvasInv ==
  /\ case \in Cases
  /\ phase \in {"start", "greeting", "running"}
  /\ CanvasOK(cv) /\ seen = Image(cv)
  /\ DevOK(d)
  /\ painted \subseteq Screen /\ stale \subseteq Screen
  /\ DOMAIN last = DOMAIN Widgets
  /\ phase # "running" => \A i \in DOMAIN Widgets : last[i] = <<>>
  /\ OnlyRoundSpills
  /\ \A i \in DOMAIN Widgets : BarShown(i)

\* The widgets of a layout and their contents are what the assumption says.
LEMMA WidgetsOK ==
  ASSUME case \in Cases, NEW i \in DOMAIN Widgets
  PROVE  /\ WidgetOK(Widgets[i].widget)
         /\ \A c \in Widgets[i].contents : ContentOK(Widgets[i].widget, c)
  BY SceneAssumption DEF OptionsOK, Widgets

\* The greeting is a text.
LEMMA GreetingOK ==
  ASSUME case \in Cases
  PROVE  WidgetOK(Greeting) /\ ContentOK(Greeting, case.greeting) /\ Greeting.class = "text"
<1>1. case.greeting \in Seq(STRING)
  BY SceneAssumption DEF OptionsOK
<1> QED
  BY <1>1, Sizes DEF Greeting, WidgetOK, ContentOK

\* A wider canvas leaves more room for a text.
LEMMA FootprintGrows ==
  ASSUME NEW W, WidgetOK(W), NEW c1 \in Nat, NEW c2 \in Nat, c1 <= c2
  PROVE  Footprint(W, c1) \subseteq Footprint(W, c2)
<1>1. CASE W.class = "text"
  <2>1. Home(W)[1] \in Nat /\ Home(W)[2] \in Nat
    BY HomeOK
  <2>2. Box(Home(W), YRES, c1) \subseteq Box(Home(W), YRES, c2)
    BY <2>1, Sizes, SubRect DEF Box
  <2> QED
    BY <1>1, <2>2 DEF Footprint
<1>2. CASE W.class # "text"
  BY <1>2 DEF Footprint
<1> QED
  BY <1>1, <1>2

\* So a widget that is not overlapped was not before the canvas grew.
LEMMA AloneBefore ==
  ASSUME CanvasOK(cv), CanvasOK(cv'), cv.cols <= cv'.cols, case' = case, case \in Cases,
         NEW i \in DOMAIN Widgets, Alone(i)'
  PROVE  Alone(i)
<1>1. cv.cols \in Nat /\ cv'.cols \in Nat
  BY DEF CanvasOK
<1>2. Widgets' = Widgets
  BY DEF Widgets
<1>3. \A j \in DOMAIN Widgets : Footprint(Widgets[j].widget, cv.cols) \subseteq Footprint(Widgets[j].widget, cv'.cols)
  BY <1>1, WidgetsOK, FootprintGrows
<1> QED
  BY <1>2, <1>3 DEF Alone

\* Sending: what stays stale was, or changed outside the area.
LEMMA SentOK ==
  ASSUME CanvasInv, NEW win, WinOK(win), Sent(win)
  PROVE  /\ DevOK(d')
         /\ painted' \subseteq Screen /\ stale' \subseteq Screen
         /\ \A p \in stale' : p \in stale \/ (seen'[p] # seen[p] /\ ~Reached(win, p))
<1> DEFINE area == IF Visible(win) THEN Win(win) ELSE {}
<1>1. area \subseteq Screen
  BY DEF WinOK
<1>2. /\ d' \in IF area = {} THEN {d} ELSE RealBlit(d, seen', win)
      /\ painted' = painted \union area
      /\ stale' = (stale \union {p \in Screen : seen'[p] # seen[p]}) \ area
  BY DEF Sent
<1>3. DevOK(d')
  <2>1. CASE area = {}
    BY <1>2, <2>1 DEF CanvasInv
  <2>2. CASE area # {}
    <3>1. d' \in RealBlit(d, seen', win)
      BY <1>2, <2>2
    <3> QED
      BY <3>1, RealBlitOK DEF CanvasInv
  <2> QED
    BY <2>1, <2>2
<1>4. \A p : p \notin area => ~Reached(win, p)
  BY DEF Reached
<1> QED
  BY <1>1, <1>2, <1>3, <1>4 DEF CanvasInv

\* A canvas that was painted is shown.
LEMMA ShownOK ==
  ASSUME CanvasInv, case' = case, NEW W, NEW out, Drawn(cv, W, out), Shown(out)
  PROVE  /\ cv' = out.cv /\ CanvasOK(cv') /\ seen' = Image(cv)' /\ DevOK(d')
         /\ painted' \subseteq Screen /\ stale' \subseteq Screen
         /\ Sends(cv, out) => stale' \subseteq stale
<1>1. cv' = out.cv /\ seen' = Image(cv') /\ Sent(out.win)
  BY DEF Shown
<1>2. CanvasOK(cv') /\ WinOK(out.win)
  BY <1>1 DEF Drawn
<1>3. seen' = Image(cv)'
  BY <1>1 DEF Image
<1>4. /\ DevOK(d') /\ painted' \subseteq Screen /\ stale' \subseteq Screen
      /\ \A p \in stale' : p \in stale \/ (seen'[p] # seen[p] /\ ~Reached(out.win, p))
  BY <1>1, <1>2, SentOK
<1>5. ASSUME Sends(cv, out), NEW p \in stale', p \notin stale PROVE FALSE
  <2>1. p \in Screen /\ seen'[p] # seen[p] /\ ~Reached(out.win, p)
    BY <1>4, <1>5
  <2>2. \A l \in Layers : cv.fb[l][p] = cv'.fb[l][p]
    BY <1>1, <1>5, <2>1 DEF Sends
  <2>3. CanvasOK(cv) /\ seen = Image(cv)
    BY DEF CanvasInv
  <2>4. p \in Pixels(cv) \cap Pixels(cv')
    BY <1>2, <2>1, <2>3, ScreenIn
  <2>5. blend(cv, case.inverted, p) = blend(cv', case.inverted, p)
    BY <1>2, <2>2, <2>3, <2>4, BlendAlike
  <2>6. seen[p] = blend(cv, case.inverted, p) /\ seen'[p] = blend(cv', case.inverted, p)
    BY <1>1, <2>1, <2>3 DEF Image, rgb
  <2> QED
    BY <2>1, <2>5, <2>6
<1> QED
  BY <1>1, <1>2, <1>3, <1>4, <1>5

\* The invariant holds when the driver was started.
LEMMA CanvasInit == Init => CanvasInv
<1> SUFFICES ASSUME Init PROVE CanvasInv
  OBVIOUS
<1> USE DEF Init
<1>1. CanvasOK(cv)
  BY Sizes, BlankOK
<1>2. DevOK(d)
  BY StartedOK
<1>3. \A i \in DOMAIN Widgets : last[i] = <<>>
  OBVIOUS
<1>4. OnlyRoundSpills /\ \A i \in DOMAIN Widgets : BarShown(i)
  BY <1>3 DEF OnlyRoundSpills, RoundDrawn, BarShown
<1> QED
  BY <1>1, <1>2, <1>3, <1>4 DEF CanvasInv

-----------------------------------------------------------------------------
(* Its steps. *)

\* Before the layout is drawn nothing of it is on the canvas.
LEMMA NothingDrawn ==
  ASSUME \A i \in DOMAIN Widgets : last[i] = <<>>, stale = {}
  PROVE  OnlyRoundSpills /\ \A i \in DOMAIN Widgets : BarShown(i)
  BY DEF OnlyRoundSpills, RoundDrawn, BarShown

\* The greeting is drawn before the layout.
LEMMA GreetStep == CanvasInv /\ Greet => CanvasInv'
<1> SUFFICES ASSUME CanvasInv, Greet PROVE CanvasInv'
  OBVIOUS
<1> DEFINE out == render(cv, Greeting, case.greeting)
<1>1. /\ phase = "start" /\ phase' = "greeting" /\ Shown(out)
      /\ case' = case /\ last' = last /\ Widgets' = Widgets
  BY DEF Greet, Widgets
<1>2. Drawn(cv, Greeting, out) /\ Sends(cv, out)
  BY GreetingOK, TextDrawn DEF CanvasInv, ContentOK
<1> HIDE DEF out
<1>3. /\ CanvasOK(cv') /\ seen' = Image(cv)' /\ DevOK(d')
      /\ painted' \subseteq Screen /\ stale' \subseteq Screen /\ stale' \subseteq stale
  BY <1>1, <1>2, ShownOK
<1>4. \A i \in DOMAIN Widgets : last[i] = <<>>
  BY <1>1 DEF CanvasInv
<1>5. stale' = {}
  BY <1>3, <1>4 DEF CanvasInv, OnlyRoundSpills, RoundDrawn
<1>6. OnlyRoundSpills' /\ \A i \in DOMAIN Widgets' : BarShown(i)'
  BY <1>1, <1>4, <1>5 DEF OnlyRoundSpills, RoundDrawn, BarShown
<1> QED
  BY <1>1, <1>3, <1>4, <1>6 DEF CanvasInv

\* Clearing the canvas leaves nothing stale, as all of it is sent.
LEMMA ClearStep == CanvasInv /\ Clear => CanvasInv'
<1> SUFFICES ASSUME CanvasInv, Clear PROVE CanvasInv'
  OBVIOUS
<1> DEFINE win == blit(0, 0, cv.rows, cv.cols)
           blank == Blank(cv.rows, cv.cols)
<1>1. /\ phase # "running" /\ phase' \in {"start", "running"} /\ Shown(Painted(blank, win))
      /\ case' = case /\ last' = last /\ Widgets' = Widgets
  BY DEF Clear, Widgets
<1>2. cv.rows \in Nat /\ cv.cols \in Nat /\ DROWS <= cv.rows /\ DCOLS <= cv.cols
  BY DEF CanvasInv, CanvasOK
<1>3. CanvasOK(blank) /\ WinOK(win) /\ \A p \in Screen : Reached(win, p)
  <2>1. Screen \subseteq Rect(0, 0, cv.rows, cv.cols)
    BY ScreenIn DEF CanvasInv, Pixels
  <2> QED
    BY <1>2, <2>1, BlankOK, BlittedOK
<1> HIDE DEF win, blank
<1>4. cv' = blank /\ seen' = Image(cv') /\ Sent(win)
  BY <1>1 DEF Shown, Painted
<1>5. /\ DevOK(d') /\ painted' \subseteq Screen /\ stale' \subseteq Screen
  BY <1>3, <1>4, SentOK
<1>6. stale' = {}
  BY <1>3, <1>4, <1>5 DEF Sent, Reached
<1>7. \A i \in DOMAIN Widgets : last[i] = <<>>
  BY <1>1 DEF CanvasInv
<1>8. OnlyRoundSpills' /\ \A i \in DOMAIN Widgets' : BarShown(i)'
  BY <1>1, <1>6, <1>7 DEF OnlyRoundSpills, RoundDrawn, BarShown
<1>9. seen' = Image(cv)'
  BY <1>1, <1>4 DEF Image
<1> QED
  BY <1>1, <1>3, <1>4, <1>5, <1>7, <1>8, <1>9 DEF CanvasInv

\* Clearing the display of the two drivers that do it themselves.
LEMMA ClearDisplayStep == CanvasInv /\ ClearDisplay => CanvasInv'
<1> SUFFICES ASSUME CanvasInv, ClearDisplay PROVE CanvasInv'
  OBVIOUS
<1>1. /\ phase = "greeting" /\ phase' = "running" /\ cv' = Blank(cv.rows, cv.cols) /\ seen' = Image(cv')
      /\ d' \in {drv_MDM166A_clear(d), drv_pLG_clear(d)} /\ painted' = {} /\ stale' = {}
      /\ case' = case /\ last' = last /\ Widgets' = Widgets
  BY DEF ClearDisplay, Widgets
<1>2. CanvasOK(cv')
  BY <1>1, BlankOK DEF CanvasInv, CanvasOK
<1>3. DevOK(d')
  BY <1>1, ClearOK DEF CanvasInv
<1>4. \A i \in DOMAIN Widgets : last[i] = <<>>
  BY <1>1 DEF CanvasInv
<1>5. OnlyRoundSpills' /\ \A i \in DOMAIN Widgets' : BarShown(i)'
  BY <1>1, <1>4 DEF OnlyRoundSpills, RoundDrawn, BarShown
<1>6. seen' = Image(cv)'
  BY <1>1 DEF Image
<1> QED
  BY <1>1, <1>2, <1>3, <1>4, <1>5, <1>6 DEF CanvasInv

\* A draw: only its own pixels change, and what it does not send is of a round
\* widget; a bar is painted in full, and no widget that keeps apart changes it.
LEMMA DrawStep == CanvasInv /\ Draw => CanvasInv'
<1> SUFFICES ASSUME CanvasInv, Draw PROVE CanvasInv'
  OBVIOUS
<1>1. PICK i \in DOMAIN Widgets : \E content \in Widgets[i].contents :
        /\ Shown(DrawWidget(cv, Widgets[i].widget, content))
        /\ last' = [last EXCEPT ![i] = <<content>>]
  BY DEF Draw
<1>2. PICK content \in Widgets[i].contents :
        /\ Shown(DrawWidget(cv, Widgets[i].widget, content))
        /\ last' = [last EXCEPT ![i] = <<content>>]
  BY <1>1
<1>3. phase = "running" /\ phase' = phase /\ case' = case /\ Widgets' = Widgets
  BY DEF Draw, Widgets
<1> DEFINE W == Widgets[i].widget
           out == DrawWidget(cv, W, content)
<1>4. WidgetOK(W) /\ ContentOK(W, content)
  BY WidgetsOK DEF CanvasInv
<1>5. Drawn(cv, W, out) /\ (W.class \notin {"arc", "ring"} => Sends(cv, out))
  BY <1>4, WidgetDrawn DEF CanvasInv
<1>6. Shown(out)
  BY <1>2
<1> HIDE DEF out, W
<1>7. /\ cv' = out.cv /\ CanvasOK(cv') /\ seen' = Image(cv)' /\ DevOK(d')
      /\ painted' \subseteq Screen /\ stale' \subseteq Screen
      /\ Sends(cv, out) => stale' \subseteq stale
  BY <1>3, <1>5, <1>6, ShownOK
<1>8. DOMAIN last' = DOMAIN Widgets /\ last'[i] = <<content>>
      /\ \A j \in DOMAIN Widgets : j # i => last'[j] = last[j]
  BY <1>2 DEF CanvasInv
<1>9. \A j \in DOMAIN Widgets : last[j] # <<>> => last'[j] # <<>>
  BY <1>8
<1>10. OnlyRoundSpills'
  <2>1. CASE W.class \in {"arc", "ring"}
    <3>1. Widgets[i].widget.class \in {"arc", "ring"} /\ last'[i] # <<>>
      BY <1>8, <2>1 DEF W
    <3> QED
      BY <1>3, <3>1 DEF OnlyRoundSpills, RoundDrawn
  <2>2. CASE W.class \notin {"arc", "ring"}
    <3>1. stale' \subseteq stale
      BY <1>5, <1>7, <2>2
    <3>2. stale' # {} => \E j \in DOMAIN Widgets : Widgets[j].widget.class \in {"arc", "ring"} /\ last'[j] # <<>>
      BY <1>9, <3>1 DEF CanvasInv, OnlyRoundSpills, RoundDrawn
    <3> QED
      BY <1>3, <3>2 DEF OnlyRoundSpills, RoundDrawn
  <2> QED
    BY <2>1, <2>2
<1>11. ASSUME NEW j \in DOMAIN Widgets PROVE BarShown(j)'
  <2> DEFINE B == Widgets[j].widget
  <2>1. SUFFICES ASSUME B.class = "bar", last'[j] # <<>>, Alone(j)'
                 PROVE  /\ ContentOK(B, last'[j][1])
                        /\ BarBox(B) \subseteq Pixels(cv')
                        /\ \A p \in BarBox(B) : cv'.fb[B.layer][p] = BarColour(B, last'[j][1], p)
    BY <1>3 DEF BarShown
  <2>2. CASE j = i
    <3>1. B = W /\ last'[j][1] = content
      BY <1>8, <2>2 DEF W
    <3>2. out = bar_draw(cv, W, content)
      BY <2>1, <3>1 DEF out, DrawWidget
    <3>3. CanvasOK(cv)
      BY DEF CanvasInv
    <3> HIDE DEF B
    <3>4. /\ BarBox(W) \subseteq Pixels(out.cv)
          /\ \A p \in BarBox(W) : out.cv.fb[W.layer][p] = BarColour(W, content, p)
      BY <1>4, <2>1, <3>1, <3>2, <3>3, BarDrawn
    <3> QED
      BY <1>4, <1>7, <3>1, <3>4
  <2>3. CASE j # i
    <3>1. last'[j] = last[j] /\ last[j] # <<>>
      BY <1>8, <2>1, <2>3
    <3>2. CanvasOK(cv) /\ CanvasOK(cv') /\ cv.cols <= cv'.cols
      BY <1>5, <1>7 DEF Drawn, CanvasInv, CanvasOK
    <3>3. Alone(j)
      BY <1>3, <2>1, <3>2, AloneBefore DEF CanvasInv
    <3>4. /\ ContentOK(B, last[j][1])
          /\ BarBox(B) \subseteq Pixels(cv)
          /\ \A p \in BarBox(B) : cv.fb[B.layer][p] = BarColour(B, last[j][1], p)
      BY <2>1, <3>1, <3>3 DEF CanvasInv, BarShown
    <3>5. Pixels(cv) \subseteq Pixels(cv')
      BY <1>5, <1>7 DEF Drawn
    <3>6. ASSUME NEW p \in BarBox(B) PROVE cv'.fb[B.layer][p] = cv.fb[B.layer][p]
      <4>1. WidgetOK(B)
        BY WidgetsOK DEF CanvasInv
      <4>2. B.layer \in Layers /\ p \in Pixels(cv)
        BY <3>4, <4>1 DEF WidgetOK, Layers
      <4>3. SUFFICES ASSUME cv'.fb[B.layer][p] # cv.fb[B.layer][p] PROVE FALSE
        OBVIOUS
      <4>4. B.layer = W.layer /\ p \in Footprint(W, cv'.cols)
        BY <1>5, <1>7, <4>2, <4>3 DEF Drawn
      <4>5. p \in Footprint(B, cv'.cols)
        BY <2>1, <4>1, BarFootprint
      <4>6. Footprint(W, cv'.cols) \cap Footprint(B, cv'.cols) = {}
        BY <1>3, <2>1, <2>3, <4>4 DEF Alone, W
      <4> QED
        BY <4>4, <4>5, <4>6
    <3> QED
      BY <3>1, <3>4, <3>5, <3>6
  <2> QED
    BY <2>2, <2>3
<1> QED
  BY <1>3, <1>7, <1>8, <1>10, <1>11 DEF CanvasInv

\* The other steps leave the canvas alone.
LEMMA OtherStep ==
  ASSUME CanvasInv, case' = case, cv' = cv, seen' = seen, last' = last,
         phase' \in {phase, "running"}, DevOK(d'),
         \/ painted' = painted /\ stale' = stale
         \/ painted' = Screen /\ stale' = {}
  PROVE  CanvasInv'
<1>1. Widgets' = Widgets /\ Image(cv)' = Image(cv)
  BY DEF Widgets, Image
<1>2. OnlyRoundSpills'
  BY <1>1 DEF CanvasInv, OnlyRoundSpills, RoundDrawn
<1>3. \A i \in DOMAIN Widgets : BarShown(i)' = BarShown(i)
  BY <1>1 DEF BarShown, Alone
<1> QED
  BY <1>1, <1>2, <1>3 DEF CanvasInv

\* Every step keeps the invariant.
LEMMA CanvasStep == CanvasInv /\ [Next]_vars => CanvasInv'
<1> SUFFICES ASSUME CanvasInv, [Next]_vars PROVE CanvasInv'
  OBVIOUS
<1>0. DevOK(d)
  BY DEF CanvasInv
<1>1. CASE Greet
  BY <1>1, GreetStep
<1>2. CASE Clear
  BY <1>2, ClearStep
<1>3. CASE ClearDisplay
  BY <1>3, ClearDisplayStep
<1>4. CASE Quiet
  BY <1>0, <1>4, OtherStep DEF Quiet
<1>5. CASE Draw
  BY <1>5, DrawStep
<1>6. CASE Timer
  BY <1>0, <1>6, FlushedOK, OtherStep DEF Timer
<1>7. CASE SetSymbol
  <2>1. DevOK(d')
    BY <1>0, <1>7 DEF SetSymbol, drv_L7_GPO, DevOK
  <2> QED
    BY <1>7, <2>1, OtherStep DEF SetSymbol
<1>8. CASE SetBrightness
  BY <1>0, <1>8, BrightnessOK, OtherStep DEF SetBrightness
<1>9. CASE SwitchKeypad
  <2>1. DevOK(d')
    BY <1>0, <1>9 DEF SwitchKeypad, DevOK
  <2> QED
    BY <1>9, <2>1, OtherStep DEF SwitchKeypad
<1>10. CASE UNCHANGED vars
  BY <1>0, <1>10, OtherStep DEF vars
<1> QED
  BY <1>1, <1>2, <1>3, <1>4, <1>5, <1>6, <1>7, <1>8, <1>9, <1>10 DEF Next

-----------------------------------------------------------------------------
(* Counting the pixels of a bar. *)

\* The positions of a bar that are filled: half of its depth, and a stretch of
\* its length.
HalfOf(from, depth, k) == IF k = 1 THEN from .. from + depth \div 2 - 1 ELSE from + depth \div 2 .. from + depth - 1
StretchOf(from, max, n, rev) == IF rev THEN from + max - n .. from + max - 1 ELSE from .. from + n - 1

\* The pixels of a half, counted across the bar.
LEMMA HalfCount ==
  ASSUME NEW from \in Nat, NEW depth \in Nat \ {0}, NEW k \in 1 .. 2
  PROVE  /\ IsFiniteSet(HalfOf(from, depth, k))
         /\ Cardinality(HalfOf(from, depth, k)) = (IF k = 1 THEN depth \div 2 ELSE depth - depth \div 2)
<1>1. depth \div 2 \in Nat /\ depth \div 2 <= depth
  OBVIOUS
<1> DEFINE m == depth \div 2
<1> HIDE DEF m
<1>2. m \in Nat /\ m <= depth
  BY <1>1 DEF m
<1>3. IsFiniteSet(from .. from + m - 1) /\ Cardinality(from .. from + m - 1) = m
  <2>1. from \in Int /\ from + m - 1 \in Int
    BY <1>2
  <2>2. /\ IsFiniteSet(from .. from + m - 1)
        /\ Cardinality(from .. from + m - 1) = IF from > from + m - 1 THEN 0 ELSE (from + m - 1) - from + 1
    BY <2>1, FS_Interval
  <2> QED
    BY <1>2, <2>2
<1>4. IsFiniteSet(from + m .. from + depth - 1) /\ Cardinality(from + m .. from + depth - 1) = depth - m
  <2>1. from + m \in Int /\ from + depth - 1 \in Int
    BY <1>2
  <2>2. /\ IsFiniteSet(from + m .. from + depth - 1)
        /\ Cardinality(from + m .. from + depth - 1) = IF from + m > from + depth - 1 THEN 0 ELSE (from + depth - 1) - (from + m) + 1
    BY <2>1, FS_Interval
  <2> QED
    BY <1>2, <2>2
<1> QED
  BY <1>3, <1>4 DEF HalfOf, m

\* The pixels that are filled, counted along it.
LEMMA StretchCount ==
  ASSUME NEW from \in Nat, NEW max \in Nat, NEW n \in 1 .. max, NEW rev \in BOOLEAN
  PROVE  /\ IsFiniteSet(StretchOf(from, max, n, rev))
         /\ Cardinality(StretchOf(from, max, n, rev)) = n
<1>1. IsFiniteSet(from .. from + n - 1) /\ Cardinality(from .. from + n - 1) = n
  <2>1. from \in Int /\ from + n - 1 \in Int
    OBVIOUS
  <2> QED
    BY <2>1, FS_Interval
<1>2. IsFiniteSet(from + max - n .. from + max - 1) /\ Cardinality(from + max - n .. from + max - 1) = n
  <2>1. from + max - n \in Int /\ from + max - 1 \in Int
    OBVIOUS
  <2> QED
    BY <2>1, FS_Interval
<1> QED
  BY <1>1, <1>2 DEF StretchOf

\* The pixels of a half that have its colour.
Depth(W) == IF Across(W) THEN YRES ELSE XRES
InFirst(W, p) == (IF Across(W) THEN p[1] - Home(W)[1] ELSE p[2] - Home(W)[2]) < Depth(W) \div 2
BarPart(W, fb, k) == {p \in BarBox(W) : InFirst(W, p) = (k = 1) /\ fb[p] = W.bar[k]}
HalfDepth(W, k) == IF k = 1 THEN Depth(W) \div 2 ELSE Depth(W) - Depth(W) \div 2

\* A bar has two values.
LEMMA PairOK ==
  ASSUME NEW v \in Seq(Int), Len(v) = 2, NEW k \in 1 .. 2
  PROVE  v[k] \in Int
  OBVIOUS

\* So many pixels of a half have its colour.
LEMMA BarCount ==
  ASSUME NEW W, WidgetOK(W), W.class = "bar", W.len > 0, ~W.hollow, NEW vals, ContentOK(W, vals),
         NEW fb, \A p \in BarBox(W) : fb[p] = BarColour(W, vals, p),
         NEW k \in 1 .. 2, W.bar[k] # W.bg
  PROVE  Cardinality(BarPart(W, fb, k)) = HalfDepth(W, k) * Clamp(vals[k], 1, BarMax(W))
<1> DEFINE at == Home(W)
           max == BarMax(W)
           n == Clamp(vals[k], 1, max)
           rev == W.dir \in {"west", "north"}
           depth == IF Across(W) THEN YRES ELSE XRES
           first(p) == (IF Across(W) THEN p[1] - at[1] ELSE p[2] - at[2]) < depth \div 2
           along(p) == IF Across(W) THEN p[2] - at[2] ELSE p[1] - at[1]
           F == {p \in BarBox(W) : first(p) = (k = 1) /\ fb[p] = W.bar[k]}
           A == HalfOf(IF Across(W) THEN at[1] ELSE at[2], depth, k)
           B == StretchOf(IF Across(W) THEN at[2] ELSE at[1], max, n, rev)
<1>1. at[1] \in Nat /\ at[2] \in Nat /\ max \in Nat \ {0} /\ depth \in Nat \ {0}
  BY HomeOK, BarSizes, Sizes
<1>2. n \in 1 .. max
  <2>1. vals \in Seq(Int) /\ Len(vals) = 2
    BY DEF ContentOK
  <2>2. vals[k] \in Int
    BY <2>1, PairOK
  <2> HIDE DEF max
  <2> QED
    BY <1>1, <2>2 DEF Clamp
<1>3. \A p \in BarBox(W) : first(p) = (k = 1) => (fb[p] = W.bar[k] <=> (along(p) < (IF rev THEN max - n ELSE n)) # rev)
  <2> SUFFICES ASSUME NEW p \in BarBox(W), first(p) = (k = 1)
               PROVE  fb[p] = W.bar[k] <=> (along(p) < (IF rev THEN max - n ELSE n)) # rev
    OBVIOUS
  <2>1. fb[p] = BarColour(W, vals, p)
    OBVIOUS
  <2>2. BarValue(vals[k], max, rev) = IF rev THEN max - n ELSE n
    BY DEF BarValue
  <2>3. BarColour(W, vals, p) = IF (along(p) < BarValue(vals[k], max, rev)) # rev THEN W.bar[k] ELSE W.bg
    BY DEF BarColour
  <2> QED
    BY <2>1, <2>2, <2>3
<1> HIDE DEF n, max
<1>4. F = IF Across(W) THEN A \X B ELSE B \X A
  <2>1. \A p : p \in F <=> /\ p \in BarBox(W) /\ first(p) = (k = 1)
                          /\ (along(p) < (IF rev THEN max - n ELSE n)) # rev
    BY <1>3
  <2>2. depth \div 2 \in Nat /\ depth \div 2 <= depth
    BY <1>1
  <2>3. CASE Across(W)
    <3>1. BarBox(W) = Rect(at[1], at[2], YRES, max)
      BY <2>3 DEF BarBox, Box, BarHeight, BarWidth, max
    <3>2. \A p : p \in BarBox(W) <=> /\ p = <<p[1], p[2]>>
                                     /\ p[1] \in at[1] .. at[1] + YRES - 1 /\ p[2] \in at[2] .. at[2] + max - 1
      BY <3>1, InRect
    <3>3. \A y \in at[1] .. at[1] + YRES - 1 : y \in A <=> (y - at[1] < depth \div 2) = (k = 1)
      BY <1>1, <2>2, <2>3 DEF HalfOf
    <3>4. \A x \in at[2] .. at[2] + max - 1 : x \in B <=> (x - at[2] < (IF rev THEN max - n ELSE n)) # rev
      BY <1>1, <1>2, <2>3 DEF StretchOf
    <3>5. A \subseteq at[1] .. at[1] + YRES - 1 /\ B \subseteq at[2] .. at[2] + max - 1
      BY <1>1, <1>2, <2>2, <2>3 DEF HalfOf, StretchOf
    <3>6. \A p : p \in A \X B <=> p = <<p[1], p[2]>> /\ p[1] \in A /\ p[2] \in B
      OBVIOUS
    <3> HIDE DEF A, B, F
    <3>7. \A p : p \in F <=> p \in A \X B
      BY <2>1, <2>3, <3>2, <3>3, <3>4, <3>5, <3>6
    <3> QED
      BY <2>3, <3>7
  <2>4. CASE ~Across(W)
    <3>1. BarBox(W) = Rect(at[1], at[2], max, XRES)
      BY <2>4 DEF BarBox, Box, BarHeight, BarWidth, max
    <3>2. \A p : p \in BarBox(W) <=> /\ p = <<p[1], p[2]>>
                                     /\ p[1] \in at[1] .. at[1] + max - 1 /\ p[2] \in at[2] .. at[2] + XRES - 1
      BY <3>1, InRect
    <3>3. \A x \in at[2] .. at[2] + XRES - 1 : x \in A <=> (x - at[2] < depth \div 2) = (k = 1)
      BY <1>1, <2>2, <2>4 DEF HalfOf
    <3>4. \A y \in at[1] .. at[1] + max - 1 : y \in B <=> (y - at[1] < (IF rev THEN max - n ELSE n)) # rev
      BY <1>1, <1>2, <2>4 DEF StretchOf
    <3>5. A \subseteq at[2] .. at[2] + XRES - 1 /\ B \subseteq at[1] .. at[1] + max - 1
      BY <1>1, <1>2, <2>2, <2>4 DEF HalfOf, StretchOf
    <3>6. \A p : p \in B \X A <=> p = <<p[1], p[2]>> /\ p[1] \in B /\ p[2] \in A
      OBVIOUS
    <3> HIDE DEF A, B, F
    <3>7. \A p : p \in F <=> p \in B \X A
      BY <2>1, <2>4, <3>2, <3>3, <3>4, <3>5, <3>6
    <3> QED
      BY <2>4, <3>7
  <2> QED
    BY <2>3, <2>4
<1>5. IsFiniteSet(A) /\ IsFiniteSet(B) /\ Cardinality(B) = n
      /\ Cardinality(A) = (IF k = 1 THEN depth \div 2 ELSE depth - depth \div 2)
  <2> DEFINE a == IF Across(W) THEN at[1] ELSE at[2]
             b == IF Across(W) THEN at[2] ELSE at[1]
  <2>1. a \in Nat /\ b \in Nat /\ depth \in Nat \ {0} /\ max \in Nat /\ rev \in BOOLEAN
    BY <1>1
  <2> HIDE DEF a, b, depth, rev
  <2>2. /\ IsFiniteSet(HalfOf(a, depth, k))
        /\ Cardinality(HalfOf(a, depth, k)) = (IF k = 1 THEN depth \div 2 ELSE depth - depth \div 2)
    BY <2>1, HalfCount
  <2>3. IsFiniteSet(StretchOf(b, max, n, rev)) /\ Cardinality(StretchOf(b, max, n, rev)) = n
    BY <1>2, <2>1, StretchCount
  <2> QED
    BY <2>2, <2>3 DEF a, b
<1>6. Cardinality(F) = Cardinality(A) * Cardinality(B)
  <2> HIDE DEF F, A, B
  <2>1. /\ Cardinality(A \X B) = Cardinality(A) * Cardinality(B)
        /\ Cardinality(B \X A) = Cardinality(B) * Cardinality(A)
    BY <1>5, FS_Product
  <2>2. Cardinality(A) \in Nat /\ Cardinality(B) \in Nat
    BY <1>5, FS_CardinalityType
  <2> QED
    BY <1>4, <2>1, <2>2
<1> HIDE DEF A, B, F
<1>7. Cardinality(F) = HalfDepth(W, k) * n
  BY <1>5, <1>6 DEF HalfDepth, Depth
<1>8. F = BarPart(W, fb, k)
  BY DEF F, BarPart, InFirst, Depth
<1> QED
  BY <1>7, <1>8 DEF n, max

-----------------------------------------------------------------------------
(* The theorem. *)

\* The invariant yields the types ...
LEMMA CanvasTypes == CanvasInv => GraphicTypeOK
<1> SUFFICES ASSUME CanvasInv PROVE GraphicTypeOK
  OBVIOUS
<1>1. CanvasOK(cv)
  BY DEF CanvasInv
<1>2. cv.rows >= DROWS /\ cv.cols >= DCOLS
  BY <1>1, Sizes DEF CanvasOK
<1> QED
  BY <1>1, <1>2 DEF CanvasInv, DevOK, GraphicTypeOK, CanvasOK, Canvas, Layers, Colours

\* ... what is seen ...
LEMMA SeenIsComposed == CanvasInv => BlendIsComposition
<1> SUFFICES ASSUME CanvasInv, NEW p \in Screen PROVE seen[p] = Composed(p)
  BY DEF BlendIsComposition
<1>1. CanvasOK(cv) /\ p \in Pixels(cv)
  BY ScreenIn DEF CanvasInv
<1>2. seen[p] = blend(cv, case.inverted, p)
  BY DEF CanvasInv, Image, rgb
<1>3. blend(cv, case.inverted, p) = ComposedOf(cv, case.inverted, p)
  BY <1>1, BlendComposes
<1>4. Composed(p) = ComposedOf(cv, case.inverted, p)
  BY DEF Composed, ComposedOf
<1> QED
  BY <1>2, <1>3, <1>4

\* ... and the pixels of the bars.
LEMMA BarsAreFilled == CanvasInv => BarsFilled
<1> SUFFICES ASSUME CanvasInv, NEW i \in DOMAIN Widgets, Widgets[i].widget.class = "bar", Widgets[i].widget.len > 0,
                    ~Widgets[i].widget.hollow, last[i] # <<>>, Alone(i),
                    NEW k \in 1 .. 2, Widgets[i].widget.bar[k] # Widgets[i].widget.bg
             PROVE  LET W == Widgets[i].widget
                        across == W.dir \in {"east", "west"}
                        max == W.len * (IF across THEN XRES ELSE YRES)
                        depth == IF across THEN YRES ELSE XRES
                    IN  Cardinality(Filled(W, k)) = (IF k = 1 THEN depth \div 2 ELSE depth - depth \div 2)
                                                    * Clamp(last[i][1][k], 1, max)
  BY DEF BarsFilled
<1> DEFINE W == Widgets[i].widget
           fb == cv.fb[W.layer]
           vals == last[i][1]
<1>1. WidgetOK(W)
  BY WidgetsOK DEF CanvasInv
<1>2. ContentOK(W, vals) /\ \A p \in BarBox(W) : fb[p] = BarColour(W, vals, p)
  BY DEF CanvasInv, BarShown
<1>3. W.class = "bar" /\ W.len > 0 /\ ~W.hollow /\ W.bar[k] # W.bg
  OBVIOUS
<1>4. Cardinality(BarPart(W, fb, k)) = HalfDepth(W, k) * Clamp(vals[k], 1, BarMax(W))
  <2> HIDE DEF W, fb, vals
  <2> QED
    BY <1>1, <1>2, <1>3, BarCount
<1>5. Filled(W, k) = BarPart(W, fb, k)
  <2>1. Footprint(W, cv.cols) = BarBox(W)
    BY <1>1, <1>3, BarFootprint
  <2> QED
    BY <2>1 DEF Filled, Across, BarPart, InFirst, Depth
<1>6. BarMax(W) = W.len * (IF Across(W) THEN XRES ELSE YRES)
  BY DEF BarMax
<1> QED
  BY <1>4, <1>5, <1>6 DEF Across, HalfDepth, Depth

\* A step of the layout paints the pixels of the widget that is drawn.
LEMMA PaintsItsOwn ==
  ASSUME CanvasInv, [Next]_vars, phase = "running", NEW l \in DOMAIN cv.fb, NEW p \in DOMAIN cv.fb[l],
         cv'.fb[l][p] # cv.fb[l][p]
  PROVE  \E i \in DOMAIN Widgets : Widgets[i].widget.layer = l /\ p \in Footprint(Widgets[i].widget, cv'.cols)
<1>1. Draw
  BY DEF Next, vars, Greet, Clear, ClearDisplay, Quiet, Timer, SetSymbol, SetBrightness, SwitchKeypad
<1>2. PICK i \in DOMAIN Widgets : \E content \in Widgets[i].contents : Shown(DrawWidget(cv, Widgets[i].widget, content))
  BY <1>1 DEF Draw
<1>3. PICK content \in Widgets[i].contents : Shown(DrawWidget(cv, Widgets[i].widget, content))
  BY <1>2
<1> DEFINE W == Widgets[i].widget
           out == DrawWidget(cv, W, content)
<1>4. WidgetOK(W) /\ ContentOK(W, content)
  BY WidgetsOK DEF CanvasInv
<1>5. Drawn(cv, W, out)
  BY <1>4, WidgetDrawn DEF CanvasInv
<1>6. cv' = out.cv
  BY <1>3 DEF Shown
<1>7. l \in Layers /\ p \in Pixels(cv)
  BY DEF CanvasInv, CanvasOK, Canvas, Pixels
<1> HIDE DEF W, out
<1>8. l = W.layer /\ p \in Footprint(W, cv'.cols)
  BY <1>5, <1>6, <1>7 DEF Drawn
<1> QED
  BY <1>8 DEF W

\* No step takes pixels from the canvas.
LEMMA CanvasOnlyGrows ==
  ASSUME CanvasInv, CanvasInv', [Next]_vars
  PROVE  /\ cv'.rows >= cv.rows /\ cv'.cols >= cv.cols
         /\ \A l \in DOMAIN cv.fb : DOMAIN cv.fb[l] \subseteq DOMAIN cv'.fb[l]
<1>1. CanvasOK(cv) /\ CanvasOK(cv')
  BY DEF CanvasInv
<1>2. cv'.rows >= cv.rows /\ cv'.cols >= cv.cols /\ Pixels(cv) \subseteq Pixels(cv')
  <2>1. CASE Greet
    <3>1. Drawn(cv, Greeting, render(cv, Greeting, case.greeting))
      BY GreetingOK, TextDrawn DEF CanvasInv, ContentOK
    <3> QED
      BY <2>1, <3>1 DEF Greet, Shown, Drawn
  <2>2. CASE Clear \/ ClearDisplay
    <3>1. cv' = Blank(cv.rows, cv.cols)
      BY <2>2 DEF Clear, ClearDisplay, Shown, Painted
    <3>2. cv'.rows = cv.rows /\ cv'.cols = cv.cols
      BY <3>1 DEF Blank
    <3> QED
      BY <1>1, <3>2 DEF Pixels, CanvasOK
  <2>3. CASE Draw
    <3>1. PICK i \in DOMAIN Widgets : \E content \in Widgets[i].contents : Shown(DrawWidget(cv, Widgets[i].widget, content))
      BY <2>3 DEF Draw
    <3>2. PICK content \in Widgets[i].contents : Shown(DrawWidget(cv, Widgets[i].widget, content))
      BY <3>1
    <3>3. WidgetOK(Widgets[i].widget) /\ ContentOK(Widgets[i].widget, content)
      BY WidgetsOK DEF CanvasInv
    <3>4. Drawn(cv, Widgets[i].widget, DrawWidget(cv, Widgets[i].widget, content))
      BY <1>1, <3>3, WidgetDrawn
    <3> QED
      BY <3>2, <3>4 DEF Shown, Drawn
  <2>4. CASE cv' = cv
    BY <1>1, <2>4 DEF CanvasOK
  <2> QED
    BY <2>1, <2>2, <2>3, <2>4 DEF Next, vars, Quiet, Timer, SetSymbol, SetBrightness, SwitchKeypad
<1> QED
  BY <1>1, <1>2 DEF CanvasOK, Canvas, Pixels

\* Whatever is drawn in whatever order, on every display: a widget changes pixels
\* of its own area and layer only, the canvas grows and keeps its pixels, what is
\* seen is the composition of the layers although the code skips those behind
\* the first opaque one, only round widgets leave pixels unsent, and each half
\* of a bar has as many pixels as its value says.
THEOREM DrawingIsRight == Spec => CanvasRight
<1>1. Init => CanvasInv
  BY CanvasInit
<1>2. CanvasInv /\ [Next]_vars => CanvasInv'
  BY CanvasStep
<1>3. CanvasInv => GraphicTypeOK /\ BlendIsComposition /\ OnlyRoundSpills /\ BarsFilled
  BY CanvasTypes, SeenIsComposed, BarsAreFilled DEF CanvasInv
<1>4. CanvasInv /\ [Next]_vars =>
        [phase = "running" => \A l \in DOMAIN cv.fb : \A p \in DOMAIN cv.fb[l] : cv'.fb[l][p] # cv.fb[l][p] =>
          \E i \in DOMAIN Widgets : Widgets[i].widget.layer = l /\ p \in Footprint(Widgets[i].widget, cv'.cols)]_vars
  BY PaintsItsOwn
<1>5. CanvasInv /\ CanvasInv' /\ [Next]_vars =>
        [/\ cv'.rows >= cv.rows /\ cv'.cols >= cv.cols
         /\ \A l \in DOMAIN cv.fb : DOMAIN cv.fb[l] \subseteq DOMAIN cv'.fb[l]]_vars
  BY CanvasOnlyGrows
<1> QED
  BY <1>1, <1>2, <1>3, <1>4, <1>5, PTL DEF Spec, CanvasRight, OthersKept, CanvasGrows

Update(o, e, F) == DOMAIN o = DOMAIN e /\ \A f \in DOMAIN e \ F : o[f] = e[f]

\* Putting an area into the buffer changes nothing else.
LEMMA PutIs ==
  ASSUME NEW e, DevOK(e), NEW img, NEW win, WinOK(win)
  PROVE  /\ Update(Put(e, img, win), e, {"buf"}) /\ DevOK(Put(e, img, win))
         /\ \A p \in Screen : Put(e, img, win).buf[p] = IF p \in Win(win) THEN img[p] ELSE e.buf[p]
<1>1. Update(Put(e, img, win), e, {"buf"})
  BY DEF Put, Update
<1>2. \A p \in Screen : Put(e, img, win).buf[p] = IF p \in Win(win) THEN img[p] ELSE e.buf[p]
  BY DEF Put, DevOK, WinOK, ++
<1> QED
  BY <1>1, <1>2, PutOK

\* Neither does sending.
LEMMA SendIs ==
  ASSUME NEW e, DevOK(e), NEW S, S \subseteq Screen
  PROVE  /\ Update(Send(e, S), e, {"dev"}) /\ DevOK(Send(e, S))
         /\ \A p \in Screen : Send(e, S).dev[p] = IF p \in S THEN e.buf[p] ELSE e.dev[p]
<1>1. Update(Send(e, S), e, {"dev"})
  BY DEF Send, Update
<1>2. \A p \in Screen : Send(e, S).dev[p] = IF p \in S THEN e.buf[p] ELSE e.dev[p]
  BY DEF Send, DevOK, ++
<1> QED
  BY <1>1, <1>2, SendOK

-----------------------------------------------------------------------------
(* What display and buffer have to do with each other, for each driver. *)

\* The colour a driver keeps for a pixel.
Kept(v) ==
  IF Driver \in Mono THEN (IF black(v) THEN 1 ELSE 0)
  ELSE IF Driver = "LEDMatrix" THEN (IF 2 * v >= MaxV THEN MaxV ELSE 0) ELSE v

\* The display shows the buffer in these pixels.
Same(e, T) == \A p \in T : e.dev[p] = e.buf[p]

\* The columns that the MDM166A is going to send.
Due(e, p) == e.dirty /\ e.minX <= p[2] /\ p[2] < e.maxX

\* The column the LPH7508 is taken to be at is the one behind a symbol.
SymbolColumns == UNION {Range(case.symbols[i]) : i \in DOMAIN case.symbols}
CtlOK(ctl) ==
  /\ DOMAIN ctl = {"page", "cp", "column", "cc", "symbols"} /\ DOMAIN ctl.symbols = SymbolColumns
  /\ ctl.cc = -1 \/ \E i \in DOMAIN case.symbols : ctl.cc = case.symbols[i][1] + Len(case.symbols[i])

\* Pixels in S were sent.  Drivers that send what changed keep all of the display
\* in step; others what was sent, unless a frame is still to go out.
Synced(e, S) ==
  /\ DevOK(e) /\ {"sent", "late", "dirty"} \subseteq DOMAIN e /\ DOMAIN e.sent = Screen
  /\ CASE Driver \in {"LUIse", "D4D", "serdisplib", "G15", "st2205"} -> Same(e, S)
       [] Driver = "EA232graphic" -> "protocol" \in DOMAIN e /\ e.protocol \in 1 .. 4
       [] Driver = "MatrixOrbitalGX" -> /\ "invert" \in DOMAIN e /\ e.invert \in BOOLEAN
                                        /\ Same(e, S) /\ \A p \in Screen : e.buf[p] \in {0, 1}
       [] Driver = "PICGraphic" -> /\ "delayDone" \in DOMAIN e /\ {e.late, e.delayDone} \subseteq BOOLEAN
                                   /\ ~e.late => Same(e, S)
       [] Driver = "LEDMatrix" -> /\ "lost" \in DOMAIN e /\ e.lost \in BOOLEAN
                                  /\ ~e.lost => Same(e, S)
       [] Driver = "T6963" -> /\ "dual" \in DOMAIN e /\ e.dual \in BOOLEAN
                              /\ Same(e, Screen) /\ \A p \in Screen : e.sent[p] = e.buf[p]
       [] Driver = "LPH7508" -> /\ "ctl" \in DOMAIN e
                                /\ Same(e, Screen) /\ \A p \in Screen : e.sent[p] = e.buf[p]
       [] Driver = "GLCD2USB" -> Same(e, Screen)
       [] Driver = "dpf" -> /\ {"flip", "rotate90"} \subseteq DOMAIN e /\ {e.flip, e.rotate90} \subseteq BOOLEAN
                            /\ \/ e.dirty = {} /\ Same(e, Screen)
                               \/ S = {} /\ e.dirty = {dpf_Place(e, p) : p \in Screen}
       [] Driver = "mdm166a" -> /\ {"minX", "maxX"} \subseteq DOMAIN e /\ {e.minX, e.maxX} \subseteq Nat
                                /\ e.dirty \in BOOLEAN
                                /\ \A p \in Screen : e.dev[p] = e.buf[p] \/ Due(e, p)
       [] Driver = "SamsungSPF" -> e.dirty \in BOOLEAN /\ (e.dirty \/ e.dev = Fill(Screen, Unknown) \/ Same(e, Screen))
       [] Driver = "Image" -> e.dirty \in BOOLEAN /\ (e.dirty \/ Same(e, Screen))
       [] Driver = "picoLCDGraphic" -> /\ "update" \in DOMAIN e /\ e.update \in Int /\ e.dirty \in BOOLEAN
                                       /\ e.dirty \/ Same(e, S)
       [] Driver = "X11" -> {"exposed", "brightness"} \subseteq DOMAIN e /\ e.exposed \subseteq Screen
       [] Driver = "vnc" -> /\ {"osd", "covered"} \subseteq DOMAIN e /\ {e.osd} \subseteq BOOLEAN /\ e.covered \subseteq Screen
                            /\ \A p \in Screen : e.dev[p] = e.buf[p] \/ p \in e.covered

\* A blit puts the area into the buffer; all but the EA232graphic have one.
IsPut(o, e, img, win) ==
  Driver # "EA232graphic" => \A p \in Screen :
    o.buf[p] = IF p \in Win(win) /\ (Driver = "LPH7508" => p[1] < L7_Rows) THEN Kept(img[p]) ELSE e.buf[p]
BlitDone(o, e, img, win, S) == Synced(o, S \union Win(win)) /\ IsPut(o, e, img, win)

\* The bits of an image are what the monochrome displays keep.
LEMMA BitIs ==
  ASSUME NEW img, Driver \in Mono, NEW p \in Screen
  PROVE  Bit(img)[p] = Kept(img[p])
  BY DEF Bit, Kept

\* Drivers that send the area, or all.
LEMMA AreaSent ==
  ASSUME NEW e, NEW S, S \subseteq Screen, NEW img, NEW win, WinOK(win), Synced(e, S),
         Driver \in {"LUIse", "D4D", "serdisplib", "st2205"}, NEW o \in RealBlit(e, img, win)
  PROVE  BlitDone(o, e, img, win, S)
<1> DEFINE im == IF Driver = "LUIse" THEN Bit(img) ELSE img
           b == Put(e, im, win)
           A == IF Driver = "st2205" THEN Screen ELSE Win(win)
<1>0. DevOK(e) /\ {"sent", "late", "dirty"} \subseteq DOMAIN e /\ DOMAIN e.sent = Screen /\ Same(e, S) /\ Win(win) \subseteq Screen
  BY DEF Synced, WinOK
<1>1. o = Send(b, A)
  BY DEF RealBlit, drv_LUIse_blit, drv_D4D_blit, drv_SD_blit, drv_st2205_blit
<1>2. \A p \in Screen : im[p] = Kept(img[p])
  BY BitIs DEF Kept, Mono
<1> HIDE DEF im
<1>3. Update(b, e, {"buf"}) /\ DevOK(b) /\ \A p \in Screen : b.buf[p] = IF p \in Win(win) THEN im[p] ELSE e.buf[p]
  BY <1>0, PutIs
<1> HIDE DEF b
<1>4. Update(o, b, {"dev"}) /\ DevOK(o) /\ \A p \in Screen : o.dev[p] = IF p \in A THEN b.buf[p] ELSE b.dev[p]
  BY <1>0, <1>1, <1>3, SendIs
<1>5. o.buf = b.buf /\ b.dev = e.dev /\ o.sent = e.sent /\ DOMAIN o = DOMAIN e
  BY <1>0, <1>3, <1>4 DEF Update, DevOK
<1>6. Same(o, S \union Win(win))
  BY <1>0, <1>3, <1>4, <1>5 DEF Same
<1>7. IsPut(o, e, img, win)
  BY <1>2, <1>3, <1>5 DEF IsPut
<1>8. Synced(o, S \union Win(win))
  BY <1>0, <1>4, <1>5, <1>6 DEF Synced
<1> QED
  BY <1>7, <1>8 DEF BlitDone

\* What all of the proofs about a blit begin with: the buffer, with the area.
LEMMA BufferPut ==
  ASSUME NEW e, NEW S, NEW img, NEW win, WinOK(win), Synced(e, S), NEW im, \A p \in Screen : im[p] = Kept(img[p])
  PROVE  LET b == Put(e, im, win)
         IN  /\ DevOK(b) /\ {"sent", "late", "dirty"} \subseteq DOMAIN b /\ DOMAIN b.sent = Screen
             /\ Update(b, e, {"buf"}) /\ b.dev = e.dev /\ b.sent = e.sent /\ b.late = e.late /\ b.dirty = e.dirty
             /\ \A p \in Screen : b.buf[p] = IF p \in Win(win) THEN Kept(img[p]) ELSE e.buf[p]
<1> DEFINE b == Put(e, im, win)
<1>1. DevOK(e) /\ {"sent", "late", "dirty"} \subseteq DOMAIN e /\ DOMAIN e.sent = Screen
  BY DEF Synced
<1>2. Update(b, e, {"buf"}) /\ DevOK(b) /\ \A p \in Screen : b.buf[p] = IF p \in Win(win) THEN im[p] ELSE e.buf[p]
  BY <1>1, PutIs
<1> HIDE DEF b
<1>3. DOMAIN b = DOMAIN e /\ b.dev = e.dev /\ b.sent = e.sent /\ b.late = e.late /\ b.dirty = e.dirty
  BY <1>1, <1>2 DEF Update, DevOK
<1>4. \A p \in Screen : b.buf[p] = IF p \in Win(win) THEN Kept(img[p]) ELSE e.buf[p]
  BY <1>2
<1>5. /\ DevOK(b) /\ {"sent", "late", "dirty"} \subseteq DOMAIN b /\ DOMAIN b.sent = Screen
      /\ Update(b, e, {"buf"}) /\ b.dev = e.dev /\ b.sent = e.sent /\ b.late = e.late /\ b.dirty = e.dirty
      /\ \A p \in Screen : b.buf[p] = IF p \in Win(win) THEN Kept(img[p]) ELSE e.buf[p]
  BY <1>1, <1>2, <1>3, <1>4
<1> QED
  BY <1>5 DEF b

\* Quotient and remainder.
LEMMA Divided ==
  ASSUME NEW a \in Nat, NEW b \in Nat \ {0}
  PROVE  a \div b \in Nat /\ a % b \in 0 .. b - 1 /\ a = b * (a \div b) + (a % b)
  OBVIOUS

\* They are unique.
LEMMA DivMod ==
  ASSUME NEW b \in Nat \ {0}, NEW q \in Nat, NEW r \in 0 .. b - 1
  PROVE  (b * q + r) \div b = q /\ (b * q + r) % b = r
  OBVIOUS

\* A larger number has no smaller quotient.
LEMMA QuotientGrows ==
  ASSUME NEW a \in Nat, NEW c \in Nat, NEW b \in Nat \ {0}, a <= c
  PROVE  a \div b <= c \div b
<1> DEFINE x == a \div b
           y == c \div b
<1>1. x \in Nat /\ y \in Nat /\ b * x <= a /\ c < b * y + b
  OBVIOUS
<1> HIDE DEF x, y
<1>2. SUFFICES ASSUME x > y PROVE FALSE
  BY <1>1 DEF x, y
<1>3. PICK k \in Nat : x = y + 1 + k
  BY <1>1, <1>2
<1>4. b * x = b * y + b + b * k /\ b * k \in Nat
  BY <1>1, <1>3
<1> QED
  BY <1>1, <1>3, <1>4

\* A frame of pages of G15Byte rows holds all rows.
LEMMA G15SentAll == G15_Sent = Screen
<1> DEFINE final == (DROWS - 1) \div G15Byte
           height(k) == IF k = final THEN DROWS - k * G15Byte ELSE G15Byte
<1>1. G15Byte \in Nat \ {0} /\ DROWS \in Nat \ {0}
  BY DriverAssumption, Sizes
<1>2. ASSUME NEW r \in 0 .. DROWS - 1
      PROVE  \E k \in 0 .. final : \E j \in 0 .. height(k) - 1 : r = k * G15Byte + j
  <2> DEFINE k == r \div G15Byte
             j == r % G15Byte
  <2>1. k \in Nat /\ j \in 0 .. G15Byte - 1 /\ r = G15Byte * k + j
    BY <1>1, Divided
  <2>2. final \in Nat /\ k <= final
    BY <1>1, Divided, QuotientGrows
  <2> HIDE DEF k, j, final
  <2>3. j \in 0 .. height(k) - 1
    <3>1. CASE k = final
      BY <1>1, <2>1, <3>1
    <3>2. CASE k # final
      BY <2>1, <3>2
    <3> QED
      BY <3>1, <3>2
  <2> HIDE DEF height
  <2>4. k \in 0 .. final /\ r = k * G15Byte + j
    BY <1>1, <2>1, <2>2
  <2> QED
    BY <2>3, <2>4
<1>3. \A p \in Screen : p[1] \in 0 .. DROWS - 1
  BY InRect, Sizes DEF Screen
<1> QED
  BY <1>2, <1>3 DEF G15_Sent

\* The G15 sends all of its buffer.
LEMMA G15Blit ==
  ASSUME NEW e, NEW S, S \subseteq Screen, NEW img, NEW win, WinOK(win), Synced(e, S),
         Driver = "G15", NEW o \in RealBlit(e, img, win)
  PROVE  BlitDone(o, e, img, win, S)
<1> DEFINE b == Put(e, Bit(img), win)
<1>1. o = Send(b, Screen)
  BY G15SentAll DEF RealBlit, drv_G15_blit
<1>2. \A p \in Screen : Bit(img)[p] = Kept(img[p])
  BY BitIs DEF Mono
<1>3. /\ DevOK(b) /\ {"sent", "late", "dirty"} \subseteq DOMAIN b /\ DOMAIN b.sent = Screen
      /\ \A p \in Screen : b.buf[p] = IF p \in Win(win) THEN Kept(img[p]) ELSE e.buf[p]
  BY <1>2, BufferPut
<1> HIDE DEF b
<1>4. Update(o, b, {"dev"}) /\ DevOK(o) /\ \A p \in Screen : o.dev[p] = b.buf[p]
  BY <1>1, <1>3, SendIs
<1>5. o.buf = b.buf /\ {"sent", "late", "dirty"} \subseteq DOMAIN o /\ o.sent = b.sent
  BY <1>3, <1>4 DEF Update, DevOK
<1>6. Same(o, S \union Win(win))
  BY <1>4, <1>5 DEF Same, WinOK
<1>7. IsPut(o, e, img, win)
  BY <1>3, <1>5 DEF IsPut
<1>8. Synced(o, S \union Win(win))
  BY <1>3, <1>4, <1>5, <1>6 DEF Synced
<1> QED
  BY <1>7, <1>8 DEF BlitDone

\* The PIC postpones a frame if the last one was sent a short time ago.
LEMMA PICBlit ==
  ASSUME NEW e, NEW S, S \subseteq Screen, NEW img, NEW win, WinOK(win), Synced(e, S),
         Driver = "PICGraphic", NEW o \in RealBlit(e, img, win)
  PROVE  BlitDone(o, e, img, win, S)
<1> DEFINE b == Put(e, Bit(img), win)
           s == Send(b, Screen)
<1>1. o = IF e.delayDone THEN [s EXCEPT !.delayDone = FALSE, !.late = FALSE] ELSE [b EXCEPT !.late = TRUE]
  BY DEF RealBlit, drv_PICGraphic_blit
<1>2. \A p \in Screen : Bit(img)[p] = Kept(img[p])
  BY BitIs DEF Mono
<1>3. /\ DevOK(b) /\ {"sent", "late", "dirty"} \subseteq DOMAIN b /\ DOMAIN b.sent = Screen /\ Update(b, e, {"buf"})
      /\ \A p \in Screen : b.buf[p] = IF p \in Win(win) THEN Kept(img[p]) ELSE e.buf[p]
  BY <1>2, BufferPut
<1>4. Update(s, b, {"dev"}) /\ DevOK(s) /\ \A p \in Screen : s.dev[p] = b.buf[p]
  <2> HIDE DEF b
  <2> QED
    BY <1>3, SendIs
<1> HIDE DEF b, s
<1>5. "delayDone" \in DOMAIN b /\ b.delayDone \in BOOLEAN
  BY <1>3 DEF Synced, Update
<1>6. DOMAIN s = DOMAIN b /\ s.buf = b.buf /\ s.sent = b.sent
  BY <1>3, <1>4 DEF Update, DevOK
<1>7. /\ {"sent", "late", "dirty", "buf", "dev", "delayDone"} \subseteq DOMAIN o
      /\ o.buf = b.buf /\ o.sent = b.sent /\ o.dev \in {s.dev, b.dev}
      /\ {o.late, o.delayDone} \subseteq BOOLEAN /\ (~o.late => o.dev = s.dev)
  BY <1>1, <1>3, <1>5, <1>6 DEF DevOK
<1>8. DevOK(o) /\ (~o.late => Same(o, S \union Win(win)))
  BY <1>3, <1>4, <1>7 DEF DevOK, Same, WinOK
<1>9. IsPut(o, e, img, win)
  BY <1>3, <1>7 DEF IsPut
<1>10. Synced(o, S \union Win(win))
  BY <1>3, <1>7, <1>8 DEF Synced
<1> QED
  BY <1>9, <1>10 DEF BlitDone

\* The LED matrix gets a frame, or the driver knows that it does not.
LEMMA LEDBlit ==
  ASSUME NEW e, NEW S, S \subseteq Screen, NEW img, NEW win, WinOK(win), Synced(e, S),
         Driver = "LEDMatrix", NEW o \in RealBlit(e, img, win)
  PROVE  BlitDone(o, e, img, win, S)
<1> DEFINE im == [p \in Screen |-> IF 2 * img[p] >= MaxV THEN MaxV ELSE 0]
           b == Put(e, im, win)
           s == Send(b, Screen)
<1>1. \E n : o = [s EXCEPT !.late = n, !.lost = FALSE] \/ o = [b EXCEPT !.late = n, !.lost = TRUE]
  BY DEF RealBlit, drv_LEDMatrix_blit
<1>2. \A p \in Screen : im[p] = Kept(img[p])
  BY DEF Kept, Mono
<1>3. /\ DevOK(b) /\ {"sent", "late", "dirty"} \subseteq DOMAIN b /\ DOMAIN b.sent = Screen /\ Update(b, e, {"buf"})
      /\ \A p \in Screen : b.buf[p] = IF p \in Win(win) THEN Kept(img[p]) ELSE e.buf[p]
  <2> HIDE DEF im
  <2> QED
    BY <1>2, BufferPut
<1>4. Update(s, b, {"dev"}) /\ DevOK(s) /\ \A p \in Screen : s.dev[p] = b.buf[p]
  <2> HIDE DEF b
  <2> QED
    BY <1>3, SendIs
<1> HIDE DEF b, s
<1>5. "lost" \in DOMAIN b
  BY <1>3 DEF Synced, Update
<1>6. DOMAIN s = DOMAIN b /\ s.buf = b.buf /\ s.sent = b.sent
  BY <1>3, <1>4 DEF Update, DevOK
<1>7. PICK n : o = [s EXCEPT !.late = n, !.lost = FALSE] \/ o = [b EXCEPT !.late = n, !.lost = TRUE]
  BY <1>1
<1>8. /\ {"sent", "late", "dirty", "buf", "dev", "lost"} \subseteq DOMAIN o
      /\ o.buf = b.buf /\ o.sent = b.sent /\ o.dev \in {s.dev, b.dev}
      /\ o.lost \in BOOLEAN /\ (~o.lost => o.dev = s.dev)
  BY <1>3, <1>5, <1>6, <1>7 DEF DevOK
<1>9. DevOK(o) /\ (~o.lost => Same(o, S \union Win(win)))
  BY <1>3, <1>4, <1>8 DEF DevOK, Same, WinOK
<1>10. IsPut(o, e, img, win)
  BY <1>3, <1>8 DEF IsPut
<1>11. Synced(o, S \union Win(win))
  BY <1>3, <1>8, <1>9 DEF Synced
<1> QED
  BY <1>10, <1>11 DEF BlitDone

\* What did not change need not be sent.
LEMMA Unchanged ==
  ASSUME NEW e, NEW im, NEW win, WinOK(win), DevOK(e), Changed(e, im, win) = {}
  PROVE  \A p \in Screen : (IF p \in Win(win) THEN im[p] ELSE e.buf[p]) = e.buf[p]
  BY DEF Changed

\* Two drivers note that something changed.
LEMMA NotedBlit ==
  ASSUME NEW e, NEW S, S \subseteq Screen, NEW img, NEW win, WinOK(win), Synced(e, S),
         Driver \in {"SamsungSPF", "Image"}, NEW o \in RealBlit(e, img, win)
  PROVE  BlitDone(o, e, img, win, S)
<1> DEFINE b == Put(e, img, win)
           changed == Changed(e, img, win) # {}
<1>1. o = [b EXCEPT !.dirty = b.dirty \/ changed]
  BY DEF RealBlit, drv_SamsungSPF_blit, drv_IMG_blit
<1>2. \A p \in Screen : img[p] = Kept(img[p])
  BY DEF Kept, Mono
<1>3. /\ DevOK(b) /\ {"sent", "late", "dirty"} \subseteq DOMAIN b /\ DOMAIN b.sent = Screen
      /\ b.dev = e.dev /\ b.dirty = e.dirty
      /\ \A p \in Screen : b.buf[p] = IF p \in Win(win) THEN Kept(img[p]) ELSE e.buf[p]
  BY <1>2, BufferPut
<1>4. ~changed => \A p \in Screen : b.buf[p] = e.buf[p]
  BY <1>2, <1>3, Unchanged DEF Synced
<1>5. e.dirty \in BOOLEAN
  BY DEF Synced
<1> HIDE DEF b, changed
<1>6. /\ {"sent", "late", "dirty", "buf", "dev"} \subseteq DOMAIN o
      /\ o.buf = b.buf /\ o.sent = b.sent /\ o.dev = e.dev
  BY <1>1, <1>3 DEF DevOK
<1>7. o.dirty = (e.dirty \/ changed)
  BY <1>1, <1>3 DEF DevOK
<1>8. changed \in BOOLEAN
  BY DEF changed
<1>9. o.dirty \in BOOLEAN /\ (~o.dirty => ~e.dirty /\ ~changed)
  BY <1>5, <1>7, <1>8
<1>10. ~changed /\ Same(e, Screen) => Same(o, Screen)
  BY <1>4, <1>6 DEF Same
<1>11. IsPut(o, e, img, win)
  BY <1>3, <1>6 DEF IsPut
<1>12. Synced(o, S \union Win(win))
  BY <1>3, <1>6, <1>9, <1>10 DEF Synced, DevOK
<1> QED
  BY <1>11, <1>12 DEF BlitDone

\* The picoLCD sends all of its buffer, at once or from the timer.
LEMMA PicoBlit ==
  ASSUME NEW e, NEW S, S \subseteq Screen, NEW img, NEW win, WinOK(win), Synced(e, S),
         Driver = "picoLCDGraphic", NEW o \in RealBlit(e, img, win)
  PROVE  BlitDone(o, e, img, win, S)
<1> DEFINE b0 == Put(e, Bit(img), win)
           b == [b0 EXCEPT !.dirty = TRUE]
           s == Send(b, Screen)
<1>1. \A p \in Screen : Bit(img)[p] = Kept(img[p])
  BY BitIs DEF Mono
<1>2. /\ DevOK(b0) /\ {"sent", "late", "dirty"} \subseteq DOMAIN b0 /\ DOMAIN b0.sent = Screen /\ Update(b0, e, {"buf"})
      /\ \A p \in Screen : b0.buf[p] = IF p \in Win(win) THEN Kept(img[p]) ELSE e.buf[p]
  BY <1>1, BufferPut
<1>3. "update" \in DOMAIN e /\ e.update \in Int
  BY DEF Synced
<1>4. "update" \in DOMAIN b0 /\ b0.update = e.update
  BY <1>2, <1>3 DEF Update
<1>5. o = IF b.update <= 0 THEN [s EXCEPT !.dirty = FALSE] ELSE b
  <2> HIDE DEF b0
  <2>1. b.dirty /\ b.update = e.update /\ e.update \in Int
    BY <1>2, <1>3, <1>4
  <2>2. o = IF e.update <= 0 THEN drv_pLG_update_img(b) ELSE b
    BY <1>3 DEF RealBlit, drv_pLG_blit, b0
  <2> HIDE DEF b
  <2> QED
    BY <2>1, <2>2 DEF drv_pLG_update_img
<1> HIDE DEF b0
<1>6. /\ DevOK(b) /\ {"sent", "late", "dirty", "update"} \subseteq DOMAIN b /\ b.sent = b0.sent /\ b.buf = b0.buf
      /\ b.update = e.update /\ b.dirty = TRUE
  BY <1>2, <1>4 DEF DevOK
<1> HIDE DEF b
<1>7. Update(s, b, {"dev"}) /\ DevOK(s) /\ \A p \in Screen : s.dev[p] = b.buf[p]
  BY <1>6, SendIs
<1> HIDE DEF s
<1>8. DOMAIN s = DOMAIN b /\ s.buf = b.buf /\ s.sent = b.sent /\ s.update = b.update
  BY <1>6, <1>7 DEF Update, DevOK
<1>9. /\ {"sent", "late", "dirty", "buf", "dev", "update"} \subseteq DOMAIN o
      /\ o.buf = b.buf /\ o.sent = b.sent /\ o.update = e.update /\ o.dev \in {s.dev, b.dev}
      /\ o.dirty \in BOOLEAN /\ (~o.dirty => o.dev = s.dev)
  BY <1>5, <1>6, <1>7, <1>8 DEF DevOK
<1>10. DevOK(o) /\ (~o.dirty => Same(o, S \union Win(win)))
  BY <1>6, <1>7, <1>9 DEF DevOK, Same, WinOK
<1>11. IsPut(o, e, img, win)
  BY <1>2, <1>6, <1>9 DEF IsPut
<1>12. Synced(o, S \union Win(win))
  BY <1>2, <1>3, <1>6, <1>9, <1>10 DEF Synced
<1> QED
  BY <1>11, <1>12 DEF BlitDone

\* The keypad of vnc covers a part of what is shown.
LEMMA VncBlit ==
  ASSUME NEW e, NEW S, S \subseteq Screen, NEW img, NEW win, WinOK(win), Synced(e, S),
         Driver = "vnc", NEW o \in RealBlit(e, img, win)
  PROVE  BlitDone(o, e, img, win, S)
<1> DEFINE b == Put(e, img, win)
           s == Send(b, Win(win))
           c0 == e.covered \ Win(win)
<1>1. o = IF ~s.osd THEN [s EXCEPT !.covered = s.covered \ Win(win)]
          ELSE [s EXCEPT !.dev = Fill(Keypad, MaxV) ++ s.dev, !.covered = (s.covered \ Win(win)) \union Keypad]
  <2>1. o = drv_vnc_blit(e, img, win)
    BY DEF RealBlit
  <2>2. s.osd = e.osd /\ s.covered = e.covered
    BY DEF Send, Put, Synced
  <2> QED
    BY <2>1, <2>2 DEF drv_vnc_blit
<1>2. \A p \in Screen : img[p] = Kept(img[p])
  BY DEF Kept, Mono
<1>3. /\ DevOK(b) /\ {"sent", "late", "dirty"} \subseteq DOMAIN b /\ DOMAIN b.sent = Screen /\ Update(b, e, {"buf"})
      /\ b.dev = e.dev
      /\ \A p \in Screen : b.buf[p] = IF p \in Win(win) THEN Kept(img[p]) ELSE e.buf[p]
  BY <1>2, BufferPut
<1>4. Update(s, b, {"dev"}) /\ DevOK(s) /\ \A p \in Screen : s.dev[p] = IF p \in Win(win) THEN b.buf[p] ELSE b.dev[p]
  <2> HIDE DEF b
  <2> QED
    BY <1>3, SendIs DEF WinOK
<1> HIDE DEF b, s
<1>5. /\ {"osd", "covered"} \subseteq DOMAIN e /\ e.osd \in BOOLEAN /\ e.covered \subseteq Screen
      /\ \A p \in Screen : e.dev[p] = e.buf[p] \/ p \in e.covered
  BY DEF Synced
<1>6. DOMAIN s = DOMAIN e /\ DOMAIN b = DOMAIN e /\ s.buf = b.buf /\ s.sent = b.sent /\ s.osd = e.osd /\ s.covered = e.covered
  BY <1>3, <1>4, <1>5 DEF Update, DevOK
<1>7. \A p \in Screen : s.dev[p] = b.buf[p] \/ p \in c0
  BY <1>3, <1>4, <1>5, <1>6
<1>8. Keypad \subseteq Screen
  BY DEF Keypad
<1>9. /\ {"sent", "late", "dirty", "osd", "covered"} \subseteq DOMAIN o /\ DevOK(o)
      /\ o.buf = b.buf /\ o.sent = b.sent /\ o.osd = e.osd
  BY <1>1, <1>3, <1>4, <1>5, <1>6, <1>8 DEF DevOK, Fill, ++
<1>10. o.covered \subseteq Screen /\ \A p \in Screen : o.dev[p] = o.buf[p] \/ p \in o.covered
  <2>1. CASE ~s.osd
    <3>1. o.covered = c0 /\ o.dev = s.dev
      BY <1>1, <1>4, <1>5, <1>6, <2>1 DEF DevOK
    <3> QED
      BY <1>5, <1>7, <1>9, <3>1
  <2>2. CASE s.osd
    <3>1. o.covered = c0 \union Keypad /\ o.dev = Fill(Keypad, MaxV) ++ s.dev
      BY <1>1, <1>4, <1>5, <1>6, <2>2 DEF DevOK
    <3>2. \A p \in Screen \ Keypad : o.dev[p] = s.dev[p]
      BY <1>4, <3>1 DEF DevOK, Fill, ++
    <3> QED
      BY <1>5, <1>7, <1>8, <1>9, <3>1, <3>2
  <2> QED
    BY <2>1, <2>2
<1>11. IsPut(o, e, img, win)
  BY <1>3, <1>9 DEF IsPut
<1>12. Synced(o, S \union Win(win))
  BY <1>3, <1>5, <1>9, <1>10 DEF Synced
<1> QED
  BY <1>11, <1>12 DEF BlitDone

\* A bounded set of naturals has a largest element.
LEMMA MaxProperty ==
  ASSUME NEW N \in Nat, NEW S \in SUBSET (0 .. N), S # {}
  PROVE  Max(S) \in S /\ \A y \in S : Max(S) >= y
<1> DEFINE T == {n \in 0 .. N : N - n \in S}
           x == N - Min(T)
<1>1. \A y \in S : y \in 0 .. N /\ N - y \in T
  OBVIOUS
<1>2. T \in SUBSET Nat /\ T # {}
  <2>1. \A n \in T : n \in Nat
    OBVIOUS
  <2> HIDE DEF T
  <2> QED
    BY <1>1, <2>1
<1>3. Min(T) \in T /\ \A y \in T : Min(T) <= y
  BY <1>2, MinProperty
<1>4. x \in S /\ \A y \in S : x >= y
  <2> DEFINE m == Min(T)
  <2>1. m \in 0 .. N /\ N - m \in S /\ \A y \in T : m <= y
    BY <1>3
  <2> HIDE DEF T
  <2> HIDE DEF m
  <2>2. ASSUME NEW y \in S PROVE N - m >= y
    BY <1>1, <2>1
  <2> QED
    BY <2>1, <2>2 DEF m
<1> HIDE DEF x, T
<1>5. \E z \in S : \A y \in S : z >= y
  BY <1>4
<1> QED
  BY <1>5 DEF Max

\* The MDM166A notes the columns it has to send.
LEMMA MDMBlit ==
  ASSUME NEW e, NEW S, S \subseteq Screen, NEW img, NEW win, WinOK(win), Synced(e, S),
         Visible(win), Driver = "mdm166a", NEW o \in RealBlit(e, img, win)
  PROVE  BlitDone(o, e, img, win, S) /\ o.dev = e.dev
<1> DEFINE b == Put(e, Bit(img), win)
           C == Changed(e, Bit(img), win)
           min == IF e.dirty THEN e.minX ELSE win.w
           max == IF e.dirty THEN e.maxX ELSE 0
           A == {min} \union {p[2] : p \in C}
           B == {max} \union {p[2] + 1 : p \in C}
           changed == C # {}
<1>1. o = [b EXCEPT !.minX = Min(A), !.maxX = Max(B), !.dirty = b.dirty \/ changed]
  BY DEF RealBlit, drv_MDM166A_blit
<1>2. \A p \in Screen : Bit(img)[p] = Kept(img[p])
  BY BitIs DEF Mono
<1>3. /\ DevOK(b) /\ {"sent", "late", "dirty"} \subseteq DOMAIN b /\ DOMAIN b.sent = Screen /\ Update(b, e, {"buf"})
      /\ b.dev = e.dev /\ b.dirty = e.dirty
      /\ \A p \in Screen : b.buf[p] = IF p \in Win(win) THEN Kept(img[p]) ELSE e.buf[p]
  BY <1>2, BufferPut
<1>4. /\ {"minX", "maxX"} \subseteq DOMAIN e /\ {e.minX, e.maxX} \subseteq Nat /\ e.dirty \in BOOLEAN
      /\ \A p \in Screen : e.dev[p] = e.buf[p] \/ Due(e, p)
  BY DEF Synced
<1>5. \A p \in Screen \ C : b.buf[p] = e.buf[p]
  BY <1>2, <1>3 DEF Changed
<1>6. C \subseteq Screen /\ \A p \in C : p[2] \in 0 .. DCOLS - 1
  BY InRect, Sizes DEF Changed, WinOK, Screen
<1>7. min \in Nat /\ max \in Nat
  BY <1>4 DEF WinOK, Visible
<1>8. {"minX", "maxX"} \subseteq DOMAIN b
  BY <1>3, <1>4 DEF Update
<1> HIDE DEF b, C, min, max
<1>9. Min(A) \in Nat /\ Min(A) <= min /\ \A p \in C : Min(A) <= p[2]
  <2>1. A \in SUBSET Nat /\ A # {}
    BY <1>6, <1>7, Sizes
  <2>2. Min(A) \in A /\ \A y \in A : Min(A) <= y
    BY <2>1, MinProperty
  <2>3. min \in A /\ \A p \in C : p[2] \in A
    OBVIOUS
  <2>4. Min(A) \in Nat
    BY <2>1, <2>2
  <2> HIDE DEF A
  <2> QED
    BY <2>2, <2>3, <2>4
<1>10. Max(B) \in Nat /\ Max(B) >= max /\ \A p \in C : Max(B) > p[2]
  <2>1. max + DCOLS \in Nat /\ B \in SUBSET (0 .. max + DCOLS) /\ B # {}
    BY <1>6, <1>7, Sizes
  <2>2. Max(B) \in B /\ \A y \in B : Max(B) >= y
    BY <2>1, MaxProperty
  <2>3. max \in B /\ \A p \in C : p[2] + 1 \in B
    OBVIOUS
  <2>4. Max(B) \in 0 .. max + DCOLS
    BY <2>1, <2>2
  <2> HIDE DEF B
  <2>5. Max(B) \in Nat /\ Max(B) >= max
    BY <1>7, <2>1, <2>2, <2>3, <2>4
  <2>6. ASSUME NEW p \in C PROVE Max(B) > p[2]
    <3>1. Max(B) >= p[2] + 1 /\ p[2] \in Nat
      BY <1>6, <2>2, <2>3
    <3> QED
      BY <2>5, <3>1
  <2> QED
    BY <2>5, <2>6
<1> HIDE DEF A, B
<1>11. /\ {"sent", "late", "dirty", "minX", "maxX"} \subseteq DOMAIN o /\ DevOK(o)
       /\ o.buf = b.buf /\ o.sent = b.sent /\ o.dev = e.dev
       /\ o.minX = Min(A) /\ o.maxX = Max(B) /\ o.dirty = (e.dirty \/ changed)
  BY <1>1, <1>3, <1>8 DEF DevOK
<1>12. o.dirty \in BOOLEAN
  BY <1>4, <1>11
<1>13. \A p \in Screen : o.dev[p] = o.buf[p] \/ Due(o, p)
  <2> SUFFICES ASSUME NEW p \in Screen PROVE o.dev[p] = o.buf[p] \/ Due(o, p)
    OBVIOUS
  <2>0. p[2] \in Nat
    BY InRect, Sizes DEF Screen
  <2>1. CASE p \in C
    <3>1. o.dirty /\ o.minX <= p[2] /\ p[2] < o.maxX
      BY <1>6, <1>9, <1>10, <1>11, <2>1
    <3> QED
      BY <3>1 DEF Due
  <2>2. CASE p \notin C /\ e.dev[p] = e.buf[p]
    BY <1>5, <1>11, <2>2
  <2>3. CASE p \notin C /\ Due(e, p)
    <3>1. e.dirty /\ e.minX <= p[2] /\ p[2] < e.maxX
      BY <2>3 DEF Due
    <3>2. min = e.minX /\ max = e.maxX
      BY <3>1 DEF min, max
    <3>3. o.minX <= p[2] /\ p[2] < o.maxX
      <4>1. /\ o.minX \in Nat /\ o.minX <= e.minX /\ e.minX \in Nat /\ e.minX <= p[2]
            /\ o.maxX \in Nat /\ e.maxX <= o.maxX /\ e.maxX \in Nat /\ p[2] < e.maxX
        BY <1>4, <1>9, <1>10, <1>11, <3>1, <3>2
      <4> QED
        BY <2>0, <4>1
    <3>4. o.dirty
      BY <1>11, <3>1
    <3> QED
      BY <3>3, <3>4 DEF Due
  <2> QED
    BY <1>4, <2>1, <2>2, <2>3
<1>14. IsPut(o, e, img, win)
  BY <1>3, <1>11 DEF IsPut
<1>15. Synced(o, S \union Win(win))
  BY <1>3, <1>9, <1>10, <1>11, <1>12, <1>13 DEF Synced
<1> QED
  BY <1>11, <1>14, <1>15 DEF BlitDone

\* A set of pixels lies within the rectangle around it.
LEMMA AroundHolds ==
  ASSUME NEW N \in Nat, NEW T, T # {}, \A q \in T : q = <<q[1], q[2]>> /\ q[1] \in 0 .. N /\ q[2] \in 0 .. N
  PROVE  T \subseteq Around(T)
<1> DEFINE A == {q[1] : q \in T}
           B == {q[2] : q \in T}
<1>1. A \in SUBSET (0 .. N) /\ B \in SUBSET (0 .. N) /\ A # {} /\ B # {}
  OBVIOUS
<1>2. A \in SUBSET Nat /\ B \in SUBSET Nat
  BY <1>1
<1>3. \A q \in T : q[1] \in A /\ q[2] \in B
  OBVIOUS
<1> HIDE DEF A, B
<1>4. /\ Min(A) \in A /\ Min(B) \in B /\ Max(A) \in A /\ Max(B) \in B
      /\ \A y \in A : Min(A) <= y /\ y <= Max(A)
      /\ \A y \in B : Min(B) <= y /\ y <= Max(B)
  BY <1>1, <1>2, MinProperty, MaxProperty
<1>5. ASSUME NEW q \in T
      PROVE  q \in Rect(Min(A), Min(B), Max(A) - Min(A) + 1, Max(B) - Min(B) + 1)
  <2>1. /\ q[1] \in Min(A) .. Min(A) + (Max(A) - Min(A) + 1) - 1
        /\ q[2] \in Min(B) .. Min(B) + (Max(B) - Min(B) + 1) - 1
    BY <1>2, <1>3, <1>4
  <2> QED
    BY <2>1, InRect
<1> QED
  BY <1>5 DEF Around, A, B

\* The dpf sends a rectangle with all that changed.
LEMMA DpfBlit ==
  ASSUME NEW e, NEW S, S \subseteq Screen, NEW img, NEW win, WinOK(win), Synced(e, S),
         Driver = "dpf", NEW o \in RealBlit(e, img, win)
  PROVE  BlitDone(o, e, img, win, S)
<1> DEFINE b == Put(e, img, win)
           C == Changed(e, img, win)
           place(p) == dpf_Place(e, p)
           dirty == {place(p) : p \in C} \union e.dirty
           out == {p \in Screen : dirty # {} /\ place(p) \in Around(dirty)}
           s == Send(b, out)
           all == {place(p) : p \in Screen}
<1>1. /\ {"flip", "rotate90"} \subseteq DOMAIN e /\ {e.flip, e.rotate90} \subseteq BOOLEAN
      /\ \/ e.dirty = {} /\ Same(e, Screen)
         \/ S = {} /\ e.dirty = all
  BY DEF Synced
<1>2. \A p \in Screen : img[p] = Kept(img[p])
  BY DEF Kept, Mono
<1>3. /\ DevOK(b) /\ {"sent", "late", "dirty"} \subseteq DOMAIN b /\ DOMAIN b.sent = Screen /\ Update(b, e, {"buf"})
      /\ b.dev = e.dev /\ b.dirty = e.dirty
      /\ \A p \in Screen : b.buf[p] = IF p \in Win(win) THEN Kept(img[p]) ELSE e.buf[p]
  BY <1>2, BufferPut
<1>4. b.flip = e.flip /\ b.rotate90 = e.rotate90
  BY <1>1, <1>3 DEF Update
<1>5. o = [s EXCEPT !.dirty = {}]
  <2>1. \A p : dpf_Place(b, p) = place(p)
    BY <1>4 DEF dpf_Place
  <2> QED
    BY <2>1 DEF RealBlit, drv_dpf_blit, dpf_Dirty
<1>6. \A p \in Screen \ C : b.buf[p] = e.buf[p]
  BY <1>2, <1>3 DEF Changed
<1>7. C \subseteq Screen
  BY DEF Changed, WinOK
<1>8. ASSUME NEW p \in Screen
      PROVE  LET q == place(p) IN q = <<q[1], q[2]>> /\ q[1] \in 0 .. DROWS + DCOLS /\ q[2] \in 0 .. DROWS + DCOLS
  <2>1. p[1] \in 0 .. DROWS - 1 /\ p[2] \in 0 .. DCOLS - 1 /\ p = <<p[1], p[2]>>
    BY InRect, Sizes DEF Screen
  <2> QED
    BY <1>1, <2>1, Sizes DEF dpf_Place
<1>9. dirty # {} => dirty \subseteq Around(dirty)
  <2>1. \A q \in dirty : q = <<q[1], q[2]>> /\ q[1] \in 0 .. DROWS + DCOLS /\ q[2] \in 0 .. DROWS + DCOLS
    <3>1. \A q \in dirty : \E p \in Screen : q = place(p)
      BY <1>1, <1>7
    <3> HIDE DEF place, dirty
    <3> QED
      BY <1>8, <3>1
  <2>2. DROWS + DCOLS \in Nat
    BY Sizes
  <2> HIDE DEF dirty
  <2> QED
    BY <2>1, <2>2, AroundHolds
<1>10. \A p \in C : p \in out
  BY <1>7, <1>9
<1>11. e.dirty = all => \A p \in Screen : p \in out
  BY <1>9
<1>12. out \subseteq Screen
  OBVIOUS
<1> HIDE DEF b, C, out, dirty, all
<1>13. Update(s, b, {"dev"}) /\ DevOK(s) /\ \A p \in Screen : s.dev[p] = IF p \in out THEN b.buf[p] ELSE b.dev[p]
  BY <1>3, <1>12, SendIs
<1> HIDE DEF s
<1>14. DOMAIN s = DOMAIN b /\ DOMAIN b = DOMAIN e /\ s.buf = b.buf /\ s.sent = b.sent /\ s.flip = e.flip /\ s.rotate90 = e.rotate90
  BY <1>1, <1>3, <1>4, <1>13 DEF Update, DevOK
<1>15. /\ {"sent", "late", "dirty", "flip", "rotate90"} \subseteq DOMAIN o /\ DevOK(o)
       /\ o.buf = b.buf /\ o.sent = b.sent /\ o.dev = s.dev /\ o.flip = e.flip /\ o.rotate90 = e.rotate90
       /\ o.dirty = {}
  BY <1>1, <1>3, <1>5, <1>13, <1>14 DEF DevOK
<1>16. Same(o, Screen)
  <2> SUFFICES ASSUME NEW p \in Screen PROVE o.dev[p] = o.buf[p]
    BY DEF Same
  <2>1. CASE p \in out
    BY <1>13, <1>15, <2>1
  <2>2. CASE p \notin out
    <3>1. p \notin C /\ Same(e, Screen)
      BY <1>1, <1>10, <1>11, <2>2
    <3> QED
      BY <1>3, <1>6, <1>13, <1>15, <2>2, <3>1 DEF Same
  <2> QED
    BY <2>1, <2>2
<1>17. IsPut(o, e, img, win)
  BY <1>3, <1>15 DEF IsPut
<1>18. Synced(o, S \union Win(win))
  BY <1>1, <1>3, <1>15, <1>16 DEF Synced
<1> QED
  BY <1>17, <1>18 DEF BlitDone

\* Less than a multiple.
LEMMA QuotientBelow ==
  ASSUME NEW a \in Nat, NEW b \in Nat \ {0}, NEW m \in Nat, a < b * m
  PROVE  a \div b < m
<1> DEFINE q == a \div b
<1>1. q \in Nat /\ b * q <= a
  BY Divided
<1> HIDE DEF q
<1>2. SUFFICES ASSUME q >= m PROVE FALSE
  BY <1>1 DEF q
<1>3. PICK k \in Nat : q = m + k
  BY <1>1, <1>2
<1>4. b * q = b * m + b * k /\ b * k \in Nat /\ b * m \in Nat /\ b * q \in Nat
  BY <1>1, <1>3
<1> QED
  BY <1>1, <1>4

\* The pixels are numbered along the rows.
LEMMA FrameIndex ==
  ASSUME NEW rows \in Nat, NEW cols \in Nat, NEW r \in 0 .. rows - 1, NEW c \in 0 .. cols - 1
  PROVE  r * cols + c \in 0 .. rows * cols - 1
<1>1. PICK k \in Nat : rows = r + 1 + k
  OBVIOUS
<1>2. rows * cols = r * cols + cols + k * cols
  BY <1>1
<1>3. r * cols \in Nat /\ k * cols \in Nat
  BY <1>1
<1> QED
  BY <1>2, <1>3

\* A run holds the bytes that differ.
LEMMA RunHolds ==
  ASSUME NEW lo, NEW hi, NEW gap, NEW D, NEW i \in lo .. hi, i \in D
  PROVE  i \in DiffRuns(lo, hi, gap, D)
  BY DEF DiffRuns

\* A byte of the T6963 is one of its memory, and in the loop over its row.
LEMMA T6Bytes ==
  ASSUME case \in Cases, Driver = "T6963", NEW win, WinOK(win), Visible(win), NEW p \in Win(win)
  PROVE  /\ p[1] \in win.r .. win.r + win.h - 1
         /\ RowByte(p) \in 0 .. (DROWS * DCOLS) \div CELL - 1
         /\ RowByte(p) \in (p[1] * DCOLS + win.c) \div CELL .. (p[1] * DCOLS + win.c + win.w + CELL - 1) \div CELL
<1> DEFINE r == p[1]
           x == p[1] * DCOLS + p[2]
           m == DROWS * (DCOLS \div CELL)
<1>0. win.r \in Nat /\ win.c \in Nat /\ win.h \in Nat /\ win.w \in Nat
  BY DEF WinOK, Visible
<1>1. CELL \in Nat \ {0} /\ DCOLS % CELL = 0
  BY DriverAssumption, SceneAssumption DEF OptionsOK, Driver
<1>2. r \in 0 .. DROWS - 1 /\ p[2] \in 0 .. DCOLS - 1
  BY InRect, Sizes DEF Screen, WinOK
<1>3. r \in win.r .. win.r + win.h - 1 /\ p[2] \in win.c .. win.c + win.w - 1
  BY InRect DEF Win
<1>4. x \in 0 .. DROWS * DCOLS - 1
  BY <1>2, Sizes, FrameIndex
<1>5. m \in Nat /\ DROWS * DCOLS = CELL * m
  <2> DEFINE q == DCOLS \div CELL
             k == DCOLS % CELL
  <2>0. q \in Nat /\ DCOLS = CELL * q + k /\ k = 0 /\ CELL * q \in Nat
    BY <1>1, Sizes, Divided
  <2> HIDE DEF q, k
  <2>1. q \in Nat /\ DCOLS = CELL * q
    BY <2>0
  <2>2. DROWS * q \in Nat /\ DROWS * (CELL * q) = CELL * (DROWS * q)
    BY <1>1, <2>1, Sizes DEF q
  <2> QED
    BY <2>1, <2>2 DEF q
<1>6. (DROWS * DCOLS) \div CELL = m
  <2>1. (CELL * m + 0) \div CELL = m
    BY <1>1, <1>5, DivMod
  <2>2. CELL * m + 0 = CELL * m
    BY <1>1, <1>5
  <2> QED
    BY <1>5, <2>1, <2>2
<1>7. r * DCOLS \in Nat
  BY <1>2, Sizes
<1> HIDE DEF m, x
<1>8. x \in Nat /\ x < CELL * m
  <2>1. DROWS * DCOLS \in Nat
    BY Sizes
  <2> QED
    BY <1>4, <1>5, <2>1
<1>9. x \div CELL \in Nat /\ x \div CELL < m
  BY <1>1, <1>5, <1>8, QuotientBelow, Divided
<1> DEFINE a == r * DCOLS + win.c
           b == r * DCOLS + win.c + win.w + CELL - 1
<1>10. a \in Nat /\ b \in Nat /\ a <= x /\ x <= b
  <2> DEFINE y == r * DCOLS
  <2> HIDE DEF y
  <2>1. y \in Nat /\ x = y + p[2]
    BY <1>7 DEF x, y
  <2>2. y + win.c \in Nat /\ y + win.c + win.w + CELL - 1 \in Nat /\ y + win.c <= x /\ x <= y + win.c + win.w + CELL - 1
    BY <1>0, <1>1, <1>2, <1>3, <2>1, Sizes
  <2> QED
    BY <2>2 DEF y
<1> HIDE DEF a, b
<1>11. a \div CELL <= x \div CELL /\ x \div CELL <= b \div CELL /\ a \div CELL \in Nat /\ b \div CELL \in Nat
  BY <1>1, <1>8, <1>10, QuotientGrows, Divided
<1>12. x \div CELL \in 0 .. m - 1 /\ x \div CELL \in a \div CELL .. b \div CELL
  BY <1>5, <1>9, <1>11
<1>13. RowByte(p) = x \div CELL
  BY DEF RowByte, x
<1> QED
  BY <1>3, <1>6, <1>12, <1>13 DEF a, b

\* The T6963 sends all bytes that changed, each to its half.
LEMMA T6Blit ==
  ASSUME case \in Cases, NEW e, NEW S, S \subseteq Screen, NEW img, NEW win, WinOK(win), Synced(e, S),
         Visible(win), Driver = "T6963", NEW o \in RealBlit(e, img, win)
  PROVE  BlitDone(o, e, img, win, S)
<1> DEFINE b == Put(e, Bit(img), win)
           total == (DROWS * DCOLS) \div CELL
           dirty == {i \in 0 .. total - 1 : \E p \in InBytes(RowByte, {i}) : b.buf[p] # e.sent[p]}
           run(r) == DiffRuns((r * DCOLS + win.c) \div CELL, (r * DCOLS + win.c + win.w + CELL - 1) \div CELL,
                              ShortGap, dirty)
           bytes == UNION {{T6_Address(e, r, i) : i \in run(r)} : r \in win.r .. win.r + win.h - 1}
           copied == {i \in 0 .. total - 1 : \E h \in {"upper", "lower"} : <<h, i>> \in bytes}
           half(p) == IF e.dual /\ p[1] >= DROWS \div 2 THEN "lower" ELSE "upper"
           shown == {p \in Screen : <<half(p), RowByte(p)>> \in bytes}
           C == {p \in Screen : b.buf[p] # e.buf[p]}
           in == InBytes(RowByte, copied)
<1>1. o = [b EXCEPT !.sent = [p \in in |-> b.buf[p]] ++ b.sent, !.dev = [p \in shown |-> b.buf[p]] ++ b.dev]
  BY DEF RealBlit, drv_T6_blit
<1>2. \A p \in Screen : Bit(img)[p] = Kept(img[p])
  BY BitIs DEF Mono
<1>3. /\ DevOK(b) /\ {"sent", "late", "dirty"} \subseteq DOMAIN b /\ DOMAIN b.sent = Screen /\ Update(b, e, {"buf"})
      /\ b.dev = e.dev /\ b.sent = e.sent
      /\ \A p \in Screen : b.buf[p] = IF p \in Win(win) THEN Kept(img[p]) ELSE e.buf[p]
  BY <1>2, BufferPut
<1>4. /\ "dual" \in DOMAIN e /\ e.dual \in BOOLEAN
      /\ Same(e, Screen) /\ \A p \in Screen : e.sent[p] = e.buf[p]
  BY DEF Synced
<1>5. \A p \in C : p \in shown /\ RowByte(p) \in copied
  <2> SUFFICES ASSUME NEW p \in C PROVE p \in shown /\ RowByte(p) \in copied
    OBVIOUS
  <2> DEFINE i == RowByte(p)
             r == p[1]
  <2>1. p \in Screen /\ p \in Win(win) /\ b.buf[p] # e.sent[p]
    BY <1>3, <1>4
  <2>2. /\ r \in win.r .. win.r + win.h - 1 /\ i \in 0 .. total - 1
        /\ i \in (r * DCOLS + win.c) \div CELL .. (r * DCOLS + win.c + win.w + CELL - 1) \div CELL
    BY <2>1, T6Bytes
  <2> HIDE DEF total
  <2>3. i \in dirty
    BY <2>1, <2>2 DEF InBytes
  <2>4. i \in run(r)
    <3> HIDE DEF dirty, i, r
    <3> QED
      BY <2>2, <2>3, RunHolds
  <2> HIDE DEF run, dirty
  <2>5. T6_Address(e, r, i) \in bytes
    BY <2>2, <2>4
  <2>6. T6_Address(e, r, i) = <<half(p), i>> /\ half(p) \in {"upper", "lower"}
    BY DEF T6_Address
  <2> HIDE DEF bytes
  <2> QED
    BY <2>1, <2>2, <2>5, <2>6
<1>6. in \subseteq Screen /\ shown \subseteq Screen /\ \A p \in C : p \in in /\ p \in shown
  BY <1>5 DEF InBytes
<1>7. \A p \in Screen \ C : b.buf[p] = e.buf[p]
  OBVIOUS
<1> HIDE DEF b, in, shown, C
<1>8. "dual" \in DOMAIN b /\ b.dual = e.dual
  BY <1>3, <1>4 DEF Update
<1>9. /\ {"sent", "late", "dirty", "dual", "buf", "dev"} \subseteq DOMAIN o
      /\ o.buf = b.buf /\ o.dual = e.dual
      /\ o.sent = [p \in in |-> b.buf[p]] ++ e.sent /\ o.dev = [p \in shown |-> b.buf[p]] ++ e.dev
  BY <1>1, <1>3, <1>8 DEF DevOK
<1>10. DOMAIN o.sent = Screen /\ \A p \in Screen : o.sent[p] = b.buf[p]
  BY <1>3, <1>4, <1>6, <1>7, <1>9 DEF ++
<1>11. DOMAIN o.dev = Screen /\ \A p \in Screen : o.dev[p] = b.buf[p]
  <2>1. DOMAIN e.dev = Screen /\ \A p \in Screen : e.dev[p] = e.buf[p]
    BY <1>4 DEF Synced, DevOK, Same
  <2> QED
    BY <1>6, <1>7, <1>9, <2>1 DEF ++
<1>12. IsPut(o, e, img, win)
  BY <1>3, <1>9 DEF IsPut
<1>13. DevOK(o) /\ Same(o, Screen)
  BY <1>3, <1>9, <1>11 DEF DevOK, Same
<1>14. Synced(o, S \union Win(win))
  BY <1>4, <1>9, <1>10, <1>13 DEF Synced
<1> QED
  BY <1>12, <1>14 DEF BlitDone

\* The page of a pixel is one of those a blit of the LPH7508 goes through.
LEMMA L7Pages ==
  ASSUME NEW win, WinOK(win), Visible(win), NEW p \in Win(win)
  PROVE  /\ p[1] \div Byte \in win.r \div Byte .. (win.r + win.h) \div Byte
         /\ p[1] \div Byte < (DROWS + Byte - 1) \div Byte
         /\ p[2] \in win.c .. win.c + win.w - 1 /\ p[2] \in 0 .. DCOLS - 1
<1>0. win.r \in Nat /\ win.c \in Nat /\ win.h \in Nat /\ win.w \in Nat
  BY DEF WinOK, Visible
<1>1. Byte \in Nat \ {0}
  BY DriverAssumption
<1>2. p[1] \in 0 .. DROWS - 1 /\ p[2] \in 0 .. DCOLS - 1
  BY InRect, Sizes DEF Screen, WinOK
<1>3. p[1] \in win.r .. win.r + win.h - 1 /\ p[2] \in win.c .. win.c + win.w - 1
  BY InRect DEF Win
<1> DEFINE r == p[1]
           m == (DROWS + Byte - 1) \div Byte
<1>4. r \in Nat /\ win.r <= r /\ r <= win.r + win.h /\ win.r + win.h \in Nat
  BY <1>0, <1>2, <1>3
<1> HIDE DEF r
<1>5. /\ win.r \div Byte <= r \div Byte /\ r \div Byte <= (win.r + win.h) \div Byte
      /\ r \div Byte \in Nat /\ win.r \div Byte \in Nat /\ (win.r + win.h) \div Byte \in Nat
  BY <1>0, <1>1, <1>4, QuotientGrows, Divided
<1>6. r \div Byte < m
  <2> DEFINE n == DROWS + Byte - 1
             k == n % Byte
  <2>1. n \in Nat
    BY <1>1, Sizes
  <2>2. m \in Nat /\ k \in 0 .. Byte - 1 /\ n = Byte * m + k
    BY <1>1, <2>1, Divided
  <2> HIDE DEF m, k
  <2>3. Byte * m \in Nat
    BY <1>1, <2>2
  <2>4. r < Byte * m
    BY <1>1, <1>2, <2>2, <2>3, Sizes DEF r
  <2> QED
    BY <1>1, <1>4, <2>2, <2>4, QuotientBelow
<1> HIDE DEF m
<1>7. r \div Byte \in win.r \div Byte .. (win.r + win.h) \div Byte
  BY <1>5
<1> QED
  BY <1>2, <1>3, <1>6, <1>7 DEF r, m

\* The LPH7508 sends all bytes that changed, and moves to another page.
LEMMA L7Blit ==
  ASSUME NEW e, NEW S, S \subseteq Screen, NEW img, NEW win, WinOK(win), Visible(win), Synced(e, S), CtlOK(e.ctl),
         Driver = "LPH7508", NEW o \in RealBlit(e, img, win)
  PROVE  BlitDone(o, e, img, win, S) /\ CtlOK(o.ctl) /\ o.ctl.symbols = e.ctl.symbols
<1> DEFINE taken == {p \in Win(win) : p[1] < L7_Rows}
           b == [e EXCEPT !.buf = [p \in taken |-> Bit(img)[p]] ++ @]
           pages == {pg \in win.r \div Byte .. (win.r + win.h) \div Byte : pg < (DROWS + Byte - 1) \div Byte}
           run(pg) == L7_Run(b, win, pg)
           sent == UNION {UNION {L7_Cell(pg, i) : i \in run(pg)} : pg \in pages}
           busy == {pg \in pages : run(pg) # {}}
           out == [p \in sent |-> b.buf[p]]
           C == {p \in Screen : b.buf[p] # e.buf[p]}
           ctl == [drv_L7_page(b.ctl, Max(busy)) EXCEPT !.column = Max(run(Max(busy))) + 1]
<1>1. o = IF busy = {} THEN b ELSE [b EXCEPT !.ctl = ctl, !.sent = out ++ b.sent, !.dev = out ++ b.dev]
  BY DEF RealBlit, drv_L7_blit
<1>2. /\ DevOK(e) /\ {"sent", "late", "dirty", "ctl"} \subseteq DOMAIN e /\ DOMAIN e.sent = Screen
      /\ Same(e, Screen) /\ \A p \in Screen : e.sent[p] = e.buf[p]
  BY DEF Synced
<1>3. /\ DOMAIN b = DOMAIN e /\ b.dev = e.dev /\ b.sent = e.sent /\ b.ctl = e.ctl /\ DOMAIN b.buf = Screen
      /\ \A p \in Screen : b.buf[p] = IF p \in Win(win) /\ p[1] < L7_Rows THEN Kept(img[p]) ELSE e.buf[p]
  <2>1. \A p \in Screen : Bit(img)[p] = Kept(img[p])
    BY BitIs DEF Mono
  <2>2. taken \subseteq Screen /\ \A p \in Screen : p \in taken <=> p \in Win(win) /\ p[1] < L7_Rows
    BY DEF WinOK
  <2>3. /\ DOMAIN b = DOMAIN e /\ b.dev = e.dev /\ b.sent = e.sent /\ b.ctl = e.ctl
        /\ b.buf = [p \in taken |-> Bit(img)[p]] ++ e.buf
    BY <1>2 DEF DevOK
  <2> HIDE DEF taken, b
  <2> QED
    BY <1>2, <2>1, <2>2, <2>3 DEF DevOK, ++
<1> HIDE DEF b
<1>4. \A p \in C : \E pg \in pages : \E i \in run(pg) : p \in L7_Cell(pg, i)
  <2> SUFFICES ASSUME NEW p \in C PROVE \E pg \in pages : \E i \in run(pg) : p \in L7_Cell(pg, i)
    OBVIOUS
  <2> DEFINE pg == p[1] \div Byte
             i == p[2]
             D == {j \in 0 .. DCOLS - 1 : \E q \in L7_Cell(pg, j) : b.buf[q] # b.sent[q]}
  <2>1. p \in Screen /\ p \in Win(win) /\ b.buf[p] # b.sent[p]
    BY <1>2, <1>3
  <2>2. pg \in pages /\ i \in win.c .. win.c + win.w - 1 /\ i \in 0 .. DCOLS - 1
    BY <2>1, L7Pages
  <2>3. p \in L7_Cell(pg, i)
    BY <2>1 DEF L7_Cell
  <2> HIDE DEF pg, i, pages
  <2>4. i \in D
    BY <2>1, <2>2, <2>3
  <2>5. i \in run(pg)
    <3>1. run(pg) = DiffRuns(win.c, win.c + win.w - 1, ShortGap, D)
      BY DEF L7_Run
    <3> HIDE DEF D, run
    <3> QED
      BY <2>2, <2>4, <3>1, RunHolds
  <2> QED
    BY <2>2, <2>3, <2>5
<1>5. C \subseteq sent /\ (busy = {} => C = {}) /\ sent \subseteq Screen
  <2>1. \A pg, i : L7_Cell(pg, i) \subseteq Screen
    BY DEF L7_Cell
  <2> HIDE DEF run, pages, C
  <2> QED
    BY <1>4, <2>1
<1>6. \A p \in Screen \ C : b.buf[p] = e.buf[p]
  OBVIOUS
<1>7. CtlOK(ctl) /\ ctl.symbols = e.ctl.symbols
  <2> DEFINE x == Max(busy)
             y == Max(run(x)) + 1
  <2> HIDE DEF x, y
  <2>1. ctl = [[e.ctl EXCEPT !.cp = x, !.page = x] EXCEPT !.column = y]
    BY <1>3 DEF drv_L7_page, x, y
  <2> HIDE DEF ctl
  <2> QED
    BY <2>1 DEF CtlOK
<1> HIDE DEF ctl, sent, busy, C
<1>8. /\ DOMAIN o = DOMAIN e /\ o.buf = b.buf /\ o.ctl \in {ctl, e.ctl}
      /\ \/ C = {} /\ o.sent = e.sent /\ o.dev = e.dev
         \/ o.sent = out ++ e.sent /\ o.dev = out ++ e.dev
  BY <1>1, <1>2, <1>3, <1>5 DEF DevOK
<1>9. /\ DOMAIN o.sent = Screen /\ DOMAIN o.dev = Screen
      /\ \A p \in Screen : o.sent[p] = b.buf[p] /\ o.dev[p] = b.buf[p]
  <2>1. DOMAIN e.dev = Screen /\ \A p \in Screen : e.dev[p] = e.buf[p]
    BY <1>2 DEF DevOK, Same
  <2> QED
    BY <1>2, <1>5, <1>6, <1>8, <2>1 DEF ++
<1>10. IsPut(o, e, img, win)
  BY <1>3, <1>8 DEF IsPut
<1>11. DevOK(o) /\ Same(o, Screen)
  BY <1>2, <1>3, <1>8, <1>9 DEF DevOK, Same
<1>12. Synced(o, S \union Win(win))
  BY <1>2, <1>8, <1>9, <1>11 DEF Synced
<1> QED
  BY <1>7, <1>8, <1>10, <1>12 DEF BlitDone

\* The loop of the GLCD2USB over the bytes: each dirty one it has passed is in a
\* report, or in the run that is under way, which ends at the byte before.
InReport(r, k) == k \in r[1] .. r[1] + r[2] - 1
ReportStates == [run : Nat \X Nat, out : SUBSET (Nat \X Nat)]
Reported(D, i, s) ==
  /\ s \in ReportStates
  /\ s.run[2] = 0 \/ s.run[1] + s.run[2] = i
  /\ \A k \in D : k < i => (\E r \in s.out : InReport(r, k)) \/ (s.run[2] > 0 /\ s.run[1] <= k)
  /\ i = PageBytes => s.run[2] = 0

\* A turn of it.
LEMMA ReportStep ==
  ASSUME NEW D, D \subseteq Nat, NEW i \in Nat, NEW s \in ReportStates, PageBytes \in Nat
  PROVE  /\ GLCD2USB_Next(D, s, i) \in ReportStates
         /\ i < PageBytes /\ Reported(D, i, s) => Reported(D, i + 1, GLCD2USB_Next(D, s, i))
<1> DEFINE run == s.run
           open == IF i \notin D THEN run ELSE IF run[2] = 0 THEN <<i, 1>> ELSE <<run[1], run[2] + 1>>
           t == GLCD2USB_Next(D, s, i)
           ends == open[2] > 0 /\ (i \notin D \/ i = PageBytes - 1 \/ open[2] = MaxRun)
<1>1. run \in Nat \X Nat /\ s.out \subseteq Nat \X Nat
  BY DEF ReportStates
<1>2. t = IF ends THEN [run |-> <<0, 0>>, out |-> s.out \union {open}] ELSE [s EXCEPT !.run = open]
  BY DEF GLCD2USB_Next
<1>3. open \in Nat \X Nat
  BY <1>1
<1>4. /\ t \in ReportStates
      /\ ends => t.run = <<0, 0>> /\ t.out = s.out \union {open}
      /\ ~ends => t.run = open /\ t.out = s.out
  <2> HIDE DEF open, ends, t
  <2> QED
    BY <1>1, <1>2, <1>3 DEF ReportStates
<1> HIDE DEF t
<1>5. ASSUME i < PageBytes, Reported(D, i, s) PROVE Reported(D, i + 1, t)
  <2>1. /\ run[2] = 0 \/ run[1] + run[2] = i
        /\ \A k \in D : k < i => (\E r \in s.out : InReport(r, k)) \/ (run[2] > 0 /\ run[1] <= k)
    BY <1>5 DEF Reported
  <2>2. run[1] \in Nat /\ run[2] \in Nat /\ open[1] \in Nat /\ open[2] \in Nat
    BY <1>1, <1>3
  <2>3. CASE i \notin D
    <3>1. open = run /\ (ends <=> run[2] > 0)
      BY <2>2, <2>3
    <3>2. t.run[2] = 0
      BY <1>4, <2>2, <3>1
    <3>3. ASSUME NEW k \in D, k < i + 1 PROVE \E r \in t.out : InReport(r, k)
      <4>1. k < i /\ k \in Nat
        BY <2>3, <3>3
      <4>2. CASE \E r \in s.out : InReport(r, k)
        BY <1>4, <4>2
      <4>3. CASE run[2] > 0 /\ run[1] <= k
        <5>1. InReport(run, k)
          BY <2>1, <2>2, <4>1, <4>3 DEF InReport
        <5> QED
          BY <1>4, <3>1, <4>3, <5>1
      <4> QED
        BY <2>1, <4>1, <4>2, <4>3
    <3> QED
      BY <1>4, <3>2, <3>3 DEF Reported
  <2>4. CASE i \in D
    <3>1. open[2] > 0 /\ open[1] + open[2] = i + 1 /\ (run[2] > 0 => open[1] = run[1])
      BY <2>1, <2>2, <2>4
    <3>2. ASSUME NEW k \in D, k < i + 1 PROVE (\E r \in s.out : InReport(r, k)) \/ (open[1] <= k /\ InReport(open, k))
      <4>1. k \in Nat /\ (k < i \/ k = i)
        BY <3>2
      <4>2. open[1] <= k => InReport(open, k)
        BY <2>2, <3>1, <3>2, <4>1 DEF InReport
      <4>3. k = i => open[1] <= k
        BY <2>2, <3>1
      <4> QED
        BY <2>1, <3>1, <4>1, <4>2, <4>3
    <3> HIDE DEF open
    <3>3. CASE ends
      <4>1. t.run[2] = 0 /\ t.out = s.out \union {open}
        BY <1>4, <3>3
      <4>2. \A k \in D : k < i + 1 => \E r \in t.out : InReport(r, k)
        BY <3>2, <4>1
      <4> QED
        BY <1>4, <4>1, <4>2 DEF Reported
    <3>4. CASE ~ends
      <4>1. t.run = open /\ t.out = s.out /\ i + 1 # PageBytes
        BY <1>4, <3>1, <3>4
      <4>2. t.run[1] + t.run[2] = i + 1 /\ t.run[2] > 0 /\ \A k \in D : k < i + 1 => (\E r \in t.out : InReport(r, k)) \/ t.run[1] <= k
        BY <3>1, <3>2, <4>1
      <4> QED
        BY <1>4, <4>1, <4>2 DEF Reported
    <3> QED
      BY <3>3, <3>4
  <2> QED
    BY <2>3, <2>4
<1> QED
  BY <1>4, <1>5 DEF t

\* So the reports hold every dirty byte.
LEMMA ReportsHold ==
  ASSUME NEW D, D \subseteq 0 .. PageBytes - 1, PageBytes \in Nat
  PROVE  \A k \in D : \E r \in GLCD2USB_Reports(D) : InReport(r, k)
<1> DEFINE N == PageBytes
           base == [run |-> <<0, 0>>, out |-> {}]
           step == [k \in 1 .. N |-> [s \in ReportStates |-> GLCD2USB_Next(D, s, k - 1)]]
           Is(f) == f = [i \in 0 .. N |-> IF i = 0 THEN base ELSE GLCD2USB_Next(D, f[i - 1], i - 1)]
           after == CHOOSE f : Is(f)
<1>0. D \subseteq Nat
  OBVIOUS
<1>1. base \in ReportStates
  BY DEF ReportStates
<1>2. ASSUME NEW k \in 1 .. N, NEW s \in ReportStates PROVE GLCD2USB_Next(D, s, k - 1) \in ReportStates
  <2>1. k - 1 \in Nat
    OBVIOUS
  <2> QED
    BY <1>0, <2>1, ReportStep
<1>3. LoopOf(N, ReportStates, base, step)
  BY <1>1, <1>2 DEF LoopOf
<1>4. PICK f : IsRun(f, N, ReportStates, base, step)
  <2> HIDE DEF N, step, base
  <2> QED
    BY <1>3, LoopRuns DEF N
<1>5. Is(f)
  <2>1. f \in [0 .. N -> ReportStates] /\ f[0] = base
    BY <1>4 DEF IsRun
  <2>2. ASSUME NEW k \in 1 .. N PROVE f[k] = GLCD2USB_Next(D, f[k - 1], k - 1)
    <3>1. k - 1 \in 0 .. N /\ f[k] = step[k][f[k - 1]]
      BY <1>4 DEF IsRun
    <3>2. f[k - 1] \in ReportStates
      BY <2>1, <3>1
    <3> QED
      BY <3>1, <3>2
  <2> HIDE DEF base
  <2>3. \A k \in 0 .. N : k = 0 \/ k \in 1 .. N
    OBVIOUS
  <2> QED
    BY <2>1, <2>2, <2>3
<1>6. Is(after)
  BY <1>5
<1> HIDE DEF after, step
<1>7. after[0] = base /\ \A k \in 1 .. N : after[k] = GLCD2USB_Next(D, after[k - 1], k - 1)
  <2>1. after[0] = base
    BY <1>6
  <2>2. ASSUME NEW k \in 1 .. N PROVE after[k] = GLCD2USB_Next(D, after[k - 1], k - 1)
    <3>1. k \in 0 .. N /\ k # 0
      OBVIOUS
    <3> HIDE DEF base
    <3> QED
      BY <1>6, <3>1
  <2> QED
    BY <2>1, <2>2
<1> DEFINE P == {k \in 0 .. N : Reported(D, k, after[k])}
<1>8. 0 \in P
  <2>1. Reported(D, 0, base)
    BY <1>0, <1>1 DEF Reported
  <2> QED
    BY <1>7, <2>1
<1>9. ASSUME NEW k \in 1 .. N, k - 1 \in P PROVE k \in P
  <2>1. Reported(D, k - 1, after[k - 1]) /\ k - 1 \in Nat /\ k - 1 < PageBytes
    BY <1>9
  <2>2. after[k - 1] \in ReportStates
    BY <2>1 DEF Reported
  <2>3. Reported(D, (k - 1) + 1, after[k])
    BY <1>0, <1>7, <2>1, <2>2, ReportStep
  <2> QED
    BY <2>3
<1>10. N \in P
  <2> HIDE DEF P
  <2>1. \A k \in 0 .. N : k \in P
    BY <1>8, <1>9, LoopInvariant
  <2> QED
    BY <2>1
<1>11. Reported(D, N, after[N])
  BY <1>10
<1>12. GLCD2USB_Reports(D) = after[N].out
  BY DEF GLCD2USB_Reports, after
<1> HIDE DEF N
<1>13. \A k \in D : \E r \in after[N].out : InReport(r, k)
  BY <1>11 DEF Reported, N
<1> QED
  BY <1>12, <1>13

\* The bytes of the pages are those of the screen.
LEMMA PageBytesOK ==
  ASSUME DROWS % Byte = 0
  PROVE  PageBytes \in Nat /\ \A p \in Screen : PageByte(p) \in 0 .. PageBytes - 1
<1> DEFINE m == DROWS \div Byte
<1>1. Byte \in Nat \ {0} /\ DROWS \in Nat /\ DCOLS \in Nat
  BY DriverAssumption, Sizes
<1>2. m \in Nat /\ DROWS = Byte * m
  <2> DEFINE k == DROWS % Byte
  <2>1. m \in Nat /\ DROWS = Byte * m + k /\ k = 0
    BY <1>1, Divided
  <2> HIDE DEF m, k
  <2>2. Byte * m \in Nat
    BY <1>1, <2>1
  <2> QED
    BY <2>1, <2>2
<1> HIDE DEF m
<1>3. PageBytes = m * DCOLS /\ m * DCOLS \in Nat
  <2>1. m * DCOLS \in Nat /\ (Byte * m) * DCOLS = Byte * (m * DCOLS) + 0
    BY <1>1, <1>2
  <2>2. (Byte * (m * DCOLS) + 0) \div Byte = m * DCOLS
    BY <1>1, <2>1, DivMod
  <2>3. DROWS * DCOLS = Byte * (m * DCOLS) + 0
    BY <1>2, <2>1
  <2> QED
    BY <2>1, <2>2, <2>3 DEF PageBytes
<1>4. ASSUME NEW p \in Screen PROVE PageByte(p) \in 0 .. m * DCOLS - 1
  <2> DEFINE r == p[1]
             c == p[2]
             q == r \div Byte
  <2>1. r \in 0 .. DROWS - 1 /\ c \in 0 .. DCOLS - 1
    BY InRect, Sizes DEF Screen
  <2> HIDE DEF r, c
  <2>2. q \in Nat /\ q < m
    <3>1. r \in Nat /\ r < Byte * m
      BY <1>1, <1>2, <2>1
    <3> QED
      BY <1>1, <1>2, <3>1, Divided, QuotientBelow
  <2> HIDE DEF q
  <2>3. q * DCOLS + c \in 0 .. m * DCOLS - 1
    BY <1>1, <1>2, <2>1, <2>2, FrameIndex
  <2>4. q * DCOLS + c = c + DCOLS * q
    BY <1>1, <2>1, <2>2
  <2>5. PageByte(p) = c + DCOLS * q
    BY DEF PageByte, r, c, q
  <2> QED
    BY <2>3, <2>4, <2>5
<1> QED
  BY <1>3, <1>4

\* The GLCD2USB sends all bytes that changed.
LEMMA GLCDBlit ==
  ASSUME case \in Cases, NEW e, NEW S, S \subseteq Screen, NEW img, NEW win, WinOK(win), Synced(e, S),
         Driver = "GLCD2USB", NEW o \in RealBlit(e, img, win)
  PROVE  BlitDone(o, e, img, win, S)
<1> DEFINE b == Put(e, Bit(img), win)
           C == Changed(e, Bit(img), win)
           dirty == {PageByte(p) : p \in C}
           D == GLCD2USB_Dirty(dirty)
           bytes == UNION {r[1] .. r[1] + r[2] - 1 : r \in GLCD2USB_Reports(D)}
           A == InBytes(PageByte, bytes)
<1>1. o = Send(b, A)
  BY DEF RealBlit, drv_GLCD2USB_blit
<1>2. \A p \in Screen : Bit(img)[p] = Kept(img[p])
  BY BitIs DEF Mono
<1>3. /\ DevOK(b) /\ {"sent", "late", "dirty"} \subseteq DOMAIN b /\ DOMAIN b.sent = Screen /\ b.dev = e.dev
      /\ \A p \in Screen : b.buf[p] = IF p \in Win(win) THEN Kept(img[p]) ELSE e.buf[p]
  BY <1>2, BufferPut
<1>4. Same(e, Screen)
  BY DEF Synced
<1>5. \A p \in Screen \ C : b.buf[p] = e.buf[p]
  BY <1>2, <1>3 DEF Changed
<1>6. C \subseteq Screen
  BY DEF Changed, WinOK
<1>7. PageBytes \in Nat /\ \A p \in Screen : PageByte(p) \in 0 .. PageBytes - 1
  <2>1. DROWS % Byte = 0
    BY SceneAssumption DEF OptionsOK, Driver
  <2> QED
    BY <2>1, PageBytesOK
<1> HIDE DEF b, C
<1>8. \A p \in C : p \in A
  <2>1. dirty \subseteq 0 .. PageBytes - 1
    BY <1>6, <1>7
  <2>2. D \subseteq 0 .. PageBytes - 1 /\ dirty \subseteq D
    <3> HIDE DEF dirty
    <3> QED
      BY <2>1 DEF GLCD2USB_Dirty
  <2>3. \A k \in D : \E r \in GLCD2USB_Reports(D) : InReport(r, k)
    <3> HIDE DEF D
    <3> QED
      BY <1>7, <2>2, ReportsHold
  <2>4. \A p \in C : PageByte(p) \in D
    <3> HIDE DEF D
    <3> QED
      BY <2>2
  <2> HIDE DEF D
  <2>5. \A k \in D : k \in bytes
    BY <2>3 DEF InReport
  <2> HIDE DEF bytes
  <2> QED
    BY <1>6, <2>4, <2>5 DEF InBytes
<1>9. A \subseteq Screen
  BY DEF InBytes
<1> HIDE DEF A
<1>10. Update(o, b, {"dev"}) /\ DevOK(o) /\ \A p \in Screen : o.dev[p] = IF p \in A THEN b.buf[p] ELSE b.dev[p]
  BY <1>1, <1>3, <1>9, SendIs
<1>11. o.buf = b.buf /\ {"sent", "late", "dirty"} \subseteq DOMAIN o /\ o.sent = b.sent
  BY <1>3, <1>10 DEF Update, DevOK
<1>12. Same(o, Screen)
  BY <1>3, <1>4, <1>5, <1>8, <1>10, <1>11 DEF Same
<1>13. IsPut(o, e, img, win)
  BY <1>3, <1>11 DEF IsPut
<1>14. Synced(o, S \union Win(win))
  BY <1>3, <1>10, <1>11, <1>12 DEF Synced
<1> QED
  BY <1>13, <1>14 DEF BlitDone

\* What the display of the MOGX has taken after whole bytes: none of an escape.
MOGXStates == [bytes : Seq(SUBSET Nat), esc : {FALSE}, done : {FALSE}]

\* A byte arrives as it was, escaped or not.
LEMMA ByteArrives ==
  ASSUME NEW s \in MOGXStates, NEW b \in SUBSET Nat
  PROVE  /\ MOGX_Receive(s, Escaped(b)) = [bytes |-> Append(s.bytes, b), esc |-> FALSE, done |-> FALSE]
         /\ MOGX_Receive(s, Escaped(b)) \in MOGXStates
<1> DEFINE t == [bytes |-> Append(s.bytes, b), esc |-> FALSE, done |-> FALSE]
           u == [bytes |-> s.bytes, esc |-> TRUE, done |-> FALSE]
<1>0. END # ESC /\ END \in SUBSET Nat /\ ESC \in SUBSET Nat
  <2>1. 1 \in ESC /\ 1 \notin END
    BY DEF ESC, END
  <2> QED
    BY <2>1 DEF ESC, END
<1>1. /\ s = [bytes |-> s.bytes, esc |-> FALSE, done |-> FALSE] /\ s.bytes \in Seq(SUBSET Nat)
      /\ ~s.esc /\ ~s.done
  BY DEF MOGXStates
<1>2. t \in MOGXStates
  BY <1>1 DEF MOGXStates
<1>3. MOGX_Take(s, ESC) = u
  <2>1. MOGX_Take(s, ESC) = [s EXCEPT !.esc = TRUE]
    BY <1>0, <1>1 DEF MOGX_Take
  <2>2. PICK q : s = [bytes |-> q, esc |-> FALSE, done |-> FALSE]
    BY <1>1
  <2> QED
    BY <2>1, <2>2
<1>4. CASE b = END
  <2>1. Escaped(b) = <<ESC, "dc">>
    BY <1>4 DEF Escaped
  <2>2. MOGX_Take(u, "dc") = t
    BY <1>4 DEF MOGX_Take
  <2>3. MOGX_Receive(s, <<ESC, "dc">>) = MOGX_Take(MOGX_Take(s, ESC), "dc")
    BY DEF MOGX_Receive
  <2> QED
    BY <1>2, <1>3, <2>1, <2>2, <2>3
<1>5. CASE b = ESC
  <2>1. Escaped(b) = <<ESC, "dd">>
    BY <1>0, <1>5 DEF Escaped
  <2>2. MOGX_Take(u, "dd") = t
    BY <1>5 DEF MOGX_Take
  <2>3. MOGX_Receive(s, <<ESC, "dd">>) = MOGX_Take(MOGX_Take(s, ESC), "dd")
    BY DEF MOGX_Receive
  <2> QED
    BY <1>2, <1>3, <2>1, <2>2, <2>3
<1>6. CASE b # END /\ b # ESC
  <2>1. Escaped(b) = <<b>>
    BY <1>6 DEF Escaped
  <2>2. MOGX_Take(s, b) = [s EXCEPT !.bytes = Append(s.bytes, b)]
    BY <1>1, <1>6 DEF MOGX_Take
  <2>4. [s EXCEPT !.bytes = Append(s.bytes, b)] = t
    <3> DEFINE w == Append(s.bytes, b)
               v == [s EXCEPT !.bytes = w]
    <3> HIDE DEF w
    <3>1. PICK q : s = [bytes |-> q, esc |-> FALSE, done |-> FALSE]
      BY <1>1
    <3>2. /\ DOMAIN v = {"bytes", "esc", "done"} /\ v = [x \in {"bytes", "esc", "done"} |-> v[x]]
          /\ v.bytes = w /\ v.esc = FALSE /\ v.done = FALSE
      BY <3>1
    <3> HIDE DEF v
    <3>3. v = [bytes |-> w, esc |-> FALSE, done |-> FALSE]
      BY <3>2
    <3> QED
      BY <3>3 DEF v, w
  <2>3. MOGX_Receive(s, <<b>>) = MOGX_Take(s, b)
    BY DEF MOGX_Receive
  <2> QED
    BY <1>2, <2>1, <2>2, <2>3, <2>4
<1> QED
  BY <1>4, <1>5, <1>6

\* So the display takes the bytes of the frame.
TakesFrame(taken, N, B) ==
  /\ taken[0] = [bytes |-> <<>>, esc |-> FALSE, done |-> FALSE]
  /\ \A k \in 1 .. N : taken[k] = MOGX_Receive(taken[k - 1], Escaped(B[k]))
HasBytes(bytes, N, B) == Len(bytes) = N /\ \A i \in 1 .. N : bytes[i] = B[i]

\* All of them, and no other.
LEMMA FrameArrives ==
  ASSUME NEW N \in Nat, NEW B \in [1 .. N -> SUBSET Nat], NEW taken, TakesFrame(taken, N, B)
  PROVE  HasBytes(MOGX_Take(taken[N], END).bytes, N, B)
<1> DEFINE base == [bytes |-> <<>>, esc |-> FALSE, done |-> FALSE]
           Took(k, s) == s \in MOGXStates /\ Len(s.bytes) = k /\ \A i \in 1 .. k : s.bytes[i] = B[i]
           P == {k \in 0 .. N : Took(k, taken[k])}
<1>1. taken[0] = base /\ \A k \in 1 .. N : taken[k] = MOGX_Receive(taken[k - 1], Escaped(B[k]))
  BY DEF TakesFrame
<1>2. 0 \in P
  <2>1. Took(0, base)
    BY DEF MOGXStates
  <2> QED
    BY <1>1, <2>1
<1>3. ASSUME NEW k \in 1 .. N, k - 1 \in P PROVE k \in P
  <2> DEFINE s == taken[k - 1]
             t == taken[k]
  <2>1. Took(k - 1, s) /\ t = MOGX_Receive(s, Escaped(B[k]))
    BY <1>1, <1>3
  <2> HIDE DEF s, t
  <2>2. t = [bytes |-> Append(s.bytes, B[k]), esc |-> FALSE, done |-> FALSE] /\ t \in MOGXStates
    BY <2>1, ByteArrives
  <2>3. s.bytes \in Seq(SUBSET Nat) /\ t.bytes = Append(s.bytes, B[k])
    BY <2>1, <2>2 DEF MOGXStates
  <2>4. Len(t.bytes) = k /\ \A i \in 1 .. k : t.bytes[i] = B[i]
    BY <2>1, <2>3
  <2>5. Took(k, t)
    BY <2>2, <2>4
  <2> QED
    BY <2>5 DEF t
<1>4. Took(N, taken[N])
  <2>1. N \in P
    <3> HIDE DEF P
    <3>1. \A k \in 0 .. N : k \in P
      BY <1>2, <1>3, LoopInvariant
    <3> QED
      BY <3>1
  <2> QED
    BY <2>1
<1>5. MOGX_Take(taken[N], END).bytes = taken[N].bytes
  <2> DEFINE s == taken[N]
  <2>1. s \in MOGXStates
    BY <1>4
  <2> HIDE DEF s
  <2>2. DOMAIN s = {"bytes", "esc", "done"} /\ ~s.esc /\ ~s.done
    BY <2>1 DEF MOGXStates
  <2>3. MOGX_Take(s, END) = [s EXCEPT !.done = TRUE]
    BY <2>2 DEF MOGX_Take
  <2> QED
    BY <2>2, <2>3 DEF s
<1> QED
  BY <1>4, <1>5 DEF HasBytes

\* A pixel is the bit of its byte that the display looks at.
LEMMA MOGXBit ==
  ASSUME NEW p \in Screen, (DROWS * DCOLS) % Byte = 0, NEW buf, NEW invert
  PROVE  LET x == p[1] * DCOLS + p[2]
         IN  /\ x \div Byte + 1 \in 1 .. PageBytes
             /\ (x % Byte) \in MOGX_Byte(buf, invert, x \div Byte + 1) <=> ((buf[p] = 1) # invert)
<1> DEFINE x == p[1] * DCOLS + p[2]
           q == x \div Byte
           k == x % Byte
           total == DROWS * DCOLS
<1>1. Byte \in Nat \ {0} /\ DCOLS \in Nat \ {0} /\ total \in Nat
  BY DriverAssumption, Sizes
<1>2. p[1] \in 0 .. DROWS - 1 /\ p[2] \in 0 .. DCOLS - 1 /\ p = <<p[1], p[2]>>
  BY InRect, Sizes DEF Screen
<1>3. x \in 0 .. total - 1
  BY <1>2, Sizes, FrameIndex
<1>4. x \div DCOLS = p[1] /\ x % DCOLS = p[2]
  <2> DEFINE r == p[1]
             c == p[2]
  <2> HIDE DEF r, c
  <2>1. r \in Nat /\ c \in 0 .. DCOLS - 1
    BY <1>2, Sizes DEF r, c
  <2>2. (DCOLS * r + c) \div DCOLS = r /\ (DCOLS * r + c) % DCOLS = c
    BY <1>1, <2>1, DivMod
  <2>3. r * DCOLS + c = DCOLS * r + c
    BY <1>1, <2>1
  <2>4. x = r * DCOLS + c
    BY DEF r, c
  <2> HIDE DEF x
  <2>5. x \div DCOLS = r /\ x % DCOLS = c
    BY <2>2, <2>3, <2>4
  <2> QED
    BY <2>5 DEF r, c
<1> HIDE DEF x
<1>5. x \in Nat
  BY <1>1, <1>3
<1>6. q \in Nat /\ k \in 0 .. Byte - 1 /\ x = Byte * q + k
  BY <1>1, <1>5, Divided
<1>7. q + 1 \in 1 .. PageBytes
  <2> DEFINE m == total \div Byte
             n == total % Byte
  <2>1. m \in Nat /\ total = Byte * m + n /\ n = 0
    BY <1>1, Divided
  <2> HIDE DEF m, n, total
  <2>2. Byte * m \in Nat
    BY <1>1, <2>1
  <2>3. x < Byte * m
    BY <1>1, <1>3, <1>5, <2>1, <2>2
  <2>4. q < m
    BY <1>1, <1>5, <2>1, <2>3, QuotientBelow
  <2>5. PageBytes = m
    BY DEF PageBytes, m, total
  <2> HIDE DEF q
  <2> QED
    BY <1>6, <2>1, <2>4, <2>5
<1> HIDE DEF q, k
<1>8. ((q + 1) - 1) * Byte + k = x
  BY <1>1, <1>6
<1> DEFINE B == MOGX_Byte(buf, invert, q + 1)
<1>9. k \in B <=> ((buf[<<x \div DCOLS, x % DCOLS>>] = 1) # invert)
  <2> DEFINE y == ((q + 1) - 1) * Byte + k
  <2>1. k \in B <=> ((buf[<<y \div DCOLS, y % DCOLS>>] = 1) # invert)
    BY <1>6 DEF MOGX_Byte
  <2>2. y = x
    BY <1>8
  <2> QED
    BY <2>1, <2>2
<1>10. buf[<<x \div DCOLS, x % DCOLS>>] = buf[p]
  BY <1>2, <1>4
<1>11. k \in B <=> ((buf[p] = 1) # invert)
  BY <1>9, <1>10
<1> QED
  BY <1>7, <1>11 DEF x, q, k

\* The MOGX shows its buffer after each frame, whatever its bytes are.
LEMMA MOGXShows ==
  ASSUME NEW b, DevOK(b), (DROWS * DCOLS) % Byte = 0, "invert" \in DOMAIN b, b.invert \in BOOLEAN,
         \A p \in Screen : b.buf[p] \in {0, 1}
  PROVE  /\ Update(drv_MOGX_update_lcd(b), b, {"dev"}) /\ DevOK(drv_MOGX_update_lcd(b))
         /\ \A p \in Screen : drv_MOGX_update_lcd(b).dev[p] = b.buf[p]
<1> DEFINE N == PageBytes
           base == [bytes |-> <<>>, esc |-> FALSE, done |-> FALSE]
           byte(i) == MOGX_Byte(b.buf, b.invert, i)
           B == [i \in 1 .. N |-> byte(i)]
           step == [k \in 1 .. N |-> [s \in MOGXStates |-> MOGX_Receive(s, Escaped(byte(k)))]]
           Is(f) == f = [i \in 0 .. N |-> IF i = 0 THEN base ELSE MOGX_Receive(f[i - 1], Escaped(byte(i)))]
           taken == CHOOSE f : Is(f)
           bytes == MOGX_Take(taken[N], END).bytes
           shown(p) == LET x == p[1] * DCOLS + p[2] IN (x % Byte) \in bytes[x \div Byte + 1]
           o == drv_MOGX_update_lcd(b)
<1>1. N \in Nat
  BY DriverAssumption, Sizes, Product, Divided DEF PageBytes
<1>2. \A i : byte(i) \in SUBSET Nat
  <2>1. Byte \in Nat
    BY DriverAssumption
  <2> QED
    BY <2>1 DEF MOGX_Byte
<1> HIDE DEF byte
<1>3. LoopOf(N, MOGXStates, base, step)
  <2>1. base \in MOGXStates
    BY DEF MOGXStates
  <2>2. \A k, s : s \in MOGXStates => MOGX_Receive(s, Escaped(byte(k))) \in MOGXStates
    BY <1>2, ByteArrives
  <2> HIDE DEF base
  <2> QED
    BY <2>1, <2>2 DEF LoopOf
<1>4. PICK f : IsRun(f, N, MOGXStates, base, step)
  <2> HIDE DEF N, step, base
  <2> QED
    BY <1>1, <1>3, LoopRuns
<1>5. Is(f)
  <2>1. f \in [0 .. N -> MOGXStates] /\ f[0] = base
    BY <1>4 DEF IsRun
  <2>2. ASSUME NEW k \in 1 .. N PROVE f[k] = MOGX_Receive(f[k - 1], Escaped(byte(k)))
    <3>1. k - 1 \in 0 .. N /\ f[k] = step[k][f[k - 1]]
      BY <1>1, <1>4 DEF IsRun
    <3>2. f[k - 1] \in MOGXStates
      BY <2>1, <3>1
    <3> QED
      BY <3>1, <3>2
  <2> HIDE DEF base, N
  <2>3. \A k \in 0 .. N : k = 0 \/ k \in 1 .. N
    BY <1>1
  <2> QED
    BY <2>1, <2>2, <2>3
<1>6. Is(taken)
  BY <1>5
<1> HIDE DEF taken
<1>7. Len(bytes) = N /\ \A i \in 1 .. N : bytes[i] = byte(i)
  <2>1. B \in [1 .. N -> SUBSET Nat] /\ \A i \in 1 .. N : B[i] = byte(i)
    BY <1>2
  <2> HIDE DEF B
  <2>2. taken[0] = base /\ \A k \in 1 .. N : taken[k] = MOGX_Receive(taken[k - 1], Escaped(B[k]))
    <3>1. taken[0] = base
      BY <1>1, <1>6
    <3>2. ASSUME NEW k \in 1 .. N PROVE taken[k] = MOGX_Receive(taken[k - 1], Escaped(byte(k)))
      <4>1. k \in 0 .. N /\ k # 0
        BY <1>1
      <4> HIDE DEF base, N
      <4> QED
        BY <1>6, <4>1
    <3> QED
      BY <2>1, <3>1, <3>2
  <2> DEFINE all == MOGX_Take(taken[N], END).bytes
  <2> HIDE DEF N
  <2>3. Len(all) = N /\ \A i \in 1 .. N : all[i] = B[i]
    <3>1. TakesFrame(taken, N, B)
      BY <2>2 DEF TakesFrame
    <3>2. HasBytes(all, N, B)
      BY <1>1, <2>1, <3>1, FrameArrives
    <3> QED
      BY <3>2 DEF HasBytes
  <2> HIDE DEF all
  <2>4. Len(all) = N /\ \A i \in 1 .. N : all[i] = byte(i)
    BY <2>1, <2>3
  <2> QED
    BY <2>4 DEF all
<1>8. o = IF Len(bytes) < PageBytes THEN b
          ELSE [b EXCEPT !.dev = [p \in Screen |-> IF shown(p) # b.invert THEN 1 ELSE 0]]
  BY DEF drv_MOGX_update_lcd, taken, byte
<1> HIDE DEF bytes
<1>9. \A p \in Screen : shown(p) <=> ((b.buf[p] = 1) # b.invert)
  <2> SUFFICES ASSUME NEW p \in Screen PROVE shown(p) <=> ((b.buf[p] = 1) # b.invert)
    OBVIOUS
  <2> DEFINE x == p[1] * DCOLS + p[2]
  <2> DEFINE i == x \div Byte + 1
             k == x % Byte
  <2>1. i \in 1 .. N /\ (k \in byte(i) <=> ((b.buf[p] = 1) # b.invert))
    BY MOGXBit DEF byte
  <2>2. shown(p) <=> k \in bytes[i]
    OBVIOUS
  <2> HIDE DEF i, k, shown, N
  <2>3. bytes[i] = byte(i)
    BY <1>7, <2>1
  <2> QED
    BY <2>1, <2>2, <2>3
<1>15. \A p : shown(p) \in BOOLEAN
  OBVIOUS
<1> HIDE DEF shown
<1>10. \A p \in Screen : (shown(p) # b.invert) <=> b.buf[p] = 1
  <2> SUFFICES ASSUME NEW p \in Screen PROVE (shown(p) # b.invert) <=> b.buf[p] = 1
    OBVIOUS
  <2> DEFINE x == shown(p)
             y == b.buf[p] = 1
             z == b.invert
  <2>1. (x <=> (y # z)) /\ x \in BOOLEAN /\ y \in BOOLEAN /\ z \in BOOLEAN
    BY <1>9, <1>15
  <2> HIDE DEF x, y, z
  <2>2. (x # z) <=> y
    BY <2>1
  <2> QED
    BY <2>2 DEF x, y, z
<1>11. o = [b EXCEPT !.dev = [p \in Screen |-> IF shown(p) # b.invert THEN 1 ELSE 0]]
  BY <1>1, <1>7, <1>8
<1>12. o.dev = [p \in Screen |-> IF shown(p) # b.invert THEN 1 ELSE 0] /\ DOMAIN o = DOMAIN b /\ o.buf = b.buf
  BY <1>11 DEF DevOK
<1>13. Update(o, b, {"dev"}) /\ DevOK(o)
  BY <1>11, <1>12 DEF Update, DevOK
<1>14. \A p \in Screen : o.dev[p] = b.buf[p]
  BY <1>10, <1>12
<1> QED
  BY <1>13, <1>14

\* So does its blit.
LEMMA MOGXBlit ==
  ASSUME case \in Cases, NEW e, NEW S, S \subseteq Screen, NEW img, NEW win, WinOK(win), Synced(e, S),
         Driver = "MatrixOrbitalGX", NEW o \in RealBlit(e, img, win)
  PROVE  BlitDone(o, e, img, win, S)
<1> DEFINE b == Put(e, Bit(img), win)
<1>1. o = drv_MOGX_update_lcd(b)
  BY DEF RealBlit, drv_MOGX_blit
<1>2. \A p \in Screen : Bit(img)[p] = Kept(img[p]) /\ Kept(img[p]) \in {0, 1}
  BY BitIs DEF Kept, Mono
<1>3. /\ DevOK(b) /\ {"sent", "late", "dirty"} \subseteq DOMAIN b /\ DOMAIN b.sent = Screen /\ Update(b, e, {"buf"})
      /\ \A p \in Screen : b.buf[p] = IF p \in Win(win) THEN Kept(img[p]) ELSE e.buf[p]
  BY <1>2, BufferPut
<1> HIDE DEF b
<1>4. "invert" \in DOMAIN e /\ e.invert \in BOOLEAN /\ \A p \in Screen : e.buf[p] \in {0, 1}
  BY DEF Synced
<1>5. "invert" \in DOMAIN b /\ b.invert = e.invert /\ \A p \in Screen : b.buf[p] \in {0, 1}
  BY <1>2, <1>3, <1>4 DEF Update
<1>6. (DROWS * DCOLS) % Byte = 0
  BY SceneAssumption DEF OptionsOK, Driver
<1>7. Update(o, b, {"dev"}) /\ DevOK(o) /\ \A p \in Screen : o.dev[p] = b.buf[p]
  BY <1>1, <1>3, <1>4, <1>5, <1>6, MOGXShows
<1>8. o.buf = b.buf /\ {"sent", "late", "dirty", "invert"} \subseteq DOMAIN o /\ o.sent = b.sent /\ o.invert = b.invert
  BY <1>3, <1>5, <1>7 DEF Update, DevOK
<1>9. Same(o, S \union Win(win))
  BY <1>7, <1>8 DEF Same, WinOK
<1>10. IsPut(o, e, img, win)
  BY <1>3, <1>8 DEF IsPut
<1>11. Synced(o, S \union Win(win))
  BY <1>3, <1>4, <1>5, <1>7, <1>8, <1>9 DEF Synced
<1> QED
  BY <1>10, <1>11 DEF BlitDone

\* Two numbers with places of the same size are equal place by place.
LEMMA PlacesUnique ==
  ASSUME NEW m \in Nat \ {0}, NEW q1 \in Nat, NEW x1 \in 0 .. m - 1, NEW q2 \in Nat, NEW x2 \in 0 .. m - 1,
         q1 * m + x1 = q2 * m + x2
  PROVE  q1 = q2 /\ x1 = x2
<1>1. m * q1 + x1 = m * q2 + x2
  OBVIOUS
<1>2. (m * q1 + x1) \div m = q1 /\ (m * q1 + x1) % m = x1
  BY DivMod
<1>3. (m * q2 + x2) \div m = q2 /\ (m * q2 + x2) % m = x2
  BY DivMod
<1> QED
  BY <1>1, <1>2, <1>3

\* No two pixels of an area have the same bit in any of the four protocols.
LEMMA CodesDiffer ==
  ASSUME NEW protocol \in 1 .. 4, NEW W, W.w \in Nat \ {0}, W.h \in Nat \ {0},
         NEW r1 \in 0 .. W.h - 1, NEW c1 \in 0 .. W.w - 1, NEW r2 \in 0 .. W.h - 1, NEW c2 \in 0 .. W.w - 1,
         EA232_Code(protocol, W, r1, c1) = EA232_Code(protocol, W, r2, c2)
  PROVE  r1 = r2 /\ c1 = c2
<1> DEFINE w == W.w
           h == W.h
           B == Byte
           a1 == r1 \div B
           b1 == r1 % B
           a2 == r2 \div B
           b2 == r2 % B
           e1 == c1 \div B
           f1 == c1 % B
           e2 == c2 \div B
           f2 == c2 % B
           n == (w + B - 1) \div B
<1>1. w \in Nat \ {0} /\ h \in Nat \ {0} /\ B \in Nat \ {0}
  BY DriverAssumption
<1>2. r1 \in 0 .. h - 1 /\ c1 \in 0 .. w - 1 /\ r2 \in 0 .. h - 1 /\ c2 \in 0 .. w - 1
  OBVIOUS
<1>3. protocol \in {1, 4} => a1 * w + c1 = a2 * w + c2 /\ b1 = b2
  BY DEF EA232_Code
<1>4. protocol = 2 => e1 + n * r1 = e2 + n * r2 /\ f1 = f2
  BY DEF EA232_Code
<1>5. protocol = 3 => e1 * h + r1 = e2 * h + r2 /\ f1 = f2
  BY DEF EA232_Code
<1> HIDE DEF w, h, B
<1>6. \A x \in Nat : x \div B \in Nat /\ x % B \in 0 .. B - 1 /\ x = B * (x \div B) + (x % B)
  BY <1>1, Divided
<1>7. /\ a1 \in Nat /\ b1 \in 0 .. B - 1 /\ r1 = B * a1 + b1
      /\ a2 \in Nat /\ b2 \in 0 .. B - 1 /\ r2 = B * a2 + b2
      /\ e1 \in Nat /\ f1 \in 0 .. B - 1 /\ c1 = B * e1 + f1
      /\ e2 \in Nat /\ f2 \in 0 .. B - 1 /\ c2 = B * e2 + f2
  <2>1. r1 \in Nat /\ c1 \in Nat /\ r2 \in Nat /\ c2 \in Nat
    BY <1>1, <1>2
  <2> QED
    BY <1>6, <2>1
<1>8. n \in Nat \ {0} /\ e1 \in 0 .. n - 1 /\ e2 \in 0 .. n - 1
  <2> DEFINE t == w + B - 1
             k == t % B
  <2>1. t \in Nat
    BY <1>1
  <2>2. n \in Nat /\ k \in 0 .. B - 1 /\ t = B * n + k
    BY <1>1, <2>1, Divided
  <2> HIDE DEF n, k
  <2>3. B * n \in Nat
    BY <1>1, <2>2
  <2>4. c1 \in Nat /\ c1 < B * n /\ c2 \in Nat /\ c2 < B * n
    BY <1>1, <1>2, <2>2, <2>3
  <2>5. e1 < n /\ e2 < n
    BY <1>1, <2>2, <2>4, QuotientBelow
  <2> HIDE DEF e1, e2
  <2> QED
    BY <1>7, <2>2, <2>5
<1> HIDE DEF a1, b1, a2, b2, e1, f1, e2, f2, n
<1>9. CASE protocol \in {1, 4}
  <2>1. a1 = a2 /\ c1 = c2
    BY <1>1, <1>2, <1>3, <1>7, <1>9, PlacesUnique
  <2> QED
    BY <1>3, <1>7, <1>9, <2>1
<1>10. CASE protocol = 2
  <2>1. n * r1 = r1 * n /\ n * r2 = r2 * n /\ r1 \in Nat /\ r2 \in Nat /\ n * r1 \in Nat /\ n * r2 \in Nat
    BY <1>1, <1>2, <1>8
  <2>2. r1 * n + e1 = r2 * n + e2
    BY <1>4, <1>7, <1>10, <2>1
  <2>3. r1 = r2 /\ e1 = e2
    BY <1>8, <2>1, <2>2, PlacesUnique
  <2> QED
    BY <1>4, <1>7, <1>10, <2>3
<1>11. CASE protocol = 3
  <2>1. e1 = e2 /\ r1 = r2
    BY <1>1, <1>2, <1>5, <1>7, <1>11, PlacesUnique
  <2> QED
    BY <1>5, <1>7, <1>11, <2>1
<1> QED
  BY <1>9, <1>10, <1>11

\* The EA display fills the area with the picture.
LEMMA EABlit ==
  ASSUME NEW e, NEW S, S \subseteq Screen, NEW img, NEW win, WinOK(win), Visible(win), Synced(e, S),
         Driver = "EA232graphic", NEW o \in RealBlit(e, img, win)
  PROVE  /\ BlitDone(o, e, img, win, S)
         /\ \A p \in Screen : o.dev[p] = IF p \in Win(win) THEN Kept(img[p]) ELSE e.dev[p]
<1> DEFINE code(p) == EA232_Code(e.protocol, win, p[1] - win.r, p[2] - win.c)
           B == {q \in Win(win) : black(img[q])}
           bits == {code(p) : p \in B}
           f == EA232_Unpack(e.protocol, win, bits)
<1>1. o = [e EXCEPT !.dev = f ++ e.dev]
  BY DEF RealBlit, drv_EA232graphic_blit
<1>2. /\ DevOK(e) /\ {"sent", "late", "dirty", "protocol"} \subseteq DOMAIN e /\ DOMAIN e.sent = Screen
      /\ e.protocol \in 1 .. 4
  BY DEF Synced
<1>3. win.r \in Nat /\ win.c \in Nat /\ win.h \in Nat \ {0} /\ win.w \in Nat \ {0} /\ Win(win) \subseteq Screen
  BY DEF WinOK, Visible
<1>4. \A p \in Win(win) : p = <<p[1], p[2]>> /\ p[1] - win.r \in 0 .. win.h - 1 /\ p[2] - win.c \in 0 .. win.w - 1
  BY <1>3, InRect DEF Win
<1>5. ASSUME NEW p \in Win(win), NEW q \in Win(win), code(p) = code(q) PROVE p = q
  <2>1. p[1] - win.r = q[1] - win.r /\ p[2] - win.c = q[2] - win.c
    BY <1>2, <1>3, <1>4, <1>5, CodesDiffer
  <2>2. p[1] \in Int /\ p[2] \in Int /\ q[1] \in Int /\ q[2] \in Int
    BY <1>3, InRect DEF Win
  <2>3. p[1] = q[1] /\ p[2] = q[2]
    BY <1>3, <2>1, <2>2
  <2> QED
    BY <1>4, <2>3
<1>6. DOMAIN f = Win(win) /\ \A p \in Win(win) : f[p] = IF code(p) \in bits THEN 1 ELSE 0
  <2> SUFFICES ASSUME NEW p \in Win(win) PROVE f[p] = IF code(p) \in bits THEN 1 ELSE 0
    BY DEF EA232_Unpack
  <2> DEFINE r == p[1] - win.r
             c == p[2] - win.c
             n == (win.w + Byte - 1) \div Byte
             k == c \div Byte
  <2>1. r * n + k = k + n * r
    <3>1. r \in Nat /\ c \in Nat /\ Byte \in Nat \ {0} /\ win.w + Byte - 1 \in Nat
      BY <1>3, <1>4, DriverAssumption
    <3> HIDE DEF r, c
    <3>2. n \in Nat /\ k \in Nat
      BY <3>1, Divided
    <3> HIDE DEF n, k
    <3> QED
      BY <3>1, <3>2
  <2> DEFINE g == CASE e.protocol \in {1, 4} -> <<(r \div Byte) * win.w + c, r % Byte>>
                    [] e.protocol = 2 -> <<r * n + k, c % Byte>>
                    [] e.protocol = 3 -> <<k * win.h + r, c % Byte>>
  <2>2. g = code(p)
    <3>1. code(p) = CASE e.protocol \in {1, 4} -> <<(r \div Byte) * win.w + c, r % Byte>>
                      [] e.protocol = 2 -> <<k + n * r, c % Byte>>
                      [] e.protocol = 3 -> <<k * win.h + r, c % Byte>>
      BY DEF EA232_Code
    <3> HIDE DEF code, k, n, r, c
    <3> QED
      BY <1>2, <2>1, <3>1
  <2>3. f[p] = IF g \in bits THEN 1 ELSE 0
    <3> HIDE DEF bits
    <3> QED
      BY DEF EA232_Unpack
  <2> HIDE DEF g, code, bits, f
  <2> QED
    BY <2>2, <2>3
<1> HIDE DEF code, f
<1>7. \A p \in Win(win) : code(p) \in bits <=> black(img[p])
  BY <1>5
<1> HIDE DEF bits
<1>8. /\ DOMAIN o = DOMAIN e /\ o.buf = e.buf /\ o.sent = e.sent /\ o.protocol = e.protocol
      /\ o.dev = f ++ e.dev
  BY <1>1, <1>2 DEF DevOK
<1>9. DOMAIN o.dev = Screen /\ \A p \in Screen : o.dev[p] = IF p \in Win(win) THEN f[p] ELSE e.dev[p]
  BY <1>2, <1>3, <1>6, <1>8 DEF DevOK, ++
<1>10. \A p \in Win(win) : f[p] = Kept(img[p])
  BY <1>6, <1>7 DEF Kept, Mono
<1>11. DevOK(o)
  BY <1>2, <1>8, <1>9 DEF DevOK
<1>12. Synced(o, S \union Win(win))
  BY <1>2, <1>8, <1>11 DEF Synced
<1> QED
  BY <1>9, <1>10, <1>12 DEF BlitDone, IsPut

-----------------------------------------------------------------------------
(* X11: a pixel that was sent is shown, or exposed, or black as after clearing. *)
X11Shown(e, S, R, img) ==
  \A p \in Screen \ R :
    IF p \in S THEN /\ e.buf[p] = img[p]
                    /\ p \in e.exposed \/ e.dev[p] = <<img[p], e.brightness>> \/ img[p] = NO_COL.v
    ELSE e.buf[p] = NO_COL.v

\* What a blit does with buffer and display.
LEMMA X11Blit ==
  ASSUME NEW e, NEW img, NEW win, WinOK(win), DevOK(e),
         {"sent", "late", "dirty", "exposed", "brightness"} \subseteq DOMAIN e, DOMAIN e.sent = Screen,
         e.exposed \subseteq Screen, NEW o, o = drv_X11_blit(e, img, win)
  PROVE  /\ DevOK(o) /\ DOMAIN o = DOMAIN e /\ o.sent = e.sent /\ o.brightness = e.brightness
         /\ o.exposed \subseteq Screen
         /\ \A p \in Screen : o.buf[p] = IF p \in Win(win) THEN img[p] ELSE e.buf[p]
         /\ \A p \in Screen : p \in e.exposed \/ (p \in Win(win) /\ e.buf[p] # img[p]) => p \in o.exposed
         /\ \A p \in Screen : (p \in Win(win) /\ e.buf[p] # img[p]) \/ o.dev[p] = e.dev[p]
<1> DEFINE b == Put(e, img, win)
           C == Changed(e, img, win)
<1>1. o = [b EXCEPT !.dev = Fill(C, <<>>) ++ b.dev, !.exposed = b.exposed \union C]
  BY DEF drv_X11_blit
<1>2. Update(b, e, {"buf"}) /\ DevOK(b) /\ \A p \in Screen : b.buf[p] = IF p \in Win(win) THEN img[p] ELSE e.buf[p]
  BY PutIs
<1>3. C \subseteq Screen /\ \A p \in Screen : p \in C <=> p \in Win(win) /\ e.buf[p] # img[p]
  BY DEF Changed, WinOK
<1> HIDE DEF b, C
<1>4. DOMAIN b = DOMAIN e /\ b.dev = e.dev /\ b.sent = e.sent /\ b.exposed = e.exposed /\ b.brightness = e.brightness
  BY <1>2 DEF Update, DevOK
<1>5. /\ DOMAIN o = DOMAIN e /\ o.buf = b.buf /\ o.sent = e.sent /\ o.brightness = e.brightness
      /\ o.dev = Fill(C, <<>>) ++ e.dev /\ o.exposed = e.exposed \union C
  BY <1>1, <1>4 DEF DevOK
<1>6. DOMAIN o.dev = Screen /\ \A p \in Screen : p \in C \/ o.dev[p] = e.dev[p]
  BY <1>3, <1>5 DEF DevOK, Fill, ++
<1>7. DevOK(o)
  BY <1>2, <1>4, <1>5, <1>6 DEF DevOK
<1> QED
  BY <1>2, <1>3, <1>5, <1>6, <1>7

\* A blit keeps that, if nothing else changed but spilled pixels.
LEMMA X11BlitShows ==
  ASSUME NEW e, NEW S, NEW R, NEW R2, NEW old, NEW img, NEW win, WinOK(win), Synced(e, S), Driver = "X11",
         X11Shown(e, S, R, old), R \subseteq R2,
         \A p \in Screen \ R2 : p \in Win(win) \/ img[p] = old[p],
         NEW o \in RealBlit(e, img, win)
  PROVE  BlitDone(o, e, img, win, S) /\ X11Shown(o, S \union Win(win), R2, img)
<1>1. o = drv_X11_blit(e, img, win)
  BY DEF RealBlit
<1>2. /\ DevOK(e) /\ {"sent", "late", "dirty", "exposed", "brightness"} \subseteq DOMAIN e /\ DOMAIN e.sent = Screen
      /\ e.exposed \subseteq Screen
  BY DEF Synced
<1>3. /\ DevOK(o) /\ DOMAIN o = DOMAIN e /\ o.sent = e.sent /\ o.brightness = e.brightness
      /\ o.exposed \subseteq Screen
      /\ \A p \in Screen : o.buf[p] = IF p \in Win(win) THEN img[p] ELSE e.buf[p]
      /\ \A p \in Screen : p \in e.exposed \/ (p \in Win(win) /\ e.buf[p] # img[p]) => p \in o.exposed
      /\ \A p \in Screen : (p \in Win(win) /\ e.buf[p] # img[p]) \/ o.dev[p] = e.dev[p]
  BY <1>1, <1>2, X11Blit
<1>4. Synced(o, S \union Win(win))
  BY <1>2, <1>3 DEF Synced
<1>5. IsPut(o, e, img, win)
  BY <1>3 DEF IsPut, Kept, Mono
<1>6. ASSUME NEW p \in Screen \ R2
      PROVE  IF p \in S \union Win(win)
             THEN /\ o.buf[p] = img[p]
                  /\ p \in o.exposed \/ o.dev[p] = <<img[p], o.brightness>> \/ img[p] = NO_COL.v
             ELSE o.buf[p] = NO_COL.v
  <2>1. p \in Screen \ R
    OBVIOUS
  <2>2. IF p \in S THEN /\ e.buf[p] = old[p]
                        /\ p \in e.exposed \/ e.dev[p] = <<old[p], e.brightness>> \/ old[p] = NO_COL.v
        ELSE e.buf[p] = NO_COL.v
    BY <2>1 DEF X11Shown
  <2>3. p \in Win(win) \/ img[p] = old[p]
    OBVIOUS
  <2> QED
    BY <1>3, <2>2, <2>3
<1> QED
  BY <1>4, <1>5, <1>6 DEF BlitDone, X11Shown

\* The timer shows all that is exposed.
LEMMA X11ExposeShows ==
  ASSUME NEW e, NEW S, NEW R, NEW img, Synced(e, S), Driver = "X11", X11Shown(e, S, R, img)
  PROVE  Synced(drv_X11_expose(e, img), S) /\ X11Shown(drv_X11_expose(e, img), S, R, img)
<1> DEFINE X == e.exposed
           box == {p \in Screen : \E q \in Around(X) : p[1] - q[1] \in {0, 1} /\ p[2] - q[2] \in {0, 1}}
           o == drv_X11_expose(e, img)
           f == [p \in box |-> <<img[p], e.brightness>>]
<1>1. /\ DevOK(e) /\ {"sent", "late", "dirty", "exposed", "brightness"} \subseteq DOMAIN e /\ DOMAIN e.sent = Screen
      /\ X \subseteq Screen
  BY DEF Synced
<1>2. CASE X = {}
  <2>1. o = e
    BY <1>2 DEF drv_X11_expose
  <2> HIDE DEF o
  <2>2. Synced(o, S) /\ X11Shown(o, S, R, img)
    BY <2>1
  <2> QED
    BY <2>2 DEF o
<1>3. CASE X # {}
  <2>1. o = [e EXCEPT !.dev = f ++ e.dev, !.exposed = {}]
    BY <1>3 DEF drv_X11_expose
  <2>2. \A p \in Screen : p = <<p[1], p[2]>> /\ p[1] \in 0 .. DROWS - 1 /\ p[2] \in 0 .. DCOLS - 1
    BY InRect, Sizes DEF Screen
  <2>3. \A p \in X : p \in box
    <3>1. DROWS + DCOLS \in Nat /\ \A q \in X : q = <<q[1], q[2]>> /\ q[1] \in 0 .. DROWS + DCOLS /\ q[2] \in 0 .. DROWS + DCOLS
      BY <1>1, <2>2, Sizes
    <3> HIDE DEF X
    <3>2. X \subseteq Around(X)
      BY <1>3, <3>1, AroundHolds
    <3>3. \A p \in X : p[1] - p[1] = 0 /\ p[2] - p[2] = 0
      BY <3>1
    <3> QED
      BY <1>1, <3>2, <3>3
  <2>4. box \subseteq Screen
    OBVIOUS
  <2> HIDE DEF box
  <2>5. /\ DOMAIN o = DOMAIN e /\ o.buf = e.buf /\ o.sent = e.sent /\ o.brightness = e.brightness /\ o.exposed = {}
        /\ o.dev = f ++ e.dev
    BY <1>1, <2>1 DEF DevOK
  <2>6. DOMAIN o.dev = Screen /\ \A p \in Screen : o.dev[p] = IF p \in box THEN <<img[p], e.brightness>> ELSE e.dev[p]
    BY <1>1, <2>4, <2>5 DEF DevOK, ++
  <2> HIDE DEF o
  <2>7. DevOK(o)
    BY <1>1, <2>5, <2>6 DEF DevOK
  <2>8. Synced(o, S)
    BY <1>1, <2>5, <2>7 DEF Synced
  <2>9. X11Shown(o, S, R, img)
    BY <2>3, <2>5, <2>6 DEF X11Shown
  <2> QED
    BY <2>8, <2>9 DEF o
<1> QED
  BY <1>2, <1>3

\* Another brightness: the window is cleared and shown anew.
LEMMA X11BrightnessShows ==
  ASSUME NEW e, NEW S, NEW R, NEW img, Synced(e, S), Driver = "X11", X11Shown(e, S, R, img), NEW b,
         NEW o, o = drv_X11_brightness(e, img, b)
  PROVE  LET T == IF o.brightness = e.brightness THEN S ELSE Screen
         IN  Synced(o, T) /\ X11Shown(o, T, R, img)
<1> DEFINE win == [r |-> 0, c |-> 0, h |-> DROWS, w |-> DCOLS]
           x == [e EXCEPT !.dev = Fill(Screen, <<>>), !.buf = Fill(Screen, NO_COL.v)]
           y == drv_X11_blit(x, img, win)
           v == Clamp(b, 0, MaxV)
<1>1. /\ DevOK(e) /\ {"sent", "late", "dirty", "exposed", "brightness"} \subseteq DOMAIN e /\ DOMAIN e.sent = Screen
      /\ e.exposed \subseteq Screen
  BY DEF Synced
<1>2. CASE b = -1 \/ e.brightness = v
  <2>1. o = e
    BY <1>2 DEF drv_X11_brightness
  <2> QED
    BY <2>1
<1>3. CASE ~(b = -1 \/ e.brightness = v)
  <2>1. o = [y EXCEPT !.brightness = v]
    BY <1>3 DEF drv_X11_brightness
  <2>2. WinOK(win) /\ Win(win) = Screen
    BY Sizes DEF WinOK, Win, Screen
  <2>3. /\ DevOK(x) /\ DOMAIN x = DOMAIN e /\ x.sent = e.sent /\ x.exposed = e.exposed /\ x.brightness = e.brightness
        /\ \A p \in Screen : x.buf[p] = NO_COL.v
    BY <1>1 DEF DevOK, Fill
  <2> HIDE DEF x, win
  <2>4. /\ DevOK(y) /\ DOMAIN y = DOMAIN x /\ y.sent = x.sent
        /\ y.exposed \subseteq Screen
        /\ \A p \in Screen : y.buf[p] = img[p]
        /\ \A p \in Screen : NO_COL.v # img[p] => p \in y.exposed
    <3>1. {"sent", "late", "dirty", "exposed", "brightness"} \subseteq DOMAIN x /\ DOMAIN x.sent = Screen /\ x.exposed \subseteq Screen
      BY <1>1, <2>3
    <3> QED
      BY <2>2, <2>3, <3>1, X11Blit
  <2> HIDE DEF y
  <2>5. /\ DOMAIN o = DOMAIN e /\ o.buf = y.buf /\ o.sent = e.sent /\ o.brightness = v /\ o.exposed = y.exposed
        /\ o.dev = y.dev
    BY <1>1, <2>1, <2>3, <2>4 DEF DevOK
  <2>6. DevOK(o) /\ o.brightness # e.brightness
    <3>1. e.brightness # v
      BY <1>3
    <3>2. o.brightness = v
      BY <2>5
    <3>3. DevOK(o)
      BY <1>1, <2>4, <2>5 DEF DevOK
    <3> HIDE DEF v
    <3> QED
      BY <3>1, <3>2, <3>3
  <2>7. Synced(o, Screen)
    BY <1>1, <2>4, <2>5, <2>6 DEF Synced
  <2>8. X11Shown(o, Screen, R, img)
    BY <2>4, <2>5 DEF X11Shown
  <2> QED
    BY <2>6, <2>7, <2>8
<1> QED
  BY <1>2, <1>3

\* The blit of every driver, but for X11.
LEMMA BlitShows ==
  ASSUME case \in Cases, NEW e, NEW S, S \subseteq Screen, NEW img, NEW win, WinOK(win), Visible(win),
         Synced(e, S), Driver # "X11", Driver = "LPH7508" => CtlOK(e.ctl), NEW o \in RealBlit(e, img, win)
  PROVE  /\ BlitDone(o, e, img, win, S)
         /\ Driver = "LPH7508" => CtlOK(o.ctl) /\ o.ctl.symbols = e.ctl.symbols
         /\ Driver = "EA232graphic" => \A p \in Screen : o.dev[p] = IF p \in Win(win) THEN Kept(img[p]) ELSE e.dev[p]
         /\ Driver = "mdm166a" => o.dev = e.dev
<1>1. Driver \in Mono \union Colour
  BY SceneAssumption DEF OptionsOK, Drivers, Driver
<1>2. CASE Driver \in {"LUIse", "D4D", "serdisplib", "st2205"}
  BY <1>2, AreaSent
<1>3. CASE Driver \in {"G15", "PICGraphic", "LEDMatrix"}
  BY <1>3, G15Blit, PICBlit, LEDBlit
<1>4. CASE Driver \in {"SamsungSPF", "Image", "picoLCDGraphic", "vnc"}
  BY <1>4, NotedBlit, PicoBlit, VncBlit
<1>5. CASE Driver \in {"mdm166a", "dpf"}
  BY <1>5, MDMBlit, DpfBlit
<1>6. CASE Driver = "T6963"
  BY <1>6, T6Blit
<1>7. CASE Driver = "LPH7508"
  BY <1>7, L7Blit
<1>8. CASE Driver \in {"GLCD2USB", "MatrixOrbitalGX"}
  BY <1>8, GLCDBlit, MOGXBlit
<1>9. CASE Driver = "EA232graphic"
  BY <1>9, EABlit
<1> QED
  BY <1>1, <1>2, <1>3, <1>4, <1>5, <1>6, <1>7, <1>8, <1>9 DEF Mono, Colour

-----------------------------------------------------------------------------
(* The start of the drivers. *)

\* What is allocated: all of one colour, nothing sent; other fields do not change it.
StartsAs(e, buf, dev) ==
  /\ DevOK(e) /\ {"sent", "late", "dirty"} \subseteq DOMAIN e /\ DOMAIN e.sent = Screen
  /\ e.dirty = FALSE
  /\ \A p \in Screen : e.buf[p] = buf /\ e.sent[p] = 0 /\ e.dev[p] = dev

\* So it is with what every driver allocates,
LEMMA AllocatedIs ==
  ASSUME NEW buf, NEW dev
  PROVE  StartsAs(Allocated(buf, dev), buf, dev)
  BY DEF Allocated, Fill, DevOK, StartsAs

\* Fields of its own come first.
StartsWith(e, f, buf, dev) ==
  /\ StartsAs(e, buf, dev) /\ DOMAIN f \subseteq DOMAIN e
  /\ \A g \in DOMAIN f : e[g] = f[g]
  /\ "late" \notin DOMAIN f => e.late = FALSE
\* and with what comes before it.
LEMMA WithMoreIs ==
  ASSUME NEW f, NEW buf, NEW dev, DOMAIN f \cap {"buf", "sent", "dev", "dirty"} = {}
  PROVE  StartsWith(f ++ Allocated(buf, dev), f, buf, dev)
<1> DEFINE a == Allocated(buf, dev)
           x == f ++ a
<1>1. StartsAs(a, buf, dev)
  BY AllocatedIs
<1>2. DOMAIN a = {"buf", "sent", "dev", "dirty", "late"} /\ a.late = FALSE
  BY DEF Allocated
<1> HIDE DEF a
<1>3. /\ DOMAIN x = DOMAIN f \union DOMAIN a /\ \A g \in DOMAIN f : x[g] = f[g]
      /\ \A g \in DOMAIN a \ DOMAIN f : x[g] = a[g]
  BY DEF ++
<1> HIDE DEF x
<1>4. x.buf = a.buf /\ x.sent = a.sent /\ x.dev = a.dev /\ x.dirty = a.dirty /\ ("late" \notin DOMAIN f => x.late = a.late)
  BY <1>2, <1>3
<1>5. StartsAs(x, buf, dev)
  BY <1>1, <1>2, <1>3, <1>4 DEF StartsAs, DevOK
<1> QED
  BY <1>2, <1>3, <1>4, <1>5 DEF x, a, StartsWith

\* A driver without fields of its own.
LEMMA SyncedPlain ==
  ASSUME case \in Cases, Driver \in {"LUIse", "D4D", "serdisplib", "G15", "st2205", "GLCD2USB", "SamsungSPF", "Image"},
         NEW e, e = Started(case)
  PROVE  Synced(e, {})
<1>1. CASE Driver \in {"LUIse", "D4D", "serdisplib", "G15", "st2205"}
  <2>1. \E buf, dev : e = Allocated(buf, dev)
    BY <1>1 DEF Started, drv_LUIse_start, drv_D4D_start, drv_SD_start, drv_G15_start, drv_st2205_start2, Driver
  <2>2. \E buf, dev : StartsAs(e, buf, dev)
    BY <2>1, AllocatedIs
  <2> QED
    BY <1>1, <2>2 DEF Synced, Same, StartsAs
<1>2. CASE Driver \in {"GLCD2USB"}
  <2>1. e = Allocated(0, 0)
    BY <1>2 DEF Started, drv_GLCD2USB_start, drv_IMG_start, Driver
  <2>2. StartsAs(e, 0, 0)
    BY <2>1, AllocatedIs
  <2>3. Same(e, Screen)
    BY <2>2 DEF Same, StartsAs
  <2> QED
    BY <1>2, <2>2, <2>3 DEF Synced, StartsAs
<1>3. CASE Driver = "Image"
  <2>1. e = Allocated(0, 0)
    BY <1>3 DEF Started, drv_GLCD2USB_start, drv_IMG_start, Driver
  <2>2. StartsAs(e, 0, 0)
    BY <2>1, AllocatedIs
  <2>3. Same(e, Screen)
    BY <2>2 DEF Same, StartsAs
  <2> QED
    BY <1>3, <2>2, <2>3 DEF Synced, StartsAs
<1>4. CASE Driver = "SamsungSPF"
  <2>1. e = Allocated(MaxV \div 2, Unknown)
    BY <1>4 DEF Started, drv_SamsungSPF_start, Driver
  <2>2. StartsAs(e, MaxV \div 2, Unknown)
    BY <2>1, AllocatedIs
  <2>3. e.dev = Fill(Screen, Unknown)
    BY <2>1 DEF Allocated
  <2> QED
    BY <1>4, <2>2, <2>3 DEF Synced, StartsAs
<1> QED
  BY <1>1, <1>2, <1>3, <1>4

\* Five with options or a state of their own.
LEMMA SyncedOptions ==
  ASSUME case \in Cases, Driver \in {"EA232graphic", "MatrixOrbitalGX", "PICGraphic", "T6963", "LEDMatrix", "vnc"},
         NEW e, e = Started(case)
  PROVE  Synced(e, {})
<1>0. OptionsOK(case)
  BY SceneAssumption
<1>2. CASE Driver = "EA232graphic"
  <2> DEFINE f == [protocol |-> case.protocol]
  <2>1. e = f ++ Allocated(0, 0)
    BY <1>2 DEF Started, drv_EA232graphic_start, Driver
  <2>2. StartsWith(e, f, 0, 0)
    <3>1. DOMAIN f \cap {"buf", "sent", "dev", "dirty"} = {}
      OBVIOUS
    <3> HIDE DEF f
    <3> QED
      BY <2>1, <3>1, WithMoreIs
  <2>3. "protocol" \in DOMAIN e /\ e.protocol = case.protocol
    BY <2>2 DEF StartsWith
  <2> QED
    BY <1>0, <1>2, <2>2, <2>3 DEF Synced, OptionsOK, Driver, StartsAs, StartsWith
<1>3. CASE Driver = "MatrixOrbitalGX"
  <2> DEFINE f == [invert |-> case.invert]
  <2>1. e = f ++ Allocated(0, Unknown)
    BY <1>3 DEF Started, drv_MOGX_start, Driver
  <2>2. StartsWith(e, f, 0, Unknown)
    <3>1. DOMAIN f \cap {"buf", "sent", "dev", "dirty"} = {}
      OBVIOUS
    <3> HIDE DEF f
    <3> QED
      BY <2>1, <3>1, WithMoreIs
  <2>3. "invert" \in DOMAIN e /\ e.invert = case.invert
    BY <2>2 DEF StartsWith
  <2>4. case.invert \in BOOLEAN
    BY <1>0, <1>3 DEF OptionsOK, Driver
  <2> QED
    BY <1>3, <2>2, <2>3, <2>4 DEF Synced, Same, StartsAs, StartsWith
<1>4. CASE Driver = "PICGraphic"
  <2> DEFINE f == [delayDone |-> FALSE]
  <2>1. e = f ++ Allocated(0, Unknown)
    BY <1>4 DEF Started, drv_PICGraphic_start2, Driver
  <2>2. StartsWith(e, f, 0, Unknown)
    <3>1. DOMAIN f \cap {"buf", "sent", "dev", "dirty"} = {}
      OBVIOUS
    <3> HIDE DEF f
    <3> QED
      BY <2>1, <3>1, WithMoreIs
  <2>3. "delayDone" \in DOMAIN e /\ e.delayDone = FALSE /\ e.late = FALSE
    BY <2>2 DEF StartsWith
  <2> QED
    BY <1>4, <2>2, <2>3 DEF Synced, Same, StartsAs, StartsWith
<1>5. CASE Driver = "T6963"
  <2> DEFINE f == [dual |-> case.dual]
  <2>1. e = f ++ Allocated(0, 0)
    BY <1>5 DEF Started, drv_T6_start, Driver
  <2>2. StartsWith(e, f, 0, 0)
    <3>1. DOMAIN f \cap {"buf", "sent", "dev", "dirty"} = {}
      OBVIOUS
    <3> HIDE DEF f
    <3> QED
      BY <2>1, <3>1, WithMoreIs
  <2>3. "dual" \in DOMAIN e /\ e.dual = case.dual
    BY <2>2 DEF StartsWith
  <2>4. case.dual \in BOOLEAN
    BY <1>0, <1>5 DEF OptionsOK, Driver
  <2>5. Same(e, Screen) /\ \A p \in Screen : e.sent[p] = e.buf[p]
    BY <2>2 DEF Same, StartsAs, StartsWith
  <2> QED
    BY <1>5, <2>2, <2>3, <2>4, <2>5 DEF Synced, StartsAs, StartsWith
<1>6. CASE Driver = "LEDMatrix"
  <2> DEFINE f == [late |-> 0, lost |-> FALSE]
  <2>1. e = f ++ Allocated(0, Unknown)
    BY <1>6 DEF Started, drv_LEDMatrix_start, Driver
  <2>2. StartsWith(e, f, 0, Unknown)
    <3>1. DOMAIN f \cap {"buf", "sent", "dev", "dirty"} = {}
      OBVIOUS
    <3> HIDE DEF f
    <3> QED
      BY <2>1, <3>1, WithMoreIs
  <2>3. "lost" \in DOMAIN e /\ e.lost = FALSE
    BY <2>2 DEF StartsWith
  <2> QED
    BY <1>6, <2>2, <2>3 DEF Synced, Same, StartsAs, StartsWith
<1>7. CASE Driver = "vnc"
  <2> DEFINE f == [osd |-> FALSE, covered |-> {}]
  <2>1. e = f ++ Allocated(0, 0)
    BY <1>7 DEF Started, drv_vnc_start, Driver
  <2>2. StartsWith(e, f, 0, 0)
    <3>1. DOMAIN f \cap {"buf", "sent", "dev", "dirty"} = {}
      OBVIOUS
    <3> HIDE DEF f
    <3> QED
      BY <2>1, <3>1, WithMoreIs
  <2>3. {"osd", "covered"} \subseteq DOMAIN e /\ e.osd = FALSE /\ e.covered = {}
    BY <2>2 DEF StartsWith
  <2> QED
    BY <1>7, <2>2, <2>3 DEF Synced, StartsAs, StartsWith
<1> QED
  BY <1>2, <1>3, <1>4, <1>5, <1>6, <1>7

\* The dpf counts all of the display as changed.
LEMMA DpfSynced ==
  ASSUME Driver = "dpf", NEW e, e = Started(case)
  PROVE  Synced(e, {})
<1> DEFINE rotate90 == case.orientation \in (IF case.portrait THEN {0, 2} ELSE {1, 3})
           flip == (~case.portrait /\ rotate90) # (case.orientation > 1)
           f == [rotate90 |-> rotate90, flip |-> flip]
           x == f ++ Allocated(0, Unknown)
<1>1. e = [x EXCEPT !.dirty = {dpf_Place(x, p) : p \in Screen}]
  BY DEF Started, drv_dpf_start, Driver
<1>2. DOMAIN f = {"rotate90", "flip"} /\ f.rotate90 \in BOOLEAN /\ f.flip \in BOOLEAN
  <2>1. rotate90 \in BOOLEAN /\ flip \in BOOLEAN
    OBVIOUS
  <2> HIDE DEF rotate90, flip
  <2> QED
    BY <2>1
<1>3. StartsWith(x, f, 0, Unknown)
  <2> HIDE DEF f
  <2> QED
    BY <1>2, WithMoreIs
<1> HIDE DEF f
<1>4. /\ DevOK(x) /\ {"sent", "late", "dirty", "rotate90", "flip"} \subseteq DOMAIN x /\ DOMAIN x.sent = Screen
      /\ x.rotate90 = f.rotate90 /\ x.flip = f.flip
  BY <1>2, <1>3 DEF StartsWith, StartsAs
<1> HIDE DEF x
<1>5. /\ DOMAIN e = DOMAIN x /\ e.sent = x.sent /\ e.rotate90 = x.rotate90 /\ e.flip = x.flip
      /\ e.buf = x.buf /\ e.dev = x.dev /\ e.dirty = {dpf_Place(x, p) : p \in Screen}
  BY <1>1, <1>4 DEF DevOK
<1>6. \A p \in Screen : dpf_Place(e, p) = dpf_Place(x, p)
  BY <1>5 DEF dpf_Place
<1>7. e.dirty = {dpf_Place(e, p) : p \in Screen}
  BY <1>5, <1>6
<1>8. DevOK(e) /\ {e.flip, e.rotate90} \subseteq BOOLEAN
  BY <1>2, <1>4, <1>5 DEF DevOK
<1> QED
  BY <1>4, <1>5, <1>7, <1>8 DEF Synced

\* Two drivers clear the display.
LEMMA ClearedSynced ==
  ASSUME case \in Cases, Driver \in ClearsItself, NEW e, e = Started(case)
  PROVE  Synced(e, {}) /\ \A p \in Screen : e.dev[p] = 0
<1>0. OptionsOK(case)
  BY SceneAssumption
<1>1. CASE Driver = "mdm166a"
  <2> DEFINE f == [minX |-> 0, maxX |-> 0]
             x == f ++ Allocated(0, Unknown)
  <2>1. e = [x EXCEPT !.dev = Fill(Screen, 0)]
    BY <1>1 DEF Started, drv_MDM166A_start, drv_MDM166A_clear, Driver
  <2>2. StartsWith(x, f, 0, Unknown)
    <3>1. DOMAIN f \cap {"buf", "sent", "dev", "dirty"} = {}
      OBVIOUS
    <3> HIDE DEF f
    <3> QED
      BY <3>1, WithMoreIs
  <2> HIDE DEF x
  <2>3. {"minX", "maxX"} \subseteq DOMAIN x /\ x.minX = 0 /\ x.maxX = 0
    BY <2>2 DEF StartsWith
  <2>4. /\ DevOK(x) /\ {"sent", "late", "dirty"} \subseteq DOMAIN x /\ DOMAIN x.sent = Screen
        /\ x.dirty = FALSE /\ \A p \in Screen : x.buf[p] = 0
    BY <2>2 DEF StartsWith, StartsAs
  <2>5. /\ DOMAIN e = DOMAIN x /\ e.sent = x.sent /\ e.buf = x.buf /\ e.dirty = FALSE
        /\ e.minX = 0 /\ e.maxX = 0 /\ e.dev = [p \in Screen |-> 0]
    BY <2>1, <2>3, <2>4 DEF DevOK, Fill
  <2>6. DevOK(e) /\ {e.minX, e.maxX} \subseteq Nat
    BY <2>4, <2>5 DEF DevOK
  <2>7. \A p \in Screen : e.dev[p] = 0 /\ e.dev[p] = e.buf[p]
    BY <2>4, <2>5
  <2>8. {"sent", "late", "dirty", "minX", "maxX"} \subseteq DOMAIN e /\ DOMAIN e.sent = Screen /\ e.dirty \in BOOLEAN
    BY <2>3, <2>4, <2>5
  <2> HIDE DEF f
  <2> QED
    BY <1>1, <2>6, <2>7, <2>8 DEF Synced
<1>2. CASE Driver = "picoLCDGraphic"
  <2> DEFINE f == [update |-> case.update]
             x == f ++ Allocated(0, Unknown)
  <2>1. e = [x EXCEPT !.dev = Fill(Screen, 0)]
    BY <1>2 DEF Started, drv_pLG_start, drv_pLG_clear, Driver
  <2>2. StartsWith(x, f, 0, Unknown)
    <3>1. DOMAIN f \cap {"buf", "sent", "dev", "dirty"} = {}
      OBVIOUS
    <3> HIDE DEF f
    <3> QED
      BY <3>1, WithMoreIs
  <2> HIDE DEF x
  <2>3. "update" \in DOMAIN x /\ x.update = case.update
    BY <2>2 DEF StartsWith
  <2>4. /\ DevOK(x) /\ {"sent", "late", "dirty"} \subseteq DOMAIN x /\ DOMAIN x.sent = Screen /\ x.dirty = FALSE
    BY <2>2 DEF StartsWith, StartsAs
  <2>5. /\ DOMAIN e = DOMAIN x /\ e.sent = x.sent /\ e.buf = x.buf /\ e.dirty = FALSE
        /\ e.update = case.update /\ e.dev = [p \in Screen |-> 0]
    BY <2>1, <2>3, <2>4 DEF DevOK, Fill
  <2>6. DevOK(e)
    BY <2>4, <2>5 DEF DevOK
  <2>7. case.update \in Int
    BY <1>0, <1>2 DEF OptionsOK, Driver
  <2> QED
    BY <1>2, <2>3, <2>4, <2>5, <2>6, <2>7 DEF Synced, Same
<1> QED
  BY <1>1, <1>2 DEF ClearsItself

\* X11 has a window without pixels.
LEMMA X11Synced ==
  ASSUME Driver = "X11", NEW e, e = Started(case)
  PROVE  Synced(e, {}) /\ \A p \in Screen : e.buf[p] = NO_COL.v
<1> DEFINE f == [exposed |-> {}, brightness |-> MaxV]
           g == [dev |-> Fill(Screen, <<>>)]
           a == Allocated(NO_COL.v, 0)
<1>1. e = f ++ g ++ a
  BY DEF Started, drv_X11_start, Driver
<1>2. StartsAs(a, NO_COL.v, 0) /\ "dev" \in DOMAIN a
  BY AllocatedIs DEF Allocated
<1>3. /\ DOMAIN f = {"exposed", "brightness"} /\ f.exposed = {} /\ f.brightness = MaxV
      /\ DOMAIN g = {"dev"} /\ DOMAIN g.dev = Screen
  BY DEF Fill
<1> HIDE DEF f, g, a
<1>4. /\ DOMAIN e = {"exposed", "brightness", "dev"} \union DOMAIN a
      /\ e.exposed = {} /\ e.dev = g.dev /\ e.buf = a.buf /\ e.sent = a.sent
  BY <1>1, <1>2, <1>3 DEF ++, StartsAs, DevOK
<1>5. DevOK(e)
  BY <1>2, <1>3, <1>4 DEF DevOK, StartsAs
<1> QED
  BY <1>2, <1>4, <1>5 DEF Synced, StartsAs

\* The LPH7508 knows no column yet; its display and all of its symbols are off.
LEMMA L7Synced ==
  ASSUME Driver = "LPH7508", NEW e, e = Started(case)
  PROVE  Synced(e, {}) /\ CtlOK(e.ctl)
<1> DEFINE symbols == [k \in SymbolColumns |-> 0]
           reset == [page |-> 0, cp |-> -1, column |-> 0, cc |-> -1, symbols |-> symbols]
           f == [ctl |-> reset]
           x == f ++ Allocated(0, Unknown)
<1>1. e = drv_L7_clear(x)
  BY DEF Started, drv_L7_start, Driver, SymbolColumns
<1>2. DOMAIN f = {"ctl"} /\ f.ctl = reset
  OBVIOUS
<1>3. DOMAIN reset = {"page", "cp", "column", "cc", "symbols"} /\ reset.cc = -1 /\ DOMAIN reset.symbols = SymbolColumns
  OBVIOUS
<1> HIDE DEF f, reset
<1>4. StartsWith(x, f, 0, Unknown)
  BY <1>2, WithMoreIs
<1> HIDE DEF x
<1>5. /\ DevOK(x) /\ {"sent", "late", "dirty", "ctl"} \subseteq DOMAIN x /\ DOMAIN x.sent = Screen /\ x.ctl = reset
      /\ \A p \in Screen : x.buf[p] = 0 /\ x.sent[p] = 0
  BY <1>2, <1>4 DEF StartsWith, StartsAs
<1> DEFINE c == [reset EXCEPT !.cp = (DROWS - 1) \div Byte, !.page = (DROWS - 1) \div Byte, !.column = DCOLS]
<1>6. e = [x EXCEPT !.dev = Fill(Screen, 0), !.ctl = c]
  BY <1>1, <1>5 DEF drv_L7_clear
<1>7. DOMAIN c = DOMAIN reset /\ c.cc = -1 /\ DOMAIN c.symbols = SymbolColumns
  BY <1>3
<1> HIDE DEF c
<1>8. /\ DOMAIN e = DOMAIN x /\ e.sent = x.sent /\ e.buf = x.buf /\ e.ctl = c /\ e.dev = [p \in Screen |-> 0]
  BY <1>5, <1>6 DEF DevOK, Fill
<1>9. DevOK(e) /\ Same(e, Screen) /\ \A p \in Screen : e.sent[p] = e.buf[p]
  BY <1>5, <1>8 DEF DevOK, Same
<1>10. CtlOK(e.ctl)
  BY <1>3, <1>7, <1>8 DEF CtlOK
<1> QED
  BY <1>5, <1>8, <1>9, <1>10 DEF Synced

\* Every driver starts in step.
LEMMA SyncedStart ==
  ASSUME case \in Cases, NEW e, e = Started(case)
  PROVE  /\ Synced(e, {})
         /\ Driver = "mdm166a" => \A p \in Screen : e.dev[p] = 0
         /\ Driver = "X11" => \A p \in Screen : e.buf[p] = NO_COL.v
         /\ Driver = "LPH7508" => CtlOK(e.ctl)
<1>1. Driver \in Mono \union Colour
  BY SceneAssumption DEF OptionsOK, Drivers, Driver
<1>2. CASE Driver \in {"LUIse", "D4D", "serdisplib", "G15", "st2205", "GLCD2USB", "SamsungSPF", "Image"}
  BY <1>2, SyncedPlain
<1>3. CASE Driver \in {"EA232graphic", "MatrixOrbitalGX", "PICGraphic", "T6963", "LEDMatrix", "vnc"}
  BY <1>3, SyncedOptions
<1>4. CASE Driver \in {"mdm166a", "picoLCDGraphic"}
  BY <1>4, ClearedSynced DEF ClearsItself
<1>5. CASE Driver = "dpf"
  BY <1>5, DpfSynced
<1>6. CASE Driver = "X11"
  BY <1>6, X11Synced
<1>7. CASE Driver = "LPH7508"
  BY <1>7, L7Synced
<1> QED
  BY <1>1, <1>2, <1>3, <1>4, <1>5, <1>6, <1>7 DEF Mono, Colour

-----------------------------------------------------------------------------
(* The invariant of the drivers. *)

\* What round widgets may have painted without sending it.
Spilled == UNION {Footprint(Widgets[i].widget, cv.cols) : i \in RoundDrawn}

\* Display and buffer are in step, and the buffer (the display, if there is none) has
\* the colours that are seen in the pixels S, except in T.
Shows(e, S, T, img) ==
  /\ Synced(e, S)
  /\ Driver \notin {"X11", "EA232graphic"} =>
       \A p \in S \ T : (Driver = "LPH7508" => p[1] < L7_Rows) => e.buf[p] = Kept(img[p])
  /\ Driver = "EA232graphic" => \A p \in S \ T : e.dev[p] = Kept(img[p])
  /\ Driver = "LPH7508" => CtlOK(e.ctl)
ShowInv ==
  /\ Shows(d, painted, stale, seen)
  /\ Driver = "X11" => X11Shown(d, painted, Spilled, seen)
  /\ Driver = "mdm166a" /\ phase # "running" => \A p \in Screen : d.dev[p] = 0
  /\ Driver = "LPH7508" => d.ctl.symbols = told

\* A step keeps the driver, and with it what that means.
LEMMA ShowsAfter ==
  ASSUME case' = case, Shows(d', painted', stale', seen')
  PROVE  Shows(d, painted, stale, seen)'
<1>1. Driver' = Driver /\ SymbolColumns' = SymbolColumns
  BY DEF Driver, SymbolColumns
<1>2. Synced(d, painted)'
  BY <1>1 DEF Shows, Synced, Same, Due
<1>3. CtlOK(d.ctl)' <=> CtlOK(d'.ctl)
  BY <1>1 DEF CtlOK
<1>4. \A p : Kept(seen[p])' = Kept(seen'[p])
  BY <1>1 DEF Kept
<1> QED
  BY <1>1, <1>2, <1>3, <1>4 DEF Shows

\* A pixel shows what it should where the buffer has its colour and the display the buffer.
LEMMA KeptIsWanted ==
  ASSUME Driver # "X11", NEW p
  PROVE  Kept(seen[p]) = Wanted(p)
<1>1. CASE Driver \in Mono
  <2>1. Driver # "LEDMatrix" /\ Driver # "X11"
    BY <1>1 DEF Mono
  <2>2. Wanted(p) = IF black(seen[p]) THEN 1 ELSE 0
    BY <1>1, <2>1 DEF Wanted
  <2> QED
    BY <1>1, <2>2 DEF Kept
<1>2. CASE Driver \notin Mono /\ Driver = "LEDMatrix"
  <2>1. Wanted(p) = IF 2 * seen[p] >= MaxV THEN MaxV ELSE 0
    BY <1>2 DEF Wanted
  <2> QED
    BY <1>2, <2>1 DEF Kept
<1>3. CASE Driver \notin Mono /\ Driver # "LEDMatrix"
  <2>1. Wanted(p) = seen[p]
    BY <1>3 DEF Wanted
  <2> QED
    BY <1>3, <2>1 DEF Kept
<1> QED
  BY <1>1, <1>2, <1>3

\* What each driver does not show.
LEMMA UnshownIs ==
  /\ Driver = "X11" => Unshown = {p \in Screen : seen[p] = NO_COL.v} \union Spilled
  /\ Driver = "LPH7508" => Unshown = {p \in Screen : p[1] = DROWS - 1}
  /\ Driver = "vnc" => Unshown = d.covered
  /\ Driver = "SamsungSPF" /\ d.dev = Fill(Screen, Unknown) => Unshown = Screen
<1>1. Driver = "X11" => Unshown = {p \in Screen : seen[p] = NO_COL.v} \union Spilled
  BY DEF Unshown, Spilled
<1>2. Driver = "LPH7508" => Unshown = {p \in Screen : p[1] = DROWS - 1}
  BY DEF Unshown
<1>3. Driver = "vnc" => Unshown = d.covered
  BY DEF Unshown
<1>4. Driver = "SamsungSPF" /\ d.dev = Fill(Screen, Unknown) => Unshown = Screen
  BY DEF Unshown
<1> QED
  BY <1>1, <1>2, <1>3, <1>4
\* When nothing of a driver is under way.
LEMMA RestIs ==
  ASSUME AtRest
  PROVE  /\ Driver = "mdm166a" \/ Driver = "SamsungSPF" \/ Driver = "Image" \/ Driver = "picoLCDGraphic" => ~d.dirty
         /\ Driver = "X11" => d.exposed = {}
         /\ Driver = "PICGraphic" => ~d.late
         /\ Driver = "LEDMatrix" => ~d.lost
<1>1. Driver = "mdm166a" \/ Driver = "SamsungSPF" \/ Driver = "Image" \/ Driver = "picoLCDGraphic" => ~d.dirty
  BY DEF AtRest
<1>2. Driver = "X11" => d.exposed = {}
  BY DEF AtRest
<1>3. Driver = "PICGraphic" => ~d.late
  BY DEF AtRest
<1>4. Driver = "LEDMatrix" => ~d.lost
  BY DEF AtRest
<1> QED
  BY <1>1, <1>2, <1>3, <1>4

\* The invariant yields the property.
LEMMA ShownIsRight == CanvasInv /\ ShowInv => DisplayRight
<1> SUFFICES ASSUME CanvasInv, ShowInv PROVE DisplayRight
  OBVIOUS
<1>0. Driver \in Mono \union Colour
  BY SceneAssumption DEF CanvasInv, OptionsOK, Drivers, Driver
<1>1. SymbolsShown
  BY DEF ShowInv, SymbolsShown
<1>2. ASSUME AtRest, NEW p \in painted \ (Unshown \union stale) PROVE d.dev[p] = Wanted(p)
  <2>0. /\ p \in painted /\ p \notin stale /\ p \in Screen /\ p \notin Unshown
        /\ Synced(d, painted)
    BY DEF CanvasInv, ShowInv, Shows
  <2>1. CASE Driver = "X11"
    <3>1. X11Shown(d, painted, Spilled, seen)
      BY <2>1 DEF ShowInv
    <3>2. p \notin Spilled /\ seen[p] # NO_COL.v
      BY <2>0, <2>1, UnshownIs
    <3>3. d.exposed = {}
      BY <1>2, <2>1, RestIs
    <3> QED
      <4>1. Wanted(p) = <<seen[p], d.brightness>>
        BY <2>1 DEF Wanted, Mono
      <4> QED
        BY <2>0, <3>1, <3>2, <3>3, <4>1 DEF X11Shown
  <2>2. CASE Driver = "EA232graphic"
    BY <2>0, <2>2, KeptIsWanted DEF ShowInv, Shows
  <2>3. CASE Driver \notin {"X11", "EA232graphic"}
    <3>1. Driver = "LPH7508" => p[1] < L7_Rows
      <4>1. p[1] \in 0 .. DROWS - 1
        BY <2>0, InRect, Sizes DEF Screen
      <4> QED
        BY <2>0, <4>1, UnshownIs, Sizes DEF L7_Rows
    <3>2. d.buf[p] = Wanted(p)
      BY <2>0, <2>3, <3>1, KeptIsWanted DEF ShowInv, Shows
    <3>3. d.dev[p] = d.buf[p]
      <4>1. CASE Driver \in {"LUIse", "D4D", "serdisplib", "G15", "st2205", "MatrixOrbitalGX"}
        BY <2>0, <4>1 DEF Synced, Same
      <4>2. CASE Driver \in {"T6963", "LPH7508", "GLCD2USB"}
        BY <2>0, <4>2 DEF Synced, Same
      <4>3. CASE Driver \in {"PICGraphic", "LEDMatrix"}
        BY <1>2, <2>0, <4>3, RestIs DEF Synced, Same
      <4>4. CASE Driver \in {"dpf"}
        BY <1>2, <2>0, <4>4 DEF Synced, Same
      <4>5. CASE Driver \in {"Image", "picoLCDGraphic", "mdm166a"}
        BY <1>2, <2>0, <4>5, RestIs DEF Synced, Same, Due
      <4>6. CASE Driver = "SamsungSPF"
        <5>1. d.dev # Fill(Screen, Unknown)
          BY <2>0, <4>6, UnshownIs
        <5> QED
          BY <1>2, <2>0, <4>6, <5>1, RestIs DEF Synced, Same
      <4>7. CASE Driver = "vnc"
        BY <2>0, <4>7, UnshownIs DEF Synced
      <4> QED
        BY <1>0, <2>3, <4>1, <4>2, <4>3, <4>4, <4>5, <4>6, <4>7 DEF Mono, Colour
    <3> QED
      BY <3>2, <3>3
  <2> QED
    BY <2>1, <2>2, <2>3
<1> QED
  BY <1>1, <1>2 DEF DisplayRight, DisplayShown

\* It holds when the driver was started.
LEMMA ShowInit == Init => ShowInv
<1> SUFFICES ASSUME Init PROVE ShowInv
  OBVIOUS
<1>1. /\ case \in Cases /\ d = Started(case) /\ painted = {} /\ phase = "start"
      /\ Driver = "LPH7508" => told = d.ctl.symbols
  BY DEF Init
<1>2. /\ Synced(d, {})
      /\ Driver = "mdm166a" => \A p \in Screen : d.dev[p] = 0
      /\ Driver = "X11" => \A p \in Screen : d.buf[p] = NO_COL.v
      /\ Driver = "LPH7508" => CtlOK(d.ctl)
  BY <1>1, SyncedStart
<1>3. Shows(d, painted, stale, seen)
  BY <1>1, <1>2 DEF Shows
<1>4. Driver = "X11" => X11Shown(d, painted, Spilled, seen)
  BY <1>1, <1>2 DEF X11Shown
<1>5. Driver = "LPH7508" => d.ctl.symbols = told
  BY <1>1
<1> QED
  BY <1>1, <1>2, <1>3, <1>4, <1>5 DEF ShowInv

-----------------------------------------------------------------------------
(* The symbols of the LPH7508. *)

\* A symbol is written to its own column, wherever the display was taken to be.
LEMMA PutSymbol ==
  ASSUME NEW ctl, NEW col \in SymbolColumns, NEW val,
         DOMAIN ctl = {"page", "cp", "column", "cc", "symbols"}, DOMAIN ctl.symbols = SymbolColumns,
         col # ctl.cc \/ ctl.column = col,
         NEW o, o = drv_L7_put(ctl, col, val)
  PROVE  /\ DOMAIN o = {"page", "cp", "column", "cc", "symbols"} /\ o.cc = col + 1 /\ o.column = col + 1
         /\ o.symbols = [c \in SymbolColumns |-> IF c = col THEN val ELSE ctl.symbols[c]]
<1> DEFINE p == drv_L7_page(ctl, 8)
           at == IF col # ctl.cc THEN col ELSE p.column
           f == [c \in {at} \cap DOMAIN p.symbols |-> val]
<1>1. o = [p EXCEPT !.symbols = f ++ @, !.cc = at + 1, !.column = at + 1]
  BY DEF drv_L7_put
<1>2. DOMAIN p = DOMAIN ctl /\ p.column = ctl.column /\ p.symbols = ctl.symbols
  BY DEF drv_L7_page
<1> HIDE DEF p
<1>3. at = col
  BY <1>2
<1> HIDE DEF at
<1>4. DOMAIN f = {col} /\ f[col] = val
  BY <1>2, <1>3
<1> HIDE DEF f
<1>5. DOMAIN o = DOMAIN ctl /\ o.cc = col + 1 /\ o.column = col + 1 /\ o.symbols = f ++ ctl.symbols
  BY <1>1, <1>2, <1>3
<1>6. f ++ ctl.symbols = [c \in SymbolColumns |-> IF c = col THEN val ELSE ctl.symbols[c]]
  BY <1>4 DEF ++
<1> QED
  BY <1>5, <1>6

\* What a setting tells the symbols to show.
Told(num, val) == [c \in Range(num) |-> IF c = num[1] \/ Len(num) = 1 THEN val ELSE 0]

\* The first of the columns shows the value, and the others nothing, up to the k-th.
SymbolsSet(num, val, old, k) ==
  [c \in SymbolColumns |-> IF c \in num[1] .. num[1] + k - 1 THEN (IF c = num[1] THEN val ELSE 0) ELSE old[c]]
\* So it is when all of them were written.
LEMMA SymbolSet ==
  ASSUME case \in Cases, Driver = "LPH7508", NEW ctl, CtlOK(ctl), NEW i \in DOMAIN case.symbols, NEW val \in 0 .. 1,
         NEW o, o = drv_L7_symbol(ctl, case.symbols[i], val)
  PROVE  /\ CtlOK(o)
         /\ o.symbols = Told(case.symbols[i], val) ++ ctl.symbols
<1> DEFINE num == case.symbols[i]
           N == Len(num)
           Fields == {"page", "cp", "column", "cc", "symbols"}
           bit(k) == IF Len(num) = 1 THEN val ELSE (val \div <<1, 2, 4, 8>>[k]) % 2
           Is(f) == f = [k \in 0 .. Len(num) |-> IF k = 0 THEN ctl ELSE drv_L7_put(f[k - 1], num[k], bit(k))]
           after == CHOOSE f : Is(f)
<1>0. OptionsOK(case)
  BY SceneAssumption
<1>1. /\ num \in Seq(Nat) /\ N \in 1 .. 4
      /\ \A k \in 1 .. N : num[k] = num[1] + k - 1
      /\ \A j \in DOMAIN case.symbols : case.symbols[j][1] \in Nat /\ case.symbols[j][1] # num[1] + N
      /\ \A j \in DOMAIN case.symbols : num[1] # case.symbols[j][1] + Len(case.symbols[j])
  <2>1. /\ case.symbols \in Seq(Seq(Nat))
        /\ \A j \in DOMAIN case.symbols :
            /\ Len(case.symbols[j]) \in 1 .. 4
            /\ \A k \in DOMAIN case.symbols[j] : case.symbols[j][k] = case.symbols[j][1] + k - 1
            /\ \A l \in DOMAIN case.symbols : case.symbols[l][1] # case.symbols[j][1] + Len(case.symbols[j])
    BY <1>0 DEF OptionsOK, Driver
  <2>2. \A j \in DOMAIN case.symbols : case.symbols[j] \in Seq(Nat)
    BY <2>1
  <2>3. ASSUME NEW j \in DOMAIN case.symbols PROVE case.symbols[j][1] \in Nat
    <3>1. \A s \in Seq(Nat) : Len(s) \in 1 .. 4 => s[1] \in Nat
      OBVIOUS
    <3> QED
      BY <2>1, <2>2, <3>1
  <2>4. DOMAIN num = 1 .. N
    BY <2>2
  <2> QED
    BY <2>1, <2>2, <2>3, <2>4
<1>2. ASSUME NEW k \in 1 .. N PROVE num[k] \in SymbolColumns /\ num[k] \in Nat
  <2>1. num \in Seq(Nat) /\ k \in DOMAIN num
    BY <1>1
  <2>2. num[k] \in Range(num)
    BY <2>1 DEF Range
  <2>3. num[k] \in SymbolColumns
    BY <2>2 DEF SymbolColumns
  <2> HIDE DEF num
  <2> QED
    BY <2>1, <2>3
<1>3. ASSUME NEW k \in 1 .. N PROVE bit(k) = IF k = 1 THEN val ELSE 0
  <2>1. N \in 1 .. 4 /\ k \in 1 .. N
    BY <1>1
  <2>2. bit(k) = IF N = 1 THEN val ELSE (val \div <<1, 2, 4, 8>>[k]) % 2
    OBVIOUS
  <2> HIDE DEF N, num, bit
  <2>3. val = 0 \/ val = 1
    OBVIOUS
  <2>4. k = 1 \/ k = 2 \/ k = 3 \/ k = 4
    BY <2>1
  <2>5. CASE N = 1
    BY <2>1, <2>2, <2>5
  <2>6. CASE N # 1
    BY <2>2, <2>3, <2>4, <2>6
  <2> QED
    BY <2>5, <2>6
<1> HIDE DEF bit
<1>4. \E f : Is(f)
  <2> DEFINE p1 == drv_L7_put(ctl, num[1], bit(1))
             p2 == drv_L7_put(p1, num[2], bit(2))
             p3 == drv_L7_put(p2, num[3], bit(3))
             p4 == drv_L7_put(p3, num[4], bit(4))
             g == [k \in 0 .. N |-> IF k = 0 THEN ctl ELSE IF k = 1 THEN p1 ELSE IF k = 2 THEN p2 ELSE IF k = 3 THEN p3 ELSE p4]
  <2>1. ASSUME NEW k \in 0 .. N PROVE g[k] = IF k = 0 THEN ctl ELSE drv_L7_put(g[k - 1], num[k], bit(k))
    <3>1. k \in 0 .. 4 /\ (k # 0 => k - 1 \in 0 .. N)
      <4>1. N \in 1 .. 4
        BY <1>1
      <4> HIDE DEF N
      <4> QED
        BY <4>1
    <3>2. CASE k = 0
      BY <3>2
    <3>3. CASE k = 1
      BY <3>1, <3>3
    <3>4. CASE k = 2
      BY <3>1, <3>4
    <3>5. CASE k = 3
      BY <3>1, <3>5
    <3>6. CASE k = 4
      BY <3>1, <3>6
    <3> QED
      BY <3>1, <3>2, <3>3, <3>4, <3>5, <3>6
  <2>2. g = [k \in 0 .. N |-> g[k]]
    OBVIOUS
  <2> HIDE DEF g
  <2>3. Is(g)
    BY <2>1, <2>2
  <2> QED
    BY <2>3
<1>5. Is(after)
  BY <1>4
<1> HIDE DEF after
<1>6. after[0] = ctl /\ \A k \in 1 .. N : after[k] = drv_L7_put(after[k - 1], num[k], bit(k))
  <2>1. N \in 1 .. 4 /\ after = [k \in 0 .. N |-> IF k = 0 THEN ctl ELSE drv_L7_put(after[k - 1], num[k], bit(k))]
    BY <1>1, <1>5
  <2> HIDE DEF N, num
  <2>2. 0 \in 0 .. N /\ \A k \in 1 .. N : k \in 0 .. N /\ k # 0
    BY <2>1
  <2>3. ASSUME NEW k \in 0 .. N PROVE after[k] = IF k = 0 THEN ctl ELSE drv_L7_put(after[k - 1], num[k], bit(k))
    BY <2>1
  <2>4. after[0] = ctl
    BY <2>2, <2>3
  <2>5. ASSUME NEW k \in 1 .. N PROVE after[k] = drv_L7_put(after[k - 1], num[k], bit(k))
    BY <2>2, <2>3
  <2> QED
    BY <2>4, <2>5
<1>7. o = after[N]
  BY DEF drv_L7_symbol, after, bit
<1> HIDE DEF num, N
<1> DEFINE Done(k, c) == /\ DOMAIN c = Fields /\ c.cc = num[1] + k /\ c.column = num[1] + k
                         /\ c.symbols = SymbolsSet(num, val, ctl.symbols, k)
<1>8. Done(1, after[1])
  <2>1. 1 \in 1 .. N /\ num[1] \in Nat
    BY <1>1, <1>2
  <2>2. num[1] # ctl.cc
    BY <1>1, <2>1 DEF CtlOK
  <2>3. after[1] = drv_L7_put(ctl, num[1], val)
    BY <1>3, <1>6, <2>1
  <2>4. /\ DOMAIN after[1] = Fields /\ after[1].cc = num[1] + 1 /\ after[1].column = num[1] + 1
        /\ after[1].symbols = [c \in SymbolColumns |-> IF c = num[1] THEN val ELSE ctl.symbols[c]]
    BY <1>2, <2>1, <2>2, <2>3, PutSymbol DEF CtlOK
  <2>5. \A c : c \in num[1] .. num[1] + 1 - 1 <=> c = num[1]
    BY <2>1
  <2>6. SymbolsSet(num, val, ctl.symbols, 1) = [c \in SymbolColumns |-> IF c = num[1] THEN val ELSE ctl.symbols[c]]
    BY <2>5 DEF SymbolsSet
  <2> QED
    BY <2>4, <2>6
<1>9. ASSUME NEW k \in 2 .. N, Done(k - 1, after[k - 1]) PROVE Done(k, after[k])
  <2>1. k \in 1 .. N /\ 1 \in 1 .. N /\ N \in Nat /\ num[k] = num[1] + k - 1 /\ num[1] \in Nat /\ num[k] \in Nat
    BY <1>1, <1>2
  <2> DEFINE c == after[k - 1]
  <2>2. after[k] = drv_L7_put(c, num[k], 0)
    BY <1>3, <1>6, <2>1
  <2>3. c.column = num[k] /\ DOMAIN c = Fields /\ DOMAIN c.symbols = SymbolColumns
    BY <1>9, <2>1 DEF SymbolsSet
  <2> HIDE DEF c
  <2>4. /\ DOMAIN after[k] = Fields /\ after[k].cc = num[k] + 1 /\ after[k].column = num[k] + 1
        /\ after[k].symbols = [x \in SymbolColumns |-> IF x = num[k] THEN 0 ELSE c.symbols[x]]
    BY <1>2, <2>1, <2>2, <2>3, PutSymbol
  <2>5. c.symbols = SymbolsSet(num, val, ctl.symbols, k - 1)
    BY <1>9 DEF c
  <2>6. /\ \A x : x \in num[1] .. num[1] + k - 1 <=> x \in num[1] .. num[1] + (k - 1) - 1 \/ x = num[k]
        /\ num[k] # num[1]
    BY <2>1
  <2>7. [x \in SymbolColumns |-> IF x = num[k] THEN 0 ELSE c.symbols[x]] = SymbolsSet(num, val, ctl.symbols, k)
    BY <2>5, <2>6 DEF SymbolsSet
  <2> QED
    BY <2>1, <2>4, <2>7
<1> HIDE DEF Done
<1>10. Done(N, after[N])
  <2>1. N = 1 \/ N = 2 \/ N = 3 \/ N = 4
    BY <1>1
  <2>2. CASE N = 1
    BY <1>8, <2>2
  <2>3. CASE N = 2
    BY <1>8, <1>9, <2>3
  <2>4. CASE N = 3
    <3>1. Done(2, after[2])
      BY <1>8, <1>9, <2>4
    <3> QED
      BY <1>9, <2>4, <3>1
  <2>5. CASE N = 4
    <3>1. Done(2, after[2])
      BY <1>8, <1>9, <2>5
    <3>2. Done(3, after[3])
      BY <1>9, <2>5, <3>1
    <3> QED
      BY <1>9, <2>5, <3>2
  <2> QED
    BY <2>1, <2>2, <2>3, <2>4, <2>5
<1>11. CtlOK(o)
  <2>1. DOMAIN o = Fields /\ DOMAIN o.symbols = SymbolColumns /\ o.cc = num[1] + N
    BY <1>7, <1>10 DEF Done, SymbolsSet
  <2> QED
    BY <2>1 DEF CtlOK, num, N
<1>12. o.symbols = Told(num, val) ++ ctl.symbols
  <2>1. Range(num) = num[1] .. num[1] + N - 1
    <3>1. DOMAIN num = 1 .. N
      BY <1>1 DEF N
    <3>2. ASSUME NEW c \in num[1] .. num[1] + N - 1
          PROVE  c - num[1] + 1 \in 1 .. N /\ num[c - num[1] + 1] = c
      <4>1. num[1] \in Nat /\ N \in Nat
        BY <1>1, <1>2
      <4>2. c - num[1] + 1 \in 1 .. N /\ num[1] + (c - num[1] + 1) - 1 = c
        BY <4>1
      <4>3. \A k \in 1 .. N : num[k] = num[1] + k - 1
        BY <1>1
      <4>4. num[c - num[1] + 1] = num[1] + (c - num[1] + 1) - 1
        BY <4>2, <4>3
      <4> QED
        BY <4>2, <4>4
    <3>3. \A k \in 1 .. N : num[k] \in num[1] .. num[1] + N - 1
      BY <1>1, <1>2
    <3> QED
      BY <3>1, <3>2, <3>3 DEF Range
  <2>2. Range(num) \subseteq SymbolColumns
    BY DEF SymbolColumns, num
  <2>3. DOMAIN ctl.symbols = SymbolColumns
    BY DEF CtlOK
  <2>4. \A c \in Range(num) : N = 1 => c = num[1]
    BY <1>1, <1>2, <2>1
  <2> DEFINE f == Told(num, val)
  <2>5. DOMAIN f = Range(num) /\ \A c \in Range(num) : f[c] = IF c = num[1] THEN val ELSE 0
    BY <2>4 DEF Told, N
  <2> HIDE DEF f
  <2>6. f ++ ctl.symbols = SymbolsSet(num, val, ctl.symbols, N)
    BY <2>1, <2>2, <2>3, <2>5 DEF ++, SymbolsSet
  <2> QED
    BY <1>7, <1>10, <2>6 DEF Done, f
<1> QED
  BY <1>11, <1>12 DEF num, N

-----------------------------------------------------------------------------
(* Its steps. *)

\* What is to be shown of the state after a step.
LEMMA InvAfter ==
  ASSUME case' = case, Shows(d', painted', stale', seen'),
         Driver = "X11" => X11Shown(d', painted', Spilled', seen'),
         Driver = "mdm166a" /\ phase' # "running" => \A p \in Screen : d'.dev[p] = 0,
         Driver = "LPH7508" => d'.ctl.symbols = told'
  PROVE  ShowInv'
<1>1. Driver' = Driver
  BY DEF Driver
<1>2. Shows(d, painted, stale, seen)'
  BY ShowsAfter
<1>3. Driver = "X11" => X11Shown(d, painted, Spilled, seen)'
  BY DEF X11Shown
<1> QED
  BY <1>1, <1>2, <1>3 DEF ShowInv

\* Sending an area: it is in the buffer and, sooner or later, shown; the others are
\* as they were.
LEMMA SentShows ==
  ASSUME CanvasInv, ShowInv, NEW win, WinOK(win), Sent(win), NEW R,
         Driver = "X11" => Spilled \subseteq R /\ \A p \in Screen \ R : Reached(win, p) \/ seen'[p] = seen[p]
  PROVE  /\ Shows(d', painted', stale', seen')
         /\ Driver = "X11" => X11Shown(d', painted', R, seen')
         /\ Driver = "mdm166a" => d'.dev = d.dev
         /\ Driver = "LPH7508" => d'.ctl.symbols = d.ctl.symbols
<1> DEFINE area == IF Visible(win) THEN Win(win) ELSE {}
<1>1. /\ d' \in IF area = {} THEN {d} ELSE RealBlit(d, seen', win)
      /\ painted' = painted \union area
      /\ stale' = (stale \union {p \in Screen : seen'[p] # seen[p]}) \ area
  BY DEF Sent
<1>2. /\ case \in Cases /\ painted \subseteq Screen /\ Win(win) \subseteq Screen
      /\ Synced(d, painted) /\ (Driver = "LPH7508" => CtlOK(d.ctl))
  BY DEF CanvasInv, ShowInv, Shows, WinOK
<1>3. \A p \in (painted' \ stale') : p \in area \/ (p \in painted \ stale /\ p \in Screen /\ seen'[p] = seen[p])
  BY <1>1, <1>2
<1>4. CASE area = {}
  <2>1. d' = d /\ painted' = painted /\ \A p \in painted' \ stale' : p \in painted \ stale /\ seen'[p] = seen[p]
    BY <1>1, <1>3, <1>4
  <2>2. Shows(d', painted', stale', seen')
    BY <1>2, <2>1 DEF ShowInv, Shows
  <2>3. Driver = "X11" => X11Shown(d', painted', R, seen')
    <3>1. \A p : ~Reached(win, p)
      BY <1>4 DEF Reached
    <3> QED
      BY <2>1, <3>1 DEF ShowInv, X11Shown
  <2> QED
    BY <2>1, <2>2, <2>3
<1>5. CASE area # {}
  <2>1. Visible(win) /\ area = Win(win) /\ d' \in RealBlit(d, seen', win) /\ painted' = painted \union Win(win)
    BY <1>1, <1>5
  <2> HIDE DEF area
  <2>2. CASE Driver = "X11"
    <3>1. /\ X11Shown(d, painted, Spilled, seen) /\ Spilled \subseteq R
          /\ \A p \in Screen \ R : p \in Win(win) \/ seen'[p] = seen[p]
      BY <2>2 DEF ShowInv, Reached
    <3>2. BlitDone(d', d, seen', win, painted) /\ X11Shown(d', painted \union Win(win), R, seen')
      BY <1>2, <2>1, <2>2, <3>1, X11BlitShows
    <3> QED
      BY <2>1, <2>2, <3>2 DEF BlitDone, Shows
  <2>3. CASE Driver # "X11"
    <3>1. /\ BlitDone(d', d, seen', win, painted)
          /\ Driver = "LPH7508" => CtlOK(d'.ctl) /\ d'.ctl.symbols = d.ctl.symbols
          /\ Driver = "EA232graphic" =>
               \A p \in Screen : d'.dev[p] = IF p \in Win(win) THEN Kept(seen'[p]) ELSE d.dev[p]
          /\ Driver = "mdm166a" => d'.dev = d.dev
      BY <1>2, <2>1, <2>3, BlitShows
    <3>2. ASSUME Driver # "EA232graphic", NEW p \in painted' \ stale', Driver = "LPH7508" => p[1] < L7_Rows
          PROVE  d'.buf[p] = Kept(seen'[p])
      <4>1. p \in Screen
        BY <1>2, <2>1
      <4>2. d'.buf[p] = IF p \in Win(win) THEN Kept(seen'[p]) ELSE d.buf[p]
        BY <3>1, <3>2, <4>1 DEF BlitDone, IsPut
      <4>3. p \in Win(win) \/ (p \in painted \ stale /\ seen'[p] = seen[p])
        BY <1>3, <2>1
      <4> QED
        BY <2>3, <3>2, <4>2, <4>3 DEF ShowInv, Shows
    <3>3. ASSUME Driver = "EA232graphic", NEW p \in painted' \ stale'
          PROVE  d'.dev[p] = Kept(seen'[p])
      <4>1. p \in Screen
        BY <1>2, <2>1
      <4>2. d'.dev[p] = IF p \in Win(win) THEN Kept(seen'[p]) ELSE d.dev[p]
        BY <3>1, <3>3, <4>1
      <4>3. p \in Win(win) \/ (p \in painted \ stale /\ seen'[p] = seen[p])
        BY <1>3, <2>1
      <4> QED
        BY <3>3, <4>2, <4>3 DEF ShowInv, Shows
    <3> QED
      BY <2>1, <2>3, <3>1, <3>2, <3>3 DEF Shows, BlitDone
  <2> QED
    BY <2>2, <2>3
<1> QED
  BY <1>4, <1>5

\* Nothing is spilled before a round widget is drawn.
LEMMA NothingSpilled ==
  ASSUME \A i \in DOMAIN Widgets : last[i] = <<>>
  PROVE  Spilled = {}
  BY DEF Spilled, RoundDrawn

\* What is not drawn on stays as it is seen.
LEMMA SeenKept ==
  ASSUME CanvasInv, NEW W, NEW out, Drawn(cv, W, out), cv' = out.cv, seen' = Image(cv'), NEW p \in Screen, seen'[p] # seen[p]
  PROVE  p \in Footprint(W, cv'.cols) /\ (Sends(cv, out) => Reached(out.win, p))
<1>1. CanvasOK(cv) /\ CanvasOK(cv') /\ seen = Image(cv)
  BY DEF CanvasInv, Drawn
<1>2. p \in Pixels(cv) \cap Pixels(cv')
  BY <1>1, ScreenIn
<1>3. seen[p] = blend(cv, case.inverted, p) /\ seen'[p] = blend(cv', case.inverted, p)
  BY <1>1 DEF Image, rgb
<1>4. \E l \in Layers : cv'.fb[l][p] # cv.fb[l][p]
  BY <1>1, <1>2, <1>3, BlendAlike
<1>5. p \in Footprint(W, cv'.cols)
  BY <1>2, <1>4 DEF Drawn
<1> QED
  BY <1>4, <1>5 DEF Sends

\* The greeting is a text that is sent in full.
LEMMA GreetShows == CanvasInv /\ ShowInv /\ Greet => ShowInv'
<1> SUFFICES ASSUME CanvasInv, ShowInv, Greet PROVE ShowInv'
  OBVIOUS
<1> DEFINE out == render(cv, Greeting, case.greeting)
<1>1. /\ phase = "start" /\ phase' = "greeting" /\ Shown(out)
      /\ case' = case /\ last' = last /\ Widgets' = Widgets /\ told' = told
  BY DEF Greet, Widgets
<1>2. Drawn(cv, Greeting, out) /\ Sends(cv, out)
  BY GreetingOK, TextDrawn DEF CanvasInv, ContentOK
<1> HIDE DEF out
<1>3. cv' = out.cv /\ seen' = Image(cv') /\ Sent(out.win) /\ WinOK(out.win)
  BY <1>1, <1>2 DEF Shown, Drawn
<1>4. \A i \in DOMAIN Widgets : last[i] = <<>>
  BY <1>1 DEF CanvasInv
<1>5. Spilled = {} /\ Spilled' = {}
  <2>1. Spilled = {}
    BY <1>4, NothingSpilled
  <2>2. Spilled' = {}
    BY <1>1, <1>4 DEF Spilled, RoundDrawn
  <2> QED
    BY <2>1, <2>2
<1>6. \A p \in Screen : Reached(out.win, p) \/ seen'[p] = seen[p]
  BY <1>2, <1>3, SeenKept
<1>7. /\ Shows(d', painted', stale', seen')
      /\ Driver = "X11" => X11Shown(d', painted', {}, seen')
      /\ Driver = "mdm166a" => d'.dev = d.dev
      /\ Driver = "LPH7508" => d'.ctl.symbols = d.ctl.symbols
  BY <1>3, <1>5, <1>6, SentShows
<1> QED
  BY <1>1, <1>5, <1>7, InvAfter DEF ShowInv

\* Clearing sends the whole canvas.
LEMMA ClearShows == CanvasInv /\ ShowInv /\ Clear => ShowInv'
<1> SUFFICES ASSUME CanvasInv, ShowInv, Clear PROVE ShowInv'
  OBVIOUS
<1> DEFINE win == blit(0, 0, cv.rows, cv.cols)
<1>1. /\ phase # "running" /\ Shown(Painted(Blank(cv.rows, cv.cols), win))
      /\ case' = case /\ last' = last /\ Widgets' = Widgets /\ told' = told /\ Driver # "mdm166a"
  BY DEF Clear, Widgets, ClearsItself
<1>2. cv.rows \in Nat /\ cv.cols \in Nat
  BY DEF CanvasInv, CanvasOK
<1>3. WinOK(win) /\ \A p \in Screen : Reached(win, p)
  <2>1. Screen \subseteq Rect(0, 0, cv.rows, cv.cols)
    BY ScreenIn DEF CanvasInv, Pixels
  <2> QED
    BY <1>2, <2>1, BlittedOK
<1> HIDE DEF win
<1>4. Sent(win)
  BY <1>1 DEF Shown, Painted
<1>5. \A i \in DOMAIN Widgets : last[i] = <<>>
  BY <1>1 DEF CanvasInv
<1>6. Spilled = {} /\ Spilled' = {}
  <2>1. Spilled = {}
    BY <1>5, NothingSpilled
  <2>2. Spilled' = {}
    BY <1>1, <1>5 DEF Spilled, RoundDrawn
  <2> QED
    BY <2>1, <2>2
<1>7. /\ Shows(d', painted', stale', seen')
      /\ Driver = "X11" => X11Shown(d', painted', {}, seen')
      /\ Driver = "LPH7508" => d'.ctl.symbols = d.ctl.symbols
  BY <1>3, <1>4, <1>6, SentShows
<1> QED
  BY <1>1, <1>6, <1>7, InvAfter DEF ShowInv

\* Two drivers clear their display: that of the MDM166A, whose buffer waits for its
\* timer, was still dark.
LEMMA ClearDisplayShows == CanvasInv /\ ShowInv /\ ClearDisplay => ShowInv'
<1> SUFFICES ASSUME CanvasInv, ShowInv, ClearDisplay PROVE ShowInv'
  OBVIOUS
<1>1. /\ phase = "greeting" /\ phase' = "running" /\ painted' = {} /\ case' = case /\ told' = told
      /\ Driver \in {"mdm166a", "picoLCDGraphic"}
      /\ d' = [d EXCEPT !.dev = Fill(Screen, 0)]
  BY DEF ClearDisplay, ClearsItself, drv_MDM166A_clear, drv_pLG_clear
<1>2. DevOK(d) /\ Synced(d, painted)
  BY DEF CanvasInv, ShowInv, Shows
<1>3. Update(d', d, {"dev"}) /\ DOMAIN d'.dev = Screen /\ \A p \in Screen : d'.dev[p] = 0
  BY <1>1, <1>2 DEF DevOK, Fill, Update
<1>4. /\ DOMAIN d' = DOMAIN d /\ d'.buf = d.buf /\ d'.sent = d.sent /\ d'.dirty = d.dirty
      /\ Driver = "mdm166a" => d'.minX = d.minX /\ d'.maxX = d.maxX
      /\ Driver = "picoLCDGraphic" => d'.update = d.update
  BY <1>2, <1>3 DEF Update, Synced, DevOK
<1>5. DevOK(d')
  BY <1>2, <1>3, <1>4 DEF DevOK
<1>6. Synced(d', {})
  <2>1. CASE Driver = "mdm166a"
    <3>1. \A p \in Screen : d.dev[p] = 0
      BY <1>1, <2>1 DEF ShowInv
    <3>2. \A p \in Screen : d'.dev[p] = d'.buf[p] \/ Due(d', p)
      BY <1>2, <1>3, <1>4, <2>1, <3>1 DEF Synced, Due
    <3> QED
      BY <1>2, <1>4, <1>5, <2>1, <3>2 DEF Synced
  <2>2. CASE Driver = "picoLCDGraphic"
    BY <1>2, <1>4, <1>5, <2>2 DEF Synced, Same
  <2> QED
    BY <1>1, <2>1, <2>2
<1>7. Shows(d', painted', stale', seen')
  BY <1>1, <1>6 DEF Shows
<1> QED
  BY <1>1, <1>7, InvAfter

\* A draw: what is not sent is of a round widget, and is taken to be spilled.
LEMMA DrawShows == CanvasInv /\ ShowInv /\ Draw => ShowInv'
<1> SUFFICES ASSUME CanvasInv, ShowInv, Draw PROVE ShowInv'
  OBVIOUS
<1>1. PICK i \in DOMAIN Widgets : \E content \in Widgets[i].contents :
        /\ Shown(DrawWidget(cv, Widgets[i].widget, content))
        /\ last' = [last EXCEPT ![i] = <<content>>]
  BY DEF Draw
<1>2. PICK content \in Widgets[i].contents :
        /\ Shown(DrawWidget(cv, Widgets[i].widget, content))
        /\ last' = [last EXCEPT ![i] = <<content>>]
  BY <1>1
<1>3. phase = "running" /\ phase' = phase /\ case' = case /\ told' = told /\ Widgets' = Widgets
  BY DEF Draw, Widgets
<1> DEFINE W == Widgets[i].widget
           out == DrawWidget(cv, W, content)
<1>4. WidgetOK(W) /\ ContentOK(W, content)
  BY WidgetsOK DEF CanvasInv
<1>5. Drawn(cv, W, out) /\ (W.class \notin {"arc", "ring"} => Sends(cv, out))
  BY <1>4, WidgetDrawn DEF CanvasInv
<1>6. Shown(out)
  BY <1>2
<1> HIDE DEF out
<1>7. cv' = out.cv /\ seen' = Image(cv') /\ Sent(out.win) /\ WinOK(out.win)
  BY <1>5, <1>6 DEF Shown, Drawn
<1>8. /\ last'[i] = <<content>> /\ \A j \in DOMAIN Widgets : j # i => last'[j] = last[j]
  BY <1>2 DEF CanvasInv
<1>9. RoundDrawn \subseteq RoundDrawn' /\ (W.class \in {"arc", "ring"} => i \in RoundDrawn')
  <2>1. last'[i] # <<>>
    BY <1>8
  <2>2. \A j \in DOMAIN Widgets : last[j] # <<>> => last'[j] # <<>>
    BY <1>8, <2>1
  <2>3. RoundDrawn' = {j \in DOMAIN Widgets : Widgets[j].widget.class \in {"arc", "ring"} /\ last'[j] # <<>>}
    BY <1>3 DEF RoundDrawn
  <2>4. RoundDrawn \subseteq RoundDrawn'
    BY <2>2, <2>3 DEF RoundDrawn
  <2>5. W.class \in {"arc", "ring"} => i \in RoundDrawn'
    BY <2>1, <2>3
  <2> QED
    BY <2>4, <2>5
<1>10. \A j \in RoundDrawn : Footprint(Widgets[j].widget, cv.cols) = Footprint(Widgets[j].widget, cv'.cols)
  <2> SUFFICES ASSUME NEW V, V.class \in {"arc", "ring"}, NEW c1, NEW c2 PROVE Footprint(V, c1) = Footprint(V, c2)
    BY DEF RoundDrawn
  <2>1. V.class \notin {"text", "icon", "bar", "image", "graph"}
    OBVIOUS
  <2> QED
    BY <2>1 DEF Footprint
<1>11. Spilled \subseteq Spilled'
  BY <1>3, <1>9, <1>10 DEF Spilled
<1>12. ASSUME NEW p \in Screen \ Spilled' PROVE Reached(out.win, p) \/ seen'[p] = seen[p]
  <2>1. SUFFICES ASSUME seen'[p] # seen[p] PROVE Reached(out.win, p)
    OBVIOUS
  <2>2. p \in Footprint(W, cv'.cols) /\ (Sends(cv, out) => Reached(out.win, p))
    <3> HIDE DEF W
    <3> QED
      BY <1>5, <1>7, <2>1, SeenKept
  <2>3. W.class \notin {"arc", "ring"}
    BY <1>3, <1>9, <2>2 DEF Spilled
  <2> QED
    BY <1>5, <2>2, <2>3
<1>13. /\ Shows(d', painted', stale', seen')
       /\ Driver = "X11" => X11Shown(d', painted', Spilled', seen')
       /\ Driver = "LPH7508" => d'.ctl.symbols = d.ctl.symbols
  BY <1>7, <1>11, <1>12, SentShows
<1> QED
  BY <1>3, <1>13, InvAfter DEF ShowInv

\* The timers: what they send is the buffer.
LEMMA FlushShows ==
  ASSUME CanvasInv, ShowInv, Driver \in {"mdm166a", "SamsungSPF", "Image", "picoLCDGraphic", "PICGraphic"},
         NEW o, o = Flushed
  PROVE  Synced(o, painted) /\ o.buf = d.buf
<1>1. DevOK(d) /\ Synced(d, painted) /\ painted \subseteq Screen
  BY DEF CanvasInv, ShowInv, Shows
<1>2. CASE Driver = "PICGraphic"
  <2>1. o = [d EXCEPT !.delayDone = TRUE]
    BY <1>2 DEF Flushed, drv_PICGraphic_delay
  <2>2. /\ DOMAIN o = DOMAIN d /\ o.buf = d.buf /\ o.dev = d.dev /\ o.sent = d.sent /\ o.late = d.late
        /\ o.delayDone = TRUE
    BY <1>1, <1>2, <2>1 DEF Synced, DevOK
  <2> QED
    BY <1>1, <1>2, <2>2 DEF Synced, Same, DevOK
<1>3. CASE Driver \in {"SamsungSPF", "Image", "picoLCDGraphic"}
  <2> DEFINE s == Send(d, Screen)
  <2>1. o = d \/ o = [s EXCEPT !.dirty = FALSE]
    <3>1. Driver = "SamsungSPF" => o = drv_SamsungSPF_timer(d)
      BY DEF Flushed
    <3>2. Driver = "Image" => o = drv_IMG_timer(d)
      BY DEF Flushed
    <3>3. Driver = "picoLCDGraphic" => o = drv_pLG_update_img(d)
      BY DEF Flushed
    <3> QED
      BY <1>3, <3>1, <3>2, <3>3 DEF drv_SamsungSPF_timer, drv_IMG_timer, drv_pLG_update_img
  <2>2. CASE o = d
    BY <1>1, <2>2
  <2>3. CASE o = [s EXCEPT !.dirty = FALSE]
    <3>1. Update(s, d, {"dev"}) /\ DevOK(s) /\ \A p \in Screen : s.dev[p] = d.buf[p]
      BY <1>1, SendIs
    <3> HIDE DEF s
    <3>2. /\ DOMAIN o = DOMAIN d /\ o.buf = d.buf /\ o.sent = d.sent /\ o.dev = s.dev /\ o.dirty = FALSE
          /\ Driver = "picoLCDGraphic" => o.update = d.update
      BY <1>1, <1>3, <2>3, <3>1 DEF Update, Synced, DevOK
    <3>3. DevOK(o) /\ \A p \in Screen : o.dev[p] = o.buf[p]
      BY <1>1, <3>1, <3>2 DEF DevOK
    <3> QED
      BY <1>1, <1>3, <3>2, <3>3 DEF Synced, Same
  <2> QED
    BY <2>1, <2>2, <2>3
<1>4. CASE Driver = "mdm166a"
  <2>1. o = drv_MDM166A_Flush(d)
    BY <1>4 DEF Flushed
  <2>2. CASE ~d.dirty
    <3>1. o = d
      BY <2>1, <2>2 DEF drv_MDM166A_Flush
    <3> QED
      BY <1>1, <3>1
  <2>3. CASE d.dirty
    <3> DEFINE C == {p \in Screen : d.minX <= p[2] /\ p[2] < d.maxX}
               s == Send(d, C)
    <3>1. o = [s EXCEPT !.dirty = FALSE]
      BY <2>1, <2>3 DEF drv_MDM166A_Flush
    <3>2. C \subseteq Screen /\ \A p \in Screen : Due(d, p) => p \in C
      BY DEF Due
    <3> HIDE DEF C
    <3>3. Update(s, d, {"dev"}) /\ DevOK(s) /\ \A p \in Screen : s.dev[p] = IF p \in C THEN d.buf[p] ELSE d.dev[p]
      BY <1>1, <3>2, SendIs
    <3> HIDE DEF s
    <3>4. /\ DOMAIN o = DOMAIN d /\ o.buf = d.buf /\ o.sent = d.sent /\ o.dev = s.dev /\ o.dirty = FALSE
          /\ o.minX = d.minX /\ o.maxX = d.maxX
      BY <1>1, <1>4, <3>1, <3>3 DEF Update, Synced, DevOK
    <3>5. \A p \in Screen : o.dev[p] = o.buf[p]
      BY <1>1, <1>4, <3>2, <3>3, <3>4 DEF Synced
    <3>6. DevOK(o)
      BY <1>1, <3>3, <3>4 DEF DevOK
    <3>7. /\ {"sent", "late", "dirty", "minX", "maxX"} \subseteq DOMAIN o /\ DOMAIN o.sent = Screen
          /\ {o.minX, o.maxX} \subseteq Nat /\ o.dirty \in BOOLEAN
      BY <1>1, <1>4, <3>4 DEF Synced
    <3>8. Synced(o, painted)
      BY <1>4, <3>5, <3>6, <3>7 DEF Synced
    <3> QED
      BY <3>4, <3>8
  <2> QED
    BY <2>2, <2>3
<1> QED
  BY <1>2, <1>3, <1>4
\* The timer of X11 shows what is exposed, the others what waits.
LEMMA TimerShows == CanvasInv /\ ShowInv /\ Timer => ShowInv'
<1> SUFFICES ASSUME CanvasInv, ShowInv, Timer PROVE ShowInv'
  OBVIOUS
<1>1. /\ phase = "running" /\ phase' = phase /\ Flushed # d /\ d' = Flushed
      /\ case' = case /\ cv' = cv /\ seen' = seen /\ painted' = painted /\ stale' = stale /\ last' = last /\ told' = told
  BY DEF Timer
<1>2. Spilled' = Spilled
  BY <1>1 DEF Spilled, RoundDrawn, Widgets
<1>3. CASE Driver \in {"mdm166a", "SamsungSPF", "Image", "picoLCDGraphic", "PICGraphic"}
  <2>1. Synced(d', painted) /\ d'.buf = d.buf
    BY <1>1, <1>3, FlushShows
  <2>2. Shows(d', painted', stale', seen')
    BY <1>1, <1>3, <2>1 DEF ShowInv, Shows
  <2> QED
    BY <1>1, <1>3, <2>2, InvAfter
<1>4. CASE Driver = "X11"
  <2>1. d' = drv_X11_expose(d, seen)
    BY <1>1, <1>4 DEF Flushed
  <2>2. Synced(d', painted) /\ X11Shown(d', painted, Spilled, seen)
    BY <1>4, <2>1, X11ExposeShows DEF ShowInv, Shows
  <2>3. Shows(d', painted', stale', seen')
    BY <1>1, <1>4, <2>2 DEF Shows
  <2> QED
    BY <1>1, <1>2, <1>4, <2>2, <2>3, InvAfter
<1>5. CASE Driver \notin {"mdm166a", "SamsungSPF", "Image", "picoLCDGraphic", "PICGraphic", "X11"}
  <2>1. Driver # "mdm166a" /\ Driver # "SamsungSPF" /\ Driver # "Image" /\ Driver # "picoLCDGraphic"
        /\ Driver # "PICGraphic" /\ Driver # "X11"
    BY <1>5
  <2>2. Flushed = d
    BY <2>1 DEF Flushed
  <2> QED
    BY <1>1, <2>2
<1> QED
  BY <1>3, <1>4, <1>5

\* The symbols, which are no part of the picture.
LEMMA SymbolShows == CanvasInv /\ ShowInv /\ SetSymbol => ShowInv'
<1> SUFFICES ASSUME CanvasInv, ShowInv, SetSymbol PROVE ShowInv'
  OBVIOUS
<1>1. /\ Driver = "LPH7508" /\ phase' = phase /\ case' = case /\ seen' = seen /\ painted' = painted /\ stale' = stale
  BY DEF SetSymbol
<1>2. PICK i \in DOMAIN case.symbols, val \in 0 .. 1 :
        /\ d' = drv_L7_GPO(d, case.symbols[i], val)
        /\ told' = Told(case.symbols[i], val) ++ told
  BY DEF SetSymbol, Told
<1>3. case \in Cases /\ Synced(d, painted) /\ CtlOK(d.ctl) /\ d.ctl.symbols = told
  BY <1>1 DEF CanvasInv, ShowInv, Shows
<1> DEFINE ctl == drv_L7_symbol(d.ctl, case.symbols[i], val)
<1>4. CtlOK(ctl) /\ ctl.symbols = told'
  <2>1. CtlOK(ctl) /\ ctl.symbols = Told(case.symbols[i], val) ++ d.ctl.symbols
    BY <1>1, <1>3, SymbolSet
  <2> HIDE DEF ctl
  <2> QED
    BY <1>2, <1>3, <2>1
<1>5. d' = [d EXCEPT !.ctl = ctl]
  BY <1>2 DEF drv_L7_GPO
<1> HIDE DEF ctl
<1>6. DOMAIN d' = DOMAIN d /\ d'.buf = d.buf /\ d'.dev = d.dev /\ d'.sent = d.sent /\ d'.ctl = ctl
  BY <1>1, <1>3, <1>5 DEF Synced, DevOK
<1>7. Synced(d', painted)
  BY <1>1, <1>3, <1>6 DEF Synced, Same, DevOK
<1>8. Shows(d', painted', stale', seen')
  BY <1>1, <1>4, <1>6, <1>7 DEF ShowInv, Shows
<1> QED
  BY <1>1, <1>4, <1>6, <1>8, InvAfter

\* X11 shows the canvas anew in another brightness.
LEMMA BrightnessShows == CanvasInv /\ ShowInv /\ SetBrightness => ShowInv'
<1> SUFFICES ASSUME CanvasInv, ShowInv, SetBrightness PROVE ShowInv'
  OBVIOUS
<1>1. /\ Driver = "X11" /\ case' = case /\ cv' = cv /\ seen' = seen /\ last' = last
      /\ painted' = IF d'.brightness = d.brightness THEN painted ELSE Screen
  BY DEF SetBrightness
<1>2. PICK b : d' = drv_X11_brightness(d, seen, b)
  BY DEF SetBrightness
<1>3. Spilled' = Spilled
  BY <1>1 DEF Spilled, RoundDrawn, Widgets
<1>4. Synced(d', painted') /\ X11Shown(d', painted', Spilled, seen)
  BY <1>1, <1>2, X11BrightnessShows DEF ShowInv, Shows
<1>5. Shows(d', painted', stale', seen')
  BY <1>1, <1>4 DEF Shows
<1> QED
  BY <1>1, <1>3, <1>4, <1>5, InvAfter

\* The keypad of vnc is shown by the next blit only.
LEMMA KeypadShows == CanvasInv /\ ShowInv /\ SwitchKeypad => ShowInv'
<1> SUFFICES ASSUME CanvasInv, ShowInv, SwitchKeypad PROVE ShowInv'
  OBVIOUS
<1>1. /\ Driver = "vnc" /\ case' = case /\ seen' = seen /\ painted' = painted /\ stale' = stale
      /\ d' = [d EXCEPT !.osd = ~@]
  BY DEF SwitchKeypad
<1>2. Synced(d, painted)
  BY DEF ShowInv, Shows
<1>3. /\ DOMAIN d' = DOMAIN d /\ d'.buf = d.buf /\ d'.dev = d.dev /\ d'.sent = d.sent /\ d'.covered = d.covered
      /\ d'.osd \in BOOLEAN
  BY <1>1, <1>2 DEF Synced, DevOK
<1>4. Synced(d', painted)
  BY <1>1, <1>2, <1>3 DEF Synced, DevOK
<1>5. Shows(d', painted', stale', seen')
  BY <1>1, <1>3, <1>4 DEF ShowInv, Shows
<1> QED
  BY <1>1, <1>5, InvAfter

\* Other steps change nothing of it.
LEMMA IdleShows ==
  ASSUME ShowInv, UNCHANGED <<case, cv, seen, d, painted, stale, last, told>>, phase' \in {phase, "running"}
  PROVE  ShowInv'
<1>1. Spilled' = Spilled /\ Driver' = Driver
  BY DEF Spilled, RoundDrawn, Widgets, Driver
<1>2. Shows(d', painted', stale', seen')
  BY DEF ShowInv
<1> QED
  BY <1>1, <1>2, InvAfter DEF ShowInv

\* Every step keeps it.
LEMMA ShowStep == CanvasInv /\ ShowInv /\ [Next]_vars => ShowInv'
<1> SUFFICES ASSUME CanvasInv, ShowInv, [Next]_vars PROVE ShowInv'
  OBVIOUS
<1>1. CASE Greet
  BY <1>1, GreetShows
<1>2. CASE Clear
  BY <1>2, ClearShows
<1>3. CASE ClearDisplay
  BY <1>3, ClearDisplayShows
<1>4. CASE Quiet
  BY <1>4, IdleShows DEF Quiet
<1>5. CASE Draw
  BY <1>5, DrawShows
<1>6. CASE Timer
  BY <1>6, TimerShows
<1>7. CASE SetSymbol
  BY <1>7, SymbolShows
<1>8. CASE SetBrightness
  BY <1>8, BrightnessShows
<1>9. CASE SwitchKeypad
  BY <1>9, KeypadShows
<1>10. CASE UNCHANGED vars
  BY <1>10, IdleShows DEF vars
<1> QED
  BY <1>1, <1>2, <1>3, <1>4, <1>5, <1>6, <1>7, <1>8, <1>9, <1>10 DEF Next

\* Whatever is drawn, in whatever order, and whatever timers run in between: when
\* nothing is under way, each of the nineteen displays shows the blended layers in
\* every pixel that was sent, but for those that its driver does not show, and the
\* symbols of the LPH7508 show what they were set to last.
THEOREM DisplayIsRight == Spec => []DisplayRight
<1>1. Init => CanvasInv /\ ShowInv
  BY CanvasInit, ShowInit
<1>2. CanvasInv /\ ShowInv /\ [Next]_vars => CanvasInv' /\ ShowInv'
  BY CanvasStep, ShowStep
<1>3. CanvasInv /\ ShowInv => DisplayRight
  BY ShownIsRight
<1> QED
  BY <1>1, <1>2, <1>3, PTL DEF Spec
=============================================================================
