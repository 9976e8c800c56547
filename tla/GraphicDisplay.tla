--------------------------- MODULE GraphicDisplay ---------------------------
(* The layout framebuffer of drv_generic_graphic.c and what the widgets paint
   on it.  A colour has one channel "v" and an alpha value; a glyph, a bitmap
   and a picture are sets or functions of pixels <<y, x>>.  A canvas holds
   every layer; painting returns the new canvas and the area to be sent. *)
EXTENDS Integers, Sequences, FiniteSets, FiniteSetsExt, SequencesExt, Functions, Folds

CONSTANTS
    LAYERS,         \* number of layers, layer 0 in front
    DROWS, DCOLS,   \* size of the display
    XRES, YRES,     \* size of a character
    MaxV,            \* the largest value of a channel (255 in the code)
    FG_COL, BG_COL, BL_COL,  \* default colours
    Font            \* bold or not -> character -> pixels of its glyph

ASSUME GraphicAssumption ==
    /\ {LAYERS, DROWS, DCOLS, XRES, YRES, MaxV} \subseteq Nat \ {0}
    /\ {FG_COL, BG_COL, BL_COL} \subseteq [v : 0 .. MaxV, a : 0 .. MaxV]

\* The function f where it is defined, and g elsewhere.
f ++ g == [x \in DOMAIN f \union DOMAIN g |-> IF x \in DOMAIN f THEN f[x] ELSE g[x]]

NO_COL == [v |-> 0, a |-> 0]
Rect(r, c, h, w) == (r .. r + h - 1) \X (c .. c + w - 1)
Screen == Rect(0, 0, DROWS, DCOLS)
Box(p, h, w) == Rect(p[1], p[2], h, w)
Clamp(x, lo, hi) == IF x < lo THEN lo ELSE IF x > hi THEN hi ELSE x
AtLeast(x, y) == IF x < y THEN y ELSE x

\* A canvas of LROWS x LCOLS pixels in LAYERS layers.
Blank(rows, cols) ==
    [rows |-> rows, cols |-> cols, fb |-> [l \in 0 .. LAYERS - 1 |-> [p \in Rect(0, 0, rows, cols) |-> NO_COL]]]

resizeFB_Exact_Bug(cv, rows, cols) ==
    IF rows <= cv.rows /\ cols <= cv.cols THEN cv
    ELSE [Blank(rows, cols) EXCEPT !.fb = [l \in DOMAIN @ |-> cv.fb[l] ++ @[l]]]

\* The canvas grows with what is painted, and keeps its pixels.
resizeFB(cv, rows, cols) ==
    IF rows <= cv.rows /\ cols <= cv.cols THEN cv
    ELSE LET new == Blank(AtLeast(rows, cv.rows), AtLeast(cols, cv.cols))
         IN [new EXCEPT !.fb = [l \in DOMAIN @ |-> cv.fb[l] ++ @[l]]]

window_Last_Bug(pos, size, max) ==
    IF pos > max \/ pos + size < 0 \/ size < 1 THEN <<0, 0>>
    ELSE LET from == AtLeast(pos, 0)
             to == IF pos + size >= max THEN max - 1 ELSE pos + size
         IN <<from, to - from>>

\* A stretch of positions, cut to 0 .. max.
window(pos, size, max) ==
    IF pos > max \/ pos + size < 0 \/ size < 1 THEN <<0, 0>>
    ELSE LET from == AtLeast(pos, 0)
             to == IF pos + size > max THEN max ELSE pos + size
         IN <<from, to - from>>

\* The rectangle the driver is told to send; none when it is empty.
blit(row, col, height, width) ==
    LET rows == window(row, height, DROWS)
        cols == window(col, width, DCOLS)
    IN [r |-> rows[1], c |-> cols[1], h |-> rows[2], w |-> cols[2]]
Visible(win) == win.h > 0 /\ win.w > 0
Win(win) == Rect(win.r, win.c, win.h, win.w)

FirstOpaque_Rear_Bug(cv, p) ==
    LET opaque == {l \in DOMAIN cv.fb : cv.fb[l][p].a > 0}
    IN IF opaque = {} THEN LAYERS - 1 ELSE Min(opaque)

\* The first layer that covers those behind it.
FirstOpaque(cv, p) ==
    LET opaque == {l \in DOMAIN cv.fb : cv.fb[l][p].a = MaxV}
    IN IF opaque = {} THEN LAYERS - 1 ELSE Min(opaque)

\* A layer over what is behind it.
Over(q, ret) ==
    IF q.a = 0 THEN ret ELSE IF q.a = MaxV THEN q.v
    ELSE (q.v * q.a + ret * (MaxV - q.a)) \div MaxV

\* The colour that is seen: the layers from the first opaque one to the front.
blend(cv, inverted, p) ==
    LET o == FirstOpaque(cv, p)
        ret[k \in 0 .. o + 1] == IF k = 0 THEN BL_COL.v ELSE Over(cv.fb[o + 1 - k][p], ret[k - 1])
    IN IF inverted THEN MaxV - ret[o + 1] ELSE ret[o + 1]

rgb(cv, inverted) == [p \in Screen |-> blend(cv, inverted, p)]
black(v) == 2 * v < MaxV

-----------------------------------------------------------------------------
(* Painting.  "f" gives the new colours of some pixels of a layer. *)
Paint_Front_Bug(cv, layer, f) == [cv EXCEPT !.fb[0] = f ++ @]
Paint(cv, layer, f) == [cv EXCEPT !.fb[layer] = f ++ @]
On(cv, S) == S \cap Rect(0, 0, cv.rows, cv.cols)
Fill(S, colour) == [p \in S |-> colour]
Painted(cv, win) == [cv |-> cv, win |-> win]
Home(W) == IF W.rc THEN <<YRES * W.row, XRES * W.col>> ELSE <<W.row, W.col>>

\* A text; "bell" switches between the normal and the bold font and has no
\* glyph of its own, although it counts for the width.
Bells(txt, i) == {k \in 1 .. i : txt[k] = "bell"}
Glyph(W, txt, i) ==
    LET at == <<Home(W)[1], Home(W)[2] + XRES * (i - 1 - Cardinality(Bells(txt, i)))>>
        bold == W.bold \/ Cardinality(Bells(txt, i)) % 2 = 1
    IN [p \in Box(at, YRES, XRES) |->
          IF <<p[1] - at[1], p[2] - at[2]>> \in Font[bold][txt[i]] THEN W.fg ELSE W.bg]
render(cv, W, txt) ==
    LET at == Home(W)
        width == XRES * Len(txt)
        after[i \in 0 .. Len(txt)] ==
            IF i = 0 THEN resizeFB(cv, at[1] + YRES, at[2] + width)
            ELSE IF txt[i] = "bell" THEN after[i - 1]
            ELSE Paint(after[i - 1], W.layer, Glyph(W, txt, i))
    IN Painted(after[Len(txt)], blit(at[1], at[2], YRES, width))

\* An icon: one of its bitmaps, or (0) the background if it is invisible.
icon_draw(cv, W, map) ==
    LET at == Home(W)
        colour(p) == IF map = 0 THEN BG_COL
                     ELSE IF <<p[1] - at[1], p[2] - at[2]>> \in W.bitmap[map] THEN W.fg ELSE W.bg
    IN Painted(Paint(resizeFB(cv, at[1] + YRES, at[2] + XRES), W.layer,
                     [p \in Box(at, YRES, XRES) |-> colour(p)]),
               blit(at[1], at[2], YRES, XRES))

BarValue_NoClamp_Bug(v, max, rev) == IF rev THEN max - v ELSE v

\* At least one pixel of a bar is filled.
BarValue(v, max, rev) == LET n == Clamp(v, 1, max) IN IF rev THEN max - n ELSE n

\* A bar of two halves; its values are pixels here.  Bars to the west and the
\* north are filled from their far end; a hollow bar has a frame.
bar_draw(cv, W, vals) ==
    LET at == Home(W)
        across == W.dir \in {"east", "west"}
        rev == W.dir \in {"west", "north"}
        max == W.len * (IF across THEN XRES ELSE YRES)
        h == IF across THEN YRES ELSE max
        w == IF across THEN max ELSE XRES
        colour(p) ==
            LET y == p[1] - at[1]
                x == p[2] - at[2]
                n == IF across THEN x ELSE y
                half == IF (IF across THEN y < YRES \div 2 ELSE x < XRES \div 2) THEN 1 ELSE 2
            IN IF W.hollow /\ (y \in {0, h - 1} \/ x \in {0, w - 1}) THEN W.fg
               ELSE IF (n < BarValue(vals[half], max, rev)) # rev THEN W.bar[half] ELSE W.bg
    IN Painted(Paint(resizeFB(cv, at[1] + h, at[2] + w), W.layer, [p \in Box(at, h, w) |-> colour(p)]),
               blit(at[1], at[2], h, w))

\* A picture; <<>> stands for a file that could not be read.
image_draw(cv, W, bitmap) ==
    LET at == Home(W) IN
    IF bitmap = <<>> THEN Painted(cv, blit(0, 0, 0, 0))
    ELSE Painted(Paint(resizeFB(cv, at[1] + W.height, at[2] + W.width), W.layer,
                       [p \in Box(at, W.height, W.width) |->
                          IF W.visible THEN bitmap[p[1] - at[1]][p[2] - at[2]] ELSE BG_COL]),
                 blit(at[1], at[2], W.height, W.width))

\* The pixels of a line (Bresenham), both ends included.
LinePixels(from, to) ==
    LET dx == IF to[2] > from[2] THEN to[2] - from[2] ELSE from[2] - to[2]
        dy == IF to[1] > from[1] THEN to[1] - from[1] ELSE from[1] - to[1]
        sx == IF from[2] < to[2] THEN 1 ELSE -1
        sy == IF from[1] < to[1] THEN 1 ELSE -1
        step(s) ==
            LET right == 2 * s.err > -dy
                down == 2 * s.err < dx
            IN [y |-> s.y + (IF down THEN sy ELSE 0), x |-> s.x + (IF right THEN sx ELSE 0),
                err |-> s.err - (IF right THEN dy ELSE 0) + (IF down THEN dx ELSE 0)]
        walk[i \in 0 .. dx + dy] ==
            IF i = 0 THEN [y |-> from[1], x |-> from[2], err |-> dx - dy]
            ELSE IF <<walk[i - 1].y, walk[i - 1].x>> = to THEN walk[i - 1] ELSE step(walk[i - 1])
    IN {<<walk[i].y, walk[i].x>> : i \in 0 .. dx + dy}

\* The value above a graph, where there is no TrueType font: a block for each digit
\* and for a percent sign.  W.size is the height of a character, 0 if the graph shows
\* no value, W.more what stands behind the whole number; the height of the graph
\* stands for 100 percent.
Abs(x) == IF x < 0 THEN -x ELSE x
Digits(n) == IF n < 10 THEN 1 ELSE IF n < 100 THEN 2 ELSE 3
ValueBlocks(W, area, at, w, value, max) ==
    LET wide == W.size \div 2
        x(k) == at[2] + w - (4 * wide) + 2 + (k - 1) * wide
        marks == IF W.size = 0 \/ max <= 0 THEN 0 ELSE W.more + Digits((100 * Abs(value)) \div max)
    IN {p \in area : \E k \in 1 .. marks :
           x(k) < at[2] + w - wide /\ p[2] - x(k) \in 0 .. (wide - 2) /\ p[1] - at[1] - 2 \in 0 .. (W.size - 3)}

\* A graph of the last values: background, grid, a line through the points, and the
\* last value.  Values are heights 0 .. W.height - 1, limited like the code does.
graph_draw(cv, W, data) ==
    LET at == Home(W)
        h == IF W.rc THEN YRES * W.height ELSE W.height
        w == IF W.rc THEN XRES * W.width ELSE W.width
        area == Box(at, h, w)
        grid == {p \in area : \E i \in 1 .. W.grid : p[1] = at[1] + (h * i) \div (W.grid + 1)}
        n == IF Len(data) < W.points THEN Len(data) ELSE W.points
        step == AtLeast(w \div AtLeast(n, 1), 1)
        x(i) == IF W.leftwards THEN at[2] + w - 1 - (i - 1) * step ELSE at[2] + (i - 1) * step
        point(i) == <<at[1] + h - 1 - Clamp(data[Len(data) - n + i], 0, h - 1),
                      Clamp(x(i), at[2], at[2] + w - 1)>>
        line == IF n < 2 THEN {} ELSE UNION {LinePixels(point(i), point(i + 1)) : i \in 1 .. n - 1}
        text == IF data = <<>> THEN {} ELSE ValueBlocks(W, area, at, w, Last(data), h - 1)
    IN Painted(Paint(resizeFB(cv, at[1] + h, at[2] + w), W.layer,
                     Fill(text, W.textcolour) ++ Fill(line \cap area, W.fg) ++ Fill(grid, W.gridcolour) ++ Fill(area, W.bg)),
               blit(at[1], at[2], h, w))

\* r * cos and r * sin of a multiple of 45 degrees, cut to an integer as the
\* code does; the finer steps of the code fill the arc in between.
Toward0(x, n) == IF x >= 0 THEN x \div n ELSE -((-x) \div n)
Cut(x) == Toward0(x, 10)
Cos10 == <<10, 7, 0, -7, -10, -7, 0, 7>>
Polar(at, r, k) == <<at[1] - Cut(r * Cos10[((k + 6) % 8) + 1]), at[2] + Cut(r * Cos10[(k % 8) + 1])>>
Ring(at, radii, ks) == {Polar(at, r, k) : r \in radii, k \in ks}
Disc(at, radius) ==
    {p \in Box(<<at[1] - radius, at[2] - radius>>, 2 * radius + 1, 2 * radius + 1) :
        (p[1] - at[1]) * (p[1] - at[1]) + (p[2] - at[2]) * (p[2] - at[2]) <= radius * radius}
Radii(W) == LET max == W.diameter \div 2 - 1 IN AtLeast(max - W.thickness + 1, 1) .. max

\* The needle of a gauge: as many steps as the longer side, at each of them a stroke
\* across it, "half" pixels to either side.  n is a / sqrt(square), cut to an integer.
IsCut(n, a, square) == n * a >= 0 /\ n * n * square <= a * a
                      /\ a * a < (Abs(n) + 1) * (Abs(n) + 1) * square
Stroke(dy, dx, half) ==
    {o \in (-half .. half) \X (-half .. half) :
        \E w \in -half .. half : IsCut(o[1], dx * w, dx * dx + dy * dy) /\ IsCut(o[2], -dy * w, dx * dx + dy * dy)}
Needle(from, to, half) ==
    LET dy == to[1] - from[1]
        dx == to[2] - from[2]
        steps == AtLeast(Abs(dx), Abs(dy))
        base(k) == <<from[1] + Toward0(dy * k, steps), from[2] + Toward0(dx * k, steps)>>
    IN IF steps = 0 THEN {}
       ELSE {<<base(k)[1] + o[1], base(k)[2] + o[2]>> : k \in 0 .. steps, o \in Stroke(dy, dx, half)}

\* A gauge over the upper half of a circle; its value is a number of eighths of
\* the full turn, 0 .. 4.  W.needle is the length of the needle, 0 if there is none,
\* W.thick its width; it may spill the square, and so may the dot in the centre.
NeedleLength_Unlimited_Bug(W) == W.needle
NeedleLength(W) == IF W.needle > W.diameter \div 2 - 1 THEN W.diameter \div 2 - 1 ELSE W.needle
Half(W) == W.thick \div 2
Dot(W) == W.thick + 2
arc_draw(cv, W, value) ==
    LET at == Home(W)
        d == W.diameter
        centre == <<at[1] + d \div 2, at[2] + d \div 2>>
        big == resizeFB(cv, at[1] + d, at[2] + d)
        k(i) == IF W.reverse THEN 4 - i ELSE i
        v == Clamp(value, 0, 4)
        back == IF W.background THEN Fill(On(big, Ring(centre, Radii(W), 0 .. 4)), W.bg) ELSE <<>>
        arc == Fill(On(big, Ring(centre, Radii(W), {k(i) : i \in 0 .. v - 1})), W.fg)
        needle == IF W.needle = 0 THEN <<>>
                  ELSE Fill(On(big, Needle(centre, Polar(centre, NeedleLength(W), k(v)), Half(W))), W.fg)
        dot == IF W.needle = 0 THEN <<>> ELSE Fill(On(big, Disc(centre, Dot(W))), W.fg)
        clear == Fill(Box(at, d, d), IF W.background THEN W.bg ELSE NO_COL)
    IN Painted(Paint(big, W.layer, dot ++ needle ++ arc ++ back ++ clear), blit(at[1], at[2], d, d))

\* A ring; a circle with a margin is cleared first, before the canvas grows.
ring_draw(cv, W, value) ==
    LET at == Home(W)
        d == W.diameter
        centre == <<at[1] + d \div 2, at[2] + d \div 2>>
        big == resizeFB(Paint(cv, W.layer, Fill(On(cv, Disc(centre, d \div 2 + W.margin)), NO_COL)),
                        at[1] + d, at[2] + d)
        k(i) == IF W.reverse THEN W.start - i ELSE W.start + i
        v == Clamp(value, 0, 8)
        back == IF W.background THEN Fill(On(big, Ring(centre, Radii(W), 0 .. 7)), W.bg) ELSE <<>>
        ring == IF v = 0 THEN <<>> ELSE Fill(On(big, Ring(centre, Radii(W), {(k(i) + 8) % 8 : i \in 0 .. v})), W.fg)
    IN Painted(Paint(big, W.layer, ring ++ back), blit(at[1], at[2], d + W.margin, d + W.margin))

\* The draw callback of each widget class.
DrawWidget(cv, W, content) ==
    CASE W.class = "text" -> render(cv, W, content)
      [] W.class = "icon" -> icon_draw(cv, W, content)
      [] W.class = "bar" -> bar_draw(cv, W, content)
      [] W.class = "image" -> image_draw(cv, W, content)
      [] W.class = "graph" -> graph_draw(cv, W, content)
      [] W.class = "arc" -> arc_draw(cv, W, content)
      [] W.class = "ring" -> ring_draw(cv, W, content)
=============================================================================
