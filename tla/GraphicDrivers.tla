--------------------------- MODULE GraphicDrivers ---------------------------
(* The graphic display drivers: what each does with an area that was painted,
   and what its display shows then.  A driver keeps a frame buffer "buf"; the
   display shows "dev".  The drivers differ in what they send: the area, whole
   frames, bytes that changed, a rectangle around the changes, at once or from
   a timer.  Bytes hold Byte pixels (8 in the code). *)
EXTENDS GraphicDisplay

CONSTANTS
    Byte,           \* pixels of a byte of most displays
    CELL,           \* pixels of a byte of the T6963
    G15Byte,        \* pixels of a byte of the G15; DROWS is no multiple of it
    ShortGap,       \* unchanged bytes that are sent nevertheless (2 or 4)
    MaxRun,         \* bytes of one report of the GLCD2USB (128)
    MaxLate         \* bound: answers of the LEDMatrix that may be under way

ASSUME DriverAssumption ==
    {Byte, CELL, G15Byte, MaxRun} \subseteq Nat \ {0} /\ {ShortGap, MaxLate} \subseteq Nat

Mono == {"LUIse", "EA232graphic", "G15", "GLCD2USB", "LPH7508", "MatrixOrbitalGX",
         "PICGraphic", "T6963", "mdm166a", "picoLCDGraphic"}
Colour == {"D4D", "serdisplib", "st2205", "LEDMatrix", "SamsungSPF", "Image", "X11", "dpf", "vnc"}

Bit(img) == [p \in Screen |-> IF black(img[p]) THEN 1 ELSE 0]
Put(d, img, W) == [d EXCEPT !.buf = [p \in Win(W) |-> img[p]] ++ @]
Send(d, S) == [d EXCEPT !.dev = [p \in S |-> d.buf[p]] ++ @]
Changed(d, img, W) == {p \in Win(W) : d.buf[p] # img[p]}

\* Bytes of vertical pixels, numbered along the pages.
PageByte(p) == p[2] + DCOLS * (p[1] \div Byte)
PageBytes == (DROWS * DCOLS) \div Byte
\* Bytes of the T6963: horizontal pixels, numbered along the rows.
RowByte(p) == (p[1] * DCOLS + p[2]) \div CELL
InBytes(byte(_), S) == {p \in Screen : byte(p) \in S}

-----------------------------------------------------------------------------
(* The buffers and the display after the start of a driver; c holds its options.
   A display that is not cleared shows anything. *)
Unknown == -1
Allocated(buf, dev) ==
    [buf |-> Fill(Screen, buf), sent |-> Fill(Screen, 0), dev |-> Fill(Screen, dev), dirty |-> FALSE, late |-> FALSE]
drv_LUIse_start(c) == Allocated(0, 0)
drv_D4D_start(c) == Allocated(0, NO_COL.v)
drv_SD_start(c) == Allocated(0, Unknown)
drv_EA232graphic_start(c) == [protocol |-> c.protocol] ++ Allocated(0, 0)
drv_G15_start(c) == Allocated(0, 0)
drv_MOGX_start(c) == [invert |-> c.invert] ++ Allocated(0, Unknown)
drv_st2205_start2(c) == Allocated(0, Unknown)
drv_PICGraphic_start2(c) == [delayDone |-> FALSE] ++ Allocated(0, Unknown)
drv_LEDMatrix_start(c) == [late |-> 0, lost |-> FALSE] ++ Allocated(0, Unknown)
drv_T6_start(c) == [dual |-> c.dual] ++ Allocated(0, 0)
drv_L7_clear(d) == [d EXCEPT !.dev = Fill(Screen, 0), !.ctl.cp = (DROWS - 1) \div Byte,
                           !.ctl.page = (DROWS - 1) \div Byte, !.ctl.column = DCOLS]
drv_L7_start(c) ==
    LET reset == [page |-> 0, cp |-> -1, column |-> 0, cc |-> -1,
                  symbols |-> [k \in UNION {Range(c.symbols[i]) : i \in DOMAIN c.symbols} |-> 0]]
    IN drv_L7_clear([ctl |-> reset] ++ Allocated(0, Unknown))
drv_GLCD2USB_start(c) == Allocated(0, 0)
drv_MDM166A_clear(d) == [d EXCEPT !.dev = Fill(Screen, 0)]
drv_MDM166A_start(c) == drv_MDM166A_clear([minX |-> 0, maxX |-> 0] ++ Allocated(0, Unknown))
drv_SamsungSPF_start(c) == Allocated(MaxV \div 2, Unknown)
drv_IMG_start(c) == Allocated(0, 0)
drv_pLG_clear(d) == [d EXCEPT !.dev = Fill(Screen, 0)]
drv_pLG_start(c) == drv_pLG_clear([update |-> c.update] ++ Allocated(0, Unknown))
drv_X11_start(c) == [exposed |-> {}, brightness |-> MaxV] ++ [dev |-> Fill(Screen, <<>>)] ++ Allocated(NO_COL.v, 0)
drv_vnc_start(c) == [osd |-> FALSE, covered |-> {}] ++ Allocated(0, 0)

-----------------------------------------------------------------------------
(* Drivers that send the area, pixel by pixel or packed. *)
drv_LUIse_blit(d, img, W) == Send(Put(d, Bit(img), W), Win(W))
drv_D4D_blit(d, img, W) == Send(Put(d, img, W), Win(W))
drv_SD_blit(d, img, W) == Send(Put(d, img, W), Win(W))

\* Byte and bit of a pixel of the area, for each protocol of the EA displays.
EA232_Code(protocol, W, r, c) ==
    CASE protocol \in {1, 4} -> <<(r \div Byte) * W.w + c, r % Byte>>
      [] protocol = 2 -> <<c \div Byte + ((W.w + Byte - 1) \div Byte) * r, c % Byte>>
      [] protocol = 3 -> <<(c \div Byte) * W.h + r, c % Byte>>

\* The display fills the rectangle from the bits of the command.
EA232_Unpack(protocol, W, bits) ==
    [p \in Win(W) |->
        LET r == p[1] - W.r
            c == p[2] - W.c
            code == CASE protocol \in {1, 4} -> <<(r \div Byte) * W.w + c, r % Byte>>
                      [] protocol = 2 -> <<r * ((W.w + Byte - 1) \div Byte) + c \div Byte, c % Byte>>
                      [] protocol = 3 -> <<(c \div Byte) * W.h + r, c % Byte>>
        IN IF code \in bits THEN 1 ELSE 0]
drv_EA232graphic_blit(d, img, W) ==
    LET bits == {EA232_Code(d.protocol, W, p[1] - W.r, p[2] - W.c) : p \in {q \in Win(W) : black(img[q])}}
    IN [d EXCEPT !.dev = EA232_Unpack(d.protocol, W, bits) ++ @]

-----------------------------------------------------------------------------
(* Drivers that send the whole frame after each change. *)
\* Pages of G15Byte rows; the last one has fewer.
G15_Sent ==
    LET last == (DROWS - 1) \div G15Byte
    IN {p \in Screen : \E k \in 0 .. last : \E j \in 0 .. (IF k = last THEN DROWS - k * G15Byte ELSE G15Byte) - 1 :
            p[1] = k * G15Byte + j}
drv_G15_blit(d, img, W) == Send(Put(d, Bit(img), W), G15_Sent)

\* A frame ends with the byte END; a pixel byte that looks like it, or like the
\* escape, is escaped.  A byte is Byte pixels: its value is their set.
END == {0}
ESC == {0, 1}
Escaped(b) == IF b = END THEN <<ESC, "dc">> ELSE IF b = ESC THEN <<ESC, "dd">> ELSE <<b>>
MOGX_Byte(buf, invert, i) ==
    {k \in 0 .. Byte - 1 : LET x == (i - 1) * Byte + k IN (buf[<<x \div DCOLS, x % DCOLS>>] = 1) # invert}

\* The display takes a frame as far as its first END, and undoes the escapes.
MOGX_Take(s, b) ==
    IF s.done THEN s
    ELSE IF s.esc THEN [s EXCEPT !.esc = FALSE, !.bytes = Append(@, IF b = "dc" THEN END ELSE ESC)]
    ELSE IF b = END THEN [s EXCEPT !.done = TRUE]
    ELSE IF b = ESC THEN [s EXCEPT !.esc = TRUE]
    ELSE [s EXCEPT !.bytes = Append(@, b)]
MOGX_Receive(s, wire) ==
    IF Len(wire) = 1 THEN MOGX_Take(s, wire[1]) ELSE MOGX_Take(MOGX_Take(s, wire[1]), wire[2])
drv_MOGX_update_lcd(d) ==
    LET taken[i \in 0 .. PageBytes] ==
            IF i = 0 THEN [bytes |-> <<>>, esc |-> FALSE, done |-> FALSE]
            ELSE MOGX_Receive(taken[i - 1], Escaped(MOGX_Byte(d.buf, d.invert, i)))
        bytes == MOGX_Take(taken[PageBytes], END).bytes
        shown(p) == LET x == p[1] * DCOLS + p[2] IN (x % Byte) \in bytes[x \div Byte + 1]
    IN IF Len(bytes) < PageBytes THEN d
       ELSE [d EXCEPT !.dev = [p \in Screen |-> IF shown(p) # d.invert THEN 1 ELSE 0]]
drv_MOGX_blit(d, img, W) == drv_MOGX_update_lcd(Put(d, Bit(img), W))

drv_st2205_blit(d, img, W) == Send(Put(d, img, W), Screen)

\* A frame goes out at most once per period of the timer of the driver; an
\* area that comes in between waits for the next one.
drv_PICGraphic_blit(d, img, W) ==
    LET e == Put(d, Bit(img), W)
    IN IF d.delayDone THEN [Send(e, Screen) EXCEPT !.delayDone = FALSE, !.late = FALSE]
       ELSE [e EXCEPT !.late = TRUE]
drv_PICGraphic_delay(d) == [d EXCEPT !.delayDone = TRUE]

\* Frames by UDP, repeated until an answer comes.  The answer may be to an
\* earlier frame, and the driver gives up after some attempts: what can become
\* of a frame is whether it arrived, and how many answers are still to come.
drv_LEDMatrix_blit(d, img, W) ==
    LET e == Put(d, [p \in Screen |-> IF 2 * img[p] >= MaxV THEN MaxV ELSE 0], W)
        arrived(n) == [Send(e, Screen) EXCEPT !.late = n, !.lost = FALSE]
        missed(n) == [e EXCEPT !.late = n, !.lost = TRUE]
    IN IF d.late > 0
       THEN {arrived(n) : n \in {d.late - 1, d.late}} \union {missed(d.late - 1)}
       ELSE {arrived(n) : n \in 0 .. MaxLate} \union {missed(0)}

-----------------------------------------------------------------------------
(* Drivers that send the bytes that changed, joined over short gaps. *)

\* What the loop of the LPH7508 and the T6963 over the bytes lo .. hi sends:
\* runs that start at a byte that differs and end before gap + 1 equal ones; one
\* that reaches the end of the loop has one byte more than those that differ.
DiffRuns(lo, hi, gap, dirty) ==
    LET D == dirty \cap lo .. hi
    IN D \union {k \in lo .. hi : \E i, j \in D : i < k /\ k < j /\ j - i <= gap + 1}
         \union {i + 1 : i \in {k \in D : hi - k <= gap /\ \A j \in D : j <= k}}

\* The T6963 compares one byte behind the area, too.  In a display of two
\* halves the lower one has a memory of its own.
T6_Address(d, r, i) == IF d.dual /\ r >= DROWS \div 2 THEN <<"lower", i>> ELSE <<"upper", i>>
drv_T6_blit(d, img, W) ==
    LET e == Put(d, Bit(img), W)
        total == (DROWS * DCOLS) \div CELL
        dirty == {i \in 0 .. total - 1 : \E p \in InBytes(RowByte, {i}) : e.buf[p] # d.sent[p]}
        run(r) == DiffRuns((r * DCOLS + W.c) \div CELL, (r * DCOLS + W.c + W.w + CELL - 1) \div CELL,
                           ShortGap, dirty)
        bytes == UNION {{T6_Address(d, r, i) : i \in run(r)} : r \in W.r .. W.r + W.h - 1}
        copied == {i \in 0 .. total - 1 : \E h \in {"upper", "lower"} : <<h, i>> \in bytes}
        half(p) == IF d.dual /\ p[1] >= DROWS \div 2 THEN "lower" ELSE "upper"
        seen == {p \in Screen : <<half(p), RowByte(p)>> \in bytes}
    IN [e EXCEPT !.sent = [p \in InBytes(RowByte, copied) |-> e.buf[p]] ++ @,
                 !.dev = [p \in seen |-> e.buf[p]] ++ @]

L7_Rows == DROWS - 1        \* rows the LPH7508 takes from the layout

\* The LPH7508 leaves out the last row; bytes are columns of a page, and each
\* run starts with the page, if it is another one, and the column.
drv_L7_page(ctl, page) == [ctl EXCEPT !.cp = page, !.page = page]
L7_Cell(pg, i) == {p \in Screen : p[1] \div Byte = pg /\ p[2] = i}
L7_Run(d, W, pg) ==
    DiffRuns(W.c, W.c + W.w - 1, ShortGap, {i \in 0 .. DCOLS - 1 : \E p \in L7_Cell(pg, i) : d.buf[p] # d.sent[p]})
drv_L7_blit(d, img, W) ==
    LET taken == {p \in Win(W) : p[1] < L7_Rows}
        e == [d EXCEPT !.buf = [p \in taken |-> Bit(img)[p]] ++ @]
        pages == {pg \in W.r \div Byte .. (W.r + W.h) \div Byte : pg < (DROWS + Byte - 1) \div Byte}
        run(pg) == L7_Run(e, W, pg)
        sent == UNION {UNION {L7_Cell(pg, i) : i \in run(pg)} : pg \in pages}
        busy == {pg \in pages : run(pg) # {}}
        out == [p \in sent |-> e.buf[p]]
    IN IF busy = {} THEN e
       ELSE [e EXCEPT !.ctl = [drv_L7_page(@, Max(busy)) EXCEPT !.column = Max(run(Max(busy))) + 1],
                      !.sent = out ++ @, !.dev = out ++ @]

drv_L7_put_Cached_Bug(ctl, col, val) ==
    LET p == drv_L7_page(ctl, 8)
        at == IF col # ctl.cc THEN col ELSE p.column
    IN [p EXCEPT !.symbols = [c \in {at} \cap DOMAIN @ |-> val] ++ @, !.cc = at, !.column = at]

\* A symbol is a byte of page 8.  The driver remembers the column it expects
\* the display to be at, which a blit does not know of.
drv_L7_put(ctl, col, val) ==
    LET p == drv_L7_page(ctl, 8)
        at == IF col # ctl.cc THEN col ELSE p.column
    IN [p EXCEPT !.symbols = [c \in {at} \cap DOMAIN @ |-> val] ++ @, !.cc = at + 1, !.column = at + 1]
\* A symbol of one column, or the level of battery or signal, of four.
drv_L7_symbol(ctl, num, val) ==
    LET bit(i) == IF Len(num) = 1 THEN val ELSE (val \div <<1, 2, 4, 8>>[i]) % 2
        after[i \in 0 .. Len(num)] == IF i = 0 THEN ctl ELSE drv_L7_put(after[i - 1], num[i], bit(i))
    IN after[Len(num)]
drv_L7_GPO(d, num, val) == [d EXCEPT !.ctl = drv_L7_symbol(@, num, val)]

\* Clean gaps of up to ShortGap bytes in front of a dirty one are sent as well.
GLCD2USB_Dirty(dirty) ==
    dirty \union {k \in 0 .. PageBytes - 1 : \E j \in 0 .. k, i \in dirty :
        /\ k < i /\ i - j <= ShortGap
        /\ j .. i - 1 \cap dirty = {}
        /\ j = 0 \/ j - 1 \in dirty}

\* Reports: an offset and at most MaxRun bytes.  The loop has one under way, or
\* none (of length 0).
GLCD2USB_Next_Last_Bug(dirty, s, i) ==
    LET open == IF i \notin dirty THEN s.run
                ELSE IF s.run[2] = 0 THEN <<i, 1>> ELSE <<s.run[1], s.run[2] + 1>>
    IN IF open[2] > 0 /\ (i \notin dirty \/ open[2] = MaxRun)
       THEN [run |-> <<0, 0>>, out |-> s.out \union {open}] ELSE [s EXCEPT !.run = open]
GLCD2USB_Next(dirty, s, i) ==
    LET open == IF i \notin dirty THEN s.run
                ELSE IF s.run[2] = 0 THEN <<i, 1>> ELSE <<s.run[1], s.run[2] + 1>>
    IN IF open[2] > 0 /\ (i \notin dirty \/ i = PageBytes - 1 \/ open[2] = MaxRun)
       THEN [run |-> <<0, 0>>, out |-> s.out \union {open}] ELSE [s EXCEPT !.run = open]
GLCD2USB_Reports(dirty) ==
    LET after[i \in 0 .. PageBytes] ==
            IF i = 0 THEN [run |-> <<0, 0>>, out |-> {}] ELSE GLCD2USB_Next(dirty, after[i - 1], i - 1)
    IN after[PageBytes].out
drv_GLCD2USB_blit(d, img, W) ==
    LET dirty == {PageByte(p) : p \in Changed(d, Bit(img), W)}
        reports == GLCD2USB_Reports(GLCD2USB_Dirty(dirty))
    IN Send(Put(d, Bit(img), W),
            InBytes(PageByte, UNION {r[1] .. r[1] + r[2] - 1 : r \in reports}))

-----------------------------------------------------------------------------
(* Drivers that send a rectangle around the changes. *)

\* The dpf: the picture is turned if the display is not mounted as it is
\* configured, and all of the display counts as changed at first.
dpf_Place(d, p) ==
    LET f == IF d.flip THEN <<DROWS - 1 - p[1], DCOLS - 1 - p[2]>> ELSE p
        pheight == IF d.rotate90 THEN DCOLS ELSE DROWS
    IN IF d.rotate90 THEN <<pheight - 1 - f[2], f[1]>> ELSE f
drv_dpf_start(c) ==
    LET rotate90 == c.orientation \in (IF c.portrait THEN {0, 2} ELSE {1, 3})
        flip == (~c.portrait /\ rotate90) # (c.orientation > 1)
        e == [rotate90 |-> rotate90, flip |-> flip] ++ Allocated(0, Unknown)
    IN [e EXCEPT !.dirty = {dpf_Place(e, p) : p \in Screen}]
Around(S) == Rect(Min({p[1] : p \in S}), Min({p[2] : p \in S}),
                  Max({p[1] : p \in S}) - Min({p[1] : p \in S}) + 1,
                  Max({p[2] : p \in S}) - Min({p[2] : p \in S}) + 1)
dpf_Dirty(d, img, W) ==
    {dpf_Place(d, p) : p \in Changed(d, img, W)} \union d.dirty
drv_dpf_blit(d, img, W) ==
    LET e == Put(d, img, W)
        dirty == dpf_Dirty(d, img, W)
        out == {p \in Screen : dirty # {} /\ dpf_Place(d, p) \in Around(dirty)}
    IN [Send(e, out) EXCEPT !.dirty = {}]

\* The MDM166A sends the columns from the first to the last one that changed,
\* 250 ms later; the bounds start anew after that.
drv_MDM166A_blit(d, img, W) ==
    LET S == Changed(d, Bit(img), W)
        min == IF d.dirty THEN d.minX ELSE W.w
        max == IF d.dirty THEN d.maxX ELSE 0
    IN [Put(d, Bit(img), W) EXCEPT !.minX = Min({min} \union {p[2] : p \in S}),
            !.maxX = Max({max} \union {p[2] + 1 : p \in S}), !.dirty = @ \/ S # {}]
drv_MDM166A_Flush_Bounds_Bug(d) ==
    IF ~d.dirty \/ d.minX = 0 THEN d
    ELSE [Send(d, {p \in Screen : d.minX <= p[2] /\ p[2] < d.maxX}) EXCEPT !.dirty = FALSE]
drv_MDM166A_Flush(d) ==
    IF ~d.dirty THEN d
    ELSE [Send(d, {p \in Screen : d.minX <= p[2] /\ p[2] < d.maxX}) EXCEPT !.dirty = FALSE]

-----------------------------------------------------------------------------
(* Drivers that note that something changed and send the frame from a timer. *)
drv_SamsungSPF_blit(d, img, W) == [Put(d, img, W) EXCEPT !.dirty = @ \/ Changed(d, img, W) # {}]
drv_SamsungSPF_timer(d) == IF d.dirty THEN [Send(d, Screen) EXCEPT !.dirty = FALSE] ELSE d
drv_IMG_blit(d, img, W) == [Put(d, img, W) EXCEPT !.dirty = @ \/ Changed(d, img, W) # {}]
drv_IMG_timer(d) == IF d.dirty THEN [Send(d, Screen) EXCEPT !.dirty = FALSE] ELSE d

drv_pLG_update_img(d) ==
    IF ~d.dirty /\ d.update > 0 THEN d ELSE [Send(d, Screen) EXCEPT !.dirty = FALSE]
drv_pLG_blit(d, img, W) ==
    LET e == [Put(d, Bit(img), W) EXCEPT !.dirty = TRUE]
    IN IF d.update <= 0 THEN drv_pLG_update_img(e) ELSE e

\* X11: a changed pixel is cleared, the server reports it, and the timer draws
\* what is exposed from the canvas, in a rectangle around all of it and one
\* pixel further to the right and below.
drv_X11_blit(d, img, W) ==
    LET S == Changed(d, img, W)
    IN [Put(d, img, W) EXCEPT !.dev = Fill(S, <<>>) ++ @, !.exposed = @ \union S]
drv_X11_brightness(d, img, brightness) ==
    LET b == Clamp(brightness, 0, MaxV)
    IN IF brightness = -1 \/ d.brightness = b THEN d
       ELSE [drv_X11_blit([d EXCEPT !.dev = Fill(Screen, <<>>), !.buf = Fill(Screen, NO_COL.v)],
                          img, [r |-> 0, c |-> 0, h |-> DROWS, w |-> DCOLS])
             EXCEPT !.brightness = b]
drv_X11_expose(d, img) ==
    LET box == {p \in Screen : \E q \in Around(d.exposed) : p[1] - q[1] \in {0, 1} /\ p[2] - q[2] \in {0, 1}}
    IN IF d.exposed = {} THEN d
       ELSE [d EXCEPT !.dev = [p \in box |-> <<img[p], d.brightness>>] ++ @, !.exposed = {}]

\* vnc: the server has the frame buffer.  While the keypad is shown each blit
\* draws it over the picture; nothing restores what was below it.
Keypad == Screen \cap {<<DROWS - 1, c>> : c \in 0 .. 1}
drv_vnc_blit(d, img, W) ==
    LET e == Send(Put(d, img, W), Win(W))
    IN IF ~d.osd THEN [e EXCEPT !.covered = @ \ Win(W)]
       ELSE [e EXCEPT !.dev = Fill(Keypad, MaxV) ++ @, !.covered = (@ \ Win(W)) \union Keypad]
=============================================================================
