---------------------------- MODULE TextDisplay -----------------------------
(***************************************************************************)
(* The text display of drv_generic_text.c: widgets draw into the layout    *)
(* buffer, blit() sends what differs from the display buffer, icons and    *)
(* bars share the user-defined characters of the display.                  *)
(*                                                                         *)
(* The program has one thread; a draw runs to its end, so every draw is    *)
(* one action.  Cells are pairs of a row and a column, from 0, where the   *)
(* code computes row * columns + column.  The display itself is external:  *)
(* it keeps the characters it was sent, and the bitmaps of user-defined    *)
(* characters.                                                             *)
(*                                                                         *)
(* A definition whose name ends in _Bug is a faulty variant of the one that  *)
(* follows it.  No module uses it; it shows that a property can fail.      *)
(***************************************************************************)
EXTENDS BarSegments

CONSTANTS
  DROWS, DCOLS,     \* size of the display
  GOTO_COST,        \* bytes of a goto command, -1 if there is none
  INVALIDATE,       \* must cells be sent again after their character changed?
  Single_Segments,  \* bars have one value only
  Texts,            \* text widgets: widget -> [row, col]
  Strings,          \* the strings a text widget may show
  Bars,             \* bar widgets: widget -> [row, col, dir, style, len]
  BarValues,        \* the pairs of pixel values a bar may get
  Icons,            \* icons: icon -> [cell, copies, maps]
  Frames            \* values of an icon's frame expression

Display == (0..(DROWS - 1)) \X (0..(DCOLS - 1))
BarCells(w) ==
  {BarCell(Bars[w].row, Bars[w].col, Bars[w].dir, k) : k \in 0..(Bars[w].len - 1)}
IconCells(i) == {Icons[i].cell} \cup Icons[i].copies

TextCells(w, txt) ==
  {<<Texts[w].row, Texts[w].col + k>> : k \in 0..(Len(txt) - 1)}

Blank == 32
NoMap == -1           \* an icon whose bitmap was never sent
NotAssigned == -1     \* an icon without a character yet
OutOfIcons == -2      \* an icon that did not get one

\* Bars and icons lie within the display; texts may be too long.
ASSUME DisplayAssumption ==
  /\ DROWS \in Nat \ {0} /\ DCOLS \in Nat \ {0}
  /\ GOTO_COST \in Nat \cup {-1}
  /\ INVALIDATE \in BOOLEAN /\ Single_Segments \in BOOLEAN
  /\ \A w \in DOMAIN Texts : Texts[w].row \in Nat /\ Texts[w].col \in Nat
  /\ \A w \in DOMAIN Bars :
       Bars[w].row \in Nat /\ Bars[w].col \in Nat /\ Bars[w].len \in Nat \ {0}
  /\ \A w \in DOMAIN Bars : BarCells(w) \subseteq Display
  /\ \A i \in DOMAIN Icons : IconCells(i) \subseteq Display

\* A bar has one direction.
ASSUME WidgetsAssumption ==
  /\ \A w \in DOMAIN Bars :
       Bars[w].dir \in {{d} : d \in AllDirs} /\ Bars[w].style \in Nat
  /\ \A txt \in Strings : txt \in Seq(Byte)
  /\ BarValues \subseteq Int \X Int
  /\ IsFiniteSet(DOMAIN Icons)
  /\ \A i \in DOMAIN Icons : Icons[i].maps \in Nat
  /\ Frames \subseteq Int

\* No widget draws over a bar, and no text contains a user-defined character.
ASSUME ApartAssumption ==
  /\ \A v, w \in DOMAIN Bars : v # w => BarCells(v) \cap BarCells(w) = {}
  /\ \A w \in DOMAIN Bars, i \in DOMAIN Icons : BarCells(w) \cap IconCells(i) = {}
  /\ \A w \in DOMAIN Bars, t \in DOMAIN Texts, txt \in Strings :
       BarCells(w) \cap TextCells(t, txt) = {}
  /\ \A txt \in Strings : txt \in Seq(Byte \ UserChars)
  /\ Blank \notin UserChars

VARIABLES
  LROWS, LCOLS,  \* size of the layout buffer
  LayoutFB,      \* what the widgets want to be seen
  DisplayFB,     \* what the driver believes the display shows
  BarFB,         \* the bar cells of the layout
  Segment,       \* the segments, the first fSegment of them the driver's
  nSegment,      \* number of segments in use
  icons,         \* icon -> [ascii, curmap, prvmap, visible]
  cgram,         \* bitmaps of the user-defined characters of the display
  screen,        \* cell -> character sent and its bitmap at that time
  left           \* history: cells that packing left without a segment in use,
                 \* and that were not sent since

vars == <<LROWS, LCOLS, LayoutFB, DisplayFB, BarFB, Segment, nSegment,
          icons, cgram, screen, left>>

Complement_Same_Bug(b) == b

\* ~b of a byte: a wrong value, so that blit() sends the cell.
Complement(b) == 255 - b
Layout(rows, cols) == (0..(rows - 1)) \X (0..(cols - 1))
RowMajor(rows, cols) ==
  [n \in 1..(rows * cols) |-> <<(n - 1) \div cols, (n - 1) % cols>>]

\* The bitmap the display has for a code.
Glyph(mem, code) == IF code \in DOMAIN mem THEN mem[code] ELSE <<"font", code>>

TextTypeOK ==
  /\ LROWS \in Nat /\ LROWS >= DROWS
  /\ LCOLS \in Nat /\ LCOLS >= DCOLS
  /\ LayoutFB \in [Layout(LROWS, LCOLS) -> Byte]
  /\ DisplayFB \in [Display -> Byte]
  /\ DOMAIN BarFB = Layout(LROWS, LCOLS)
  /\ \A c \in DOMAIN BarFB : BarFB[c] \in Bar /\ BarFB[c].segment <= Len(Segment)
  /\ \A i \in DOMAIN Segment : Segment[i] \in BarSegment
  /\ nSegment \in Nat /\ nSegment <= Len(Segment) /\ fSegment <= Len(Segment)
  /\ \A i \in DOMAIN Icons :
       /\ icons[i].ascii \in Byte \cup {NotAssigned, OutOfIcons}
       /\ icons[i].curmap \in 0..Icons[i].maps
       /\ icons[i].prvmap \in {NoMap} \cup 0..Icons[i].maps
       /\ icons[i].visible \in BOOLEAN
  /\ DOMAIN cgram \subseteq Byte
  /\ DOMAIN screen = Display
  /\ left \subseteq Display

-----------------------------------------------------------------------------
(***************************************************************************)
(* Frame buffers                                                           *)
(***************************************************************************)
\* drv_generic_text_resizeFB(): the layout after it grew to hold rows by cols.
NewRows(rows, cols) ==
  IF (rows <= LROWS /\ cols <= LCOLS) \/ rows < LROWS THEN LROWS ELSE rows
NewCols(rows, cols) ==
  IF (rows <= LROWS /\ cols <= LCOLS) \/ cols < LCOLS THEN LCOLS ELSE cols
Grown(fb, rows, cols, fill) ==
  [c \in Layout(NewRows(rows, cols), NewCols(rows, cols)) |->
     IF c \in DOMAIN fb THEN fb[c] ELSE fill]

Resize(rows, cols) ==
  /\ LROWS' = NewRows(rows, cols)
  /\ LCOLS' = NewCols(rows, cols)

Sent_OneShort_Bug(lay, disp, row, col, height, width) ==
  {c \in Display \cap DOMAIN lay :
     /\ row <= c[1] /\ c[1] < row + height
     /\ col <= c[2] /\ c[2] < col + width - 1
     /\ disp[c] # lay[c]}

\* The cells of one blit() over a window: those that differ, and those between
\* two of them that are cheaper to send again than to jump over.
Sent(lay, disp, row, col, height, width) ==
  LET window == {c \in Display \cap DOMAIN lay :
                   /\ row <= c[1] /\ c[1] < row + height
                   /\ col <= c[2] /\ c[2] < col + width}
      diff == {c \in window : disp[c] # lay[c]}
      bridged(c) ==
        \E a, b \in diff :
          /\ a[1] = c[1] /\ b[1] = c[1]
          /\ a[2] < c[2] /\ c[2] < b[2]
          /\ b[2] - a[2] - 1 <= GOTO_COST
          /\ \A d \in diff : d[1] = c[1] => d[2] <= a[2] \/ b[2] <= d[2]
  IN  diff \cup {c \in window : bridged(c)}

\* blit(), and what the display makes of real_write().  lost are the cells that
\* were left before.
Blit(lay, disp, mem, lost, row, col, height, width) ==
  LET sent == Sent(lay, disp, row, col, height, width)
  IN  /\ DisplayFB' = [c \in Display |-> IF c \in sent THEN lay[c] ELSE disp[c]]
      /\ screen' = [c \in Display |->
           IF c \in sent THEN [ch |-> lay[c], glyph |-> Glyph(mem, lay[c])]
           ELSE screen[c]]
      /\ left' = lost \ sent

-----------------------------------------------------------------------------
(***************************************************************************)
(* Widgets                                                                 *)
(***************************************************************************)
DrawText(w, txt) ==
  LET row == Texts[w].row
      col == Texts[w].col
      len == Len(txt)
      old == Grown(LayoutFB, row + 1, col + len, Blank)
      lay == [c \in DOMAIN old |->
                IF c[1] = row /\ c[2] \in col..(col + len - 1)
                THEN txt[c[2] - col + 1] ELSE old[c]]
  IN  /\ Resize(row + 1, col + len)
      /\ LayoutFB' = lay
      /\ BarFB' = Grown(BarFB, row + 1, col + len, ClearedBar)
      /\ Blit(lay, DisplayFB, cgram, left, row, col, 1, len)
      /\ UNCHANGED <<Segment, nSegment, icons, cgram>>

\* icon_counter
IconsAssigned == Cardinality({i \in DOMAIN Icons : icons[i].ascii >= 0})

\* The character of an icon, assigned when it is drawn for the first time.
IconChar(icon) ==
  IF icon.ascii # NotAssigned THEN icon.ascii
  ELSE IF IconsAssigned >= ICONS THEN OutOfIcons
  ELSE CHAR0 + CHARS - (IconsAssigned + 1)

\* drv_generic_text_icon_draw() at cell, for the icon as it was updated.
DrawIcon(i, icon, cell) ==
  LET code == IconChar(icon)
      redefine == icon.curmap # icon.prvmap /\ icon.visible
      mem == IF redefine
             THEN [k \in DOMAIN cgram \cup {code} |->
                     IF k = code THEN <<"icon", i, icon.curmap>> ELSE cgram[k]]
             ELSE cgram
      ch == IF icon.visible THEN code ELSE Blank
      lay == [Grown(LayoutFB, cell[1] + 1, cell[2] + 1, Blank) EXCEPT ![cell] = ch]
      disp == IF redefine /\ INVALIDATE
              THEN [DisplayFB EXCEPT ![cell] = Complement(ch)] ELSE DisplayFB
  IN  /\ Resize(cell[1] + 1, cell[2] + 1)
      /\ BarFB' = Grown(BarFB, cell[1] + 1, cell[2] + 1, ClearedBar)
      /\ \/ /\ code = OutOfIcons
            /\ icons' = [icons EXCEPT ![i] = [icon EXCEPT !.ascii = OutOfIcons]]
            /\ LayoutFB' = Grown(LayoutFB, cell[1] + 1, cell[2] + 1, Blank)
            /\ UNCHANGED <<DisplayFB, screen, cgram, left>>
         \/ /\ code # OutOfIcons
            /\ icons' = [icons EXCEPT ![i] =
                 [icon EXCEPT !.ascii = code,
                              !.prvmap = IF redefine THEN icon.curmap ELSE @]]
            /\ cgram' = mem
            /\ LayoutFB' = lay
            /\ Blit(lay, disp, mem, left, cell[1], cell[2], 1, 1)
      /\ UNCHANGED <<Segment, nSegment>>

UpdateIcon_NoWrap_Bug(i, frame, visible) ==
  DrawIcon(i, [icons[i] EXCEPT !.visible = visible, !.curmap = @ + 1], Icons[i].cell)

\* widget_icon_update() of the icon itself: the frame expression selects a
\* bitmap or, when it has no such frame, the next one follows.
UpdateIcon(i, frame, visible) ==
  LET next == IF icons[i].curmap + 1 >= Icons[i].maps THEN 0
              ELSE icons[i].curmap + 1
  IN  DrawIcon(i, [icons[i] EXCEPT
                     !.visible = visible,
                     !.curmap = IF frame \in 0..Icons[i].maps THEN frame ELSE next],
               Icons[i].cell)

\* widget_icon_update() of a widget that shows the same icon elsewhere.
UpdateCopy(i, cell) ==
  /\ icons[i].ascii # NotAssigned
  /\ DrawIcon(i, icons[i], cell)

\* A value is at least one pixel and at most the whole bar.
Clamp(v, max) == IF v < 1 THEN 1 ELSE AtMost(v, max)

\* The layout must hold a horizontal bar as a whole.
BarRows(w) == Bars[w].row + 1
BarCols(w) ==
  Bars[w].col + IF Bars[w].dir \cap {"east", "west"} # {} THEN Bars[w].len ELSE 1

\* What a bar draw computes before anything is sent: cells, segments and
\* characters after the new bar was created and all bars were processed.
BarsAfter(w, v1, v2) ==
  LET bar == Bars[w]
      max == bar.len * Res(bar.dir)
      val1 == Clamp(v1, max)
      val2 == IF Single_Segments THEN val1 ELSE Clamp(v2, max)
      created == CreateBar(Grown(BarFB, BarRows(w), BarCols(w), ClearedBar),
                           bar.row, bar.col, bar.dir, bar.style, bar.len, val1, val2)
      needed == CreateSegments(created, Segment, nSegment,
                               RowMajor(NewRows(BarRows(w), BarCols(w)),
                                        NewCols(BarRows(w), BarCols(w))))
      packed == PackSegments(needed.fb, needed.seg)
      chars == DefineChars(packed.seg, packed.n, cgram)
  IN  [fb |-> packed.fb, n |-> packed.n,
       seg |-> KeptSegments(chars.seg, packed.n, packed.fb),
       cgram |-> chars.cgram, defined |-> chars.defined]

\* The layout once all bars are transferred into it.
BarLayout(w, new) ==
  LET old == Grown(LayoutFB, BarRows(w), BarCols(w), Blank)
      code(c) == IF new.fb[c].segment = 0 THEN Undefined
                 ELSE CodeOf(new.seg, new.fb[c].segment)
  IN  [c \in DOMAIN old |-> IF code(c) = Undefined THEN old[c] ELSE code(c)]

\* drv_generic_text_bar_draw().  Cells whose segment was just defined are made
\* to differ, so that they are sent even if their code is the old one.
DrawBar(w, v1, v2) ==
  \E new \in {BarsAfter(w, v1, v2)} : \E lay \in {BarLayout(w, new)} :
    LET stale == {c \in Display : INVALIDATE /\ new.fb[c].segment \in new.defined}
        disp == [c \in Display |->
                   IF c \in stale THEN Complement(lay[c]) ELSE DisplayFB[c]]
        lost == left \cup {c \in Display : new.fb[c].segment > new.n}
    IN  /\ Resize(BarRows(w), BarCols(w))
        /\ BarFB' = new.fb
        /\ Segment' = new.seg
        /\ nSegment' = new.n
        /\ cgram' = new.cgram
        /\ LayoutFB' = lay
        /\ Blit(lay, disp, new.cgram, lost, 0, 0,
                NewRows(BarRows(w), BarCols(w)), NewCols(BarRows(w), BarCols(w)))
        /\ UNCHANGED icons

-----------------------------------------------------------------------------
\* drv_generic_text_init(), bar_init() and the driver's own segments; icons
\* as widget_icon_init() leaves them before the first update.
Init ==
  /\ LROWS = DROWS
  /\ LCOLS = DCOLS
  /\ LayoutFB = [c \in Display |-> Blank]
  /\ DisplayFB = [c \in Display |-> Blank]
  /\ BarFB = [c \in Display |-> ClearedBar]
  /\ Segment = FixedSegments
  /\ nSegment = fSegment
  /\ icons = [i \in DOMAIN Icons |->
                [ascii |-> NotAssigned, curmap |-> 0, prvmap |-> NoMap, visible |-> FALSE]]
  /\ cgram = << >>
  /\ screen = [c \in Display |-> [ch |-> Blank, glyph |-> <<"font", Blank>>]]
  /\ left = {}

Next ==
  \/ \E w \in DOMAIN Texts, txt \in Strings : DrawText(w, txt)
  \/ \E i \in DOMAIN Icons, frame \in Frames, visible \in BOOLEAN :
       UpdateIcon(i, frame, visible)
  \/ \E i \in DOMAIN Icons : \E cell \in Icons[i].copies : UpdateCopy(i, cell)
  \/ \E w \in DOMAIN Bars, v \in BarValues : DrawBar(w, v[1], v[2])

Spec == Init /\ [][Next]_vars

-----------------------------------------------------------------------------
(***************************************************************************)
(* Properties                                                              *)
(***************************************************************************)
\* After every draw the display shows the part of the layout that fits on it,
\* although blit() only sends what differs from the display buffer, and only
\* within the window of the widget.
ScreenShowsLayout ==
  \A c \in Display : screen[c].ch = LayoutFB[c] /\ DisplayFB[c] = LayoutFB[c]

\* Cell c belongs to no bar, or its segment was not dropped by packing.
Settled(c) == BarFB[c].segment <= nSegment

\* The display may hold an old bitmap of cell c: packing gave up its segment
\* while the cell showed it, and define_chars() neither spares the characters of
\* such cells nor invalidates them.  When the cell gets a segment again whose code
\* is the one it shows, blit() does not send it either.
MayBeOld(c) == INVALIDATE /\ c \in left

\* On a display that keeps showing the old bitmap of a character that was
\* defined anew, every cell with such a character is sent again, even though
\* its code did not change.  (Not the copies of an icon: icon_draw() only
\* invalidates the cell that is drawn when the bitmap changes.)
GlyphFresh ==
  INVALIDATE => \A c \in Display \ UNION {Icons[i].copies : i \in DOMAIN Icons} :
    ~MayBeOld(c) => screen[c].glyph = Glyph(cgram, screen[c].ch)

\* What can be seen in a cell.
Seen(c) == IF INVALIDATE THEN screen[c].glyph ELSE Glyph(cgram, screen[c].ch)

\* The bitmap of a segment: the driver's are characters of the font.
SegmentGlyph(i) ==
  IF i <= fSegment THEN Glyph(cgram, Segment[i].ascii) ELSE Bitmap(Segment[i])

\* A cell of a bar shows the segment it was given, whatever other bars were
\* drawn and merged since: two segments never share a character, and a
\* character is not defined anew while a cell still needs it.
BarShown ==
  \A c \in Display : BarFB[c].segment # 0 /\ Settled(c) /\ ~MayBeOld(c) =>
    Seen(c) = SegmentGlyph(BarFB[c].segment)

\* Bars never touch the characters of the icons: what was last sent for an
\* icon is what its character still holds.
IconsKept ==
  \A i \in DOMAIN Icons : icons[i].prvmap # NoMap =>
    cgram[icons[i].ascii] = <<"icon", i, icons[i].prvmap>>

\* The values cell c needs, as its segment shows them.
Exact(fb, seg, c) == Matches(seg[fb[c].segment], fb[c])

\* The segments other than the driver's that are still on the display.
StillUsed == {i \in (fSegment + 1)..AtMost(nSegment, Len(Segment)) : Segment[i].used}

\* As long as there are characters for the segments on the display and for the
\* new ones, no bar is distorted: packing starts only when they are used up,
\* and the characters nobody uses any more are given back.
ExactWhileRoom ==
  LET unmet == {[BarFB'[c] EXCEPT !.segment = 0] :
                  c \in {d \in DOMAIN BarFB' :
                           /\ BarFB'[d].dir # {}
                           /\ \A i \in StillUsed \cup 1..fSegment :
                                ~Matches(Segment[i], BarFB'[d])}}
  IN  Cardinality(StillUsed) + Cardinality(unmet) <= Room =>
        \A c \in DOMAIN BarFB' : BarFB'[c].dir # {} => Exact(BarFB', Segment', c)
BarsProcessed == Segment' # Segment \/ \E c \in Display : BarFB'[c] # BarFB[c]
NoNeedlessMerge == [][BarsProcessed => ExactWhileRoom]_vars

\* The cells of a bar together show one of its values: as many pixels as the
\* value says, without a gap, from the start of a bar to the east or south and
\* from the far end of the others.  The reference counts lit pixels.
BarsFilledFromTheirEnd ==
  \A w \in DOMAIN Bars :
    LET bar == Bars[w]
        res == Res(bar.dir)
        max == bar.len * res
        lit(val) == IF bar.dir \cap {"west", "north"} = {} THEN 0..(val - 1)
                    ELSE (max - val)..(max - 1)
        filled(val, k) == Cardinality(lit(Clamp(val, max)) \cap (k * res)..(k * res + res - 1))
        cell(k) == BarFB[BarCell(bar.row, bar.col, bar.dir, k)]
    IN  cell(0).dir # {} =>
          \E v \in BarValues : \A k \in 0..(bar.len - 1) :
            /\ cell(k).val1 = filled(v[1], k)
            /\ cell(k).val2 = filled(v[IF Single_Segments THEN 1 ELSE 2], k)

\* Packing may distort a bar, but an empty half stays empty and a full one full.
EmptyAndFullKept ==
  \A c \in Display : BarFB[c].segment # 0 /\ Settled(c) =>
    LET s == Segment[BarFB[c].segment]
        res == Res(BarFB[c].dir)
    IN  /\ BarFB[c].val1 = 0 => s.val1 = 0
        /\ BarFB[c].val2 = 0 => s.val2 = 0
        /\ BarFB[c].val1 = res => AtMost(s.val1, res) = res
        /\ BarFB[c].val2 = res => AtMost(s.val2, res) = res

\* The characters that the user defines show what they were defined for: no bar
\* takes a character of an icon, no cell keeps an old bitmap, and a bar shows its
\* own segments, which are filled from the end it starts at.
CharactersKept == TextTypeOK /\ IconsKept /\ GlyphFresh /\ BarShown /\ BarsFilledFromTheirEnd
=============================================================================
