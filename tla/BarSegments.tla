---------------------------- MODULE BarSegments -----------------------------
(***************************************************************************)
(* The bar renderer of drv_generic_text.c as constant-level operators: how *)
(* the cells of a bar get their values, which characters ("segments") the  *)
(* bars need, how segments are merged when the display has too few user-   *)
(* defined characters, and which code each of them gets.                   *)
(*                                                                         *)
(* A cell has two values, for the upper and the lower half of a horizontal *)
(* bar.  Segments are numbered from 1, and a cell without one has 0 where  *)
(* the code has -1.  A direction is a set: 255, the direction of the       *)
(* driver's own segments, is the set of all, & is intersection.            *)
(*                                                                         *)
(* A definition whose name ends in _Bug is a faulty variant of the one that  *)
(* follows it.  No module uses it; it shows that a property can fail.      *)
(***************************************************************************)
EXTENDS Integers, SequencesExt

CONSTANTS
  XRES, YRES,     \* pixels of a character, horizontally and vertically
  CHARS,          \* user-defined characters of the display
  CHAR0,          \* code of the first one
  ICONS,          \* user-defined characters reserved for icons
  FixedSegments   \* segments the driver adds with bar_add_segment()

AllDirs == {"east", "west", "north", "south"}
StyleHollow == 1
StyleFirst == 2
StyleLast == 4
AnyStyle == 255
Impossible == 65535   \* the error of a merge that must not happen
Undefined == -1       \* a segment that has no character yet

fSegment == Len(FixedSegments)

Room_WithIcons_Bug == CHARS

\* User-defined characters the bars may use.
Room == CHARS - ICONS

BarSegment == [val1: Nat, val2: Nat, dir: SUBSET AllDirs, style: Nat,
            used: BOOLEAN, ascii: Int]
Bar == [val1: Int, val2: Int, dir: SUBSET AllDirs, style: Nat, segment: Nat]

ClearedBar == [val1 |-> -1, val2 |-> -1, dir |-> {}, style |-> 0, segment |-> 0]

\* bar_add_segment(): what a driver adds for a value it has a character for.
AddedSegment(val, ascii) ==
  [val1 |-> val, val2 |-> val, dir |-> AllDirs,
   style |-> IF val = 0 THEN 0 ELSE AnyStyle, used |-> FALSE, ascii |-> ascii]

Byte == 0..255

\* The codes of the user-defined characters.
UserChars == CHAR0..(CHAR0 + CHARS - 1)

\* The driver's segments are characters of the font.
ASSUME SegmentsAssumption ==
  /\ XRES \in Nat \ {0} /\ YRES \in Nat \ {0}
  /\ CHARS \in Nat /\ CHAR0 \in Nat /\ ICONS \in 0..CHARS
  /\ CHAR0 + CHARS <= 256
  /\ FixedSegments \in Seq(BarSegment)
  /\ \A i \in DOMAIN FixedSegments :
       ~FixedSegments[i].used /\ FixedSegments[i].ascii \in Byte \ UserChars

AtMost(a, b) == IF a > b THEN b ELSE a
Res(dir) == IF dir \cap {"east", "west"} # {} THEN XRES ELSE YRES

-----------------------------------------------------------------------------
(***************************************************************************)
(* bar_create_bar                                                          *)
(***************************************************************************)
Pixels_NotReversed_Bug(val, k, len, dir) ==
  LET res == Res(dir)
  IN  IF val - k * res < 0 THEN 0 ELSE AtMost(val - k * res, res)

\* Pixels set in cell k (from 0) of a bar of len cells with value val.
\* Bars to the west and to the north are filled from their far end.
Pixels(val, k, len, dir) ==
  LET res == Res(dir)
      part(v) == IF v - k * res < 0 THEN 0 ELSE AtMost(v - k * res, res)
  IN  IF dir \cap {"west", "north"} = {} THEN part(val)
      ELSE res - part(len * res - val)

\* Only horizontal bars draw a frame over their whole length.
FrameStyle(old, k, len, dir, style) ==
  IF style = 0 THEN old
  ELSE IF dir \cap {"east", "west"} # {} /\ k = len - 1 THEN StyleLast
  ELSE IF k = 0 THEN StyleFirst
  ELSE IF dir \cap {"east", "west"} # {} /\ old = 0 THEN style
  ELSE old

\* The cell k cells from the start of a bar at row and col.
BarCell(row, col, dir, k) ==
  IF dir \cap {"east", "west"} # {} THEN <<row, col + k>> ELSE <<row + k, col>>

CreateBar(fb, row, col, dir, style, len, val1, val2) ==
  [c \in DOMAIN fb |->
     IF \E k \in 0..(len - 1) : c = BarCell(row, col, dir, k)
     THEN LET k == (c[1] - row) + (c[2] - col)
          IN  [val1 |-> Pixels(val1, k, len, dir),
               val2 |-> Pixels(val2, k, len, dir),
               dir |-> dir,
               style |-> FrameStyle(fb[c].style, k, len, dir, style),
               segment |-> 0]
     ELSE fb[c]]

-----------------------------------------------------------------------------
(***************************************************************************)
(* bar_create_segments                                                     *)
(***************************************************************************)
\* Segment s shows exactly what bar cell b needs.
Matches(s, b) ==
  LET res == Res(b.dir)
      l1 == AtMost(s.val1, res)
      l2 == AtMost(s.val2, res)
  IN  /\ l1 = b.val1 /\ l2 = b.val2
      /\ \/ l1 = res /\ l2 = res
         \/ /\ s.style = b.style
            /\ \/ {l1, l2} \subseteq {0, res}
               \/ s.dir \cap b.dir # {}

NewSegment(b) ==
  [val1 |-> b.val1, val2 |-> b.val2, dir |-> b.dir, style |-> b.style,
   used |-> FALSE, ascii |-> Undefined]

DropUnused_KeepAll_Bug(seg, n) == SubSeq(seg, 1, IF n < fSegment THEN fSegment ELSE n)

\* The bars' own segments among the first n.
OwnCount(n) == IF n > fSegment THEN n - fSegment ELSE 0

\* Drops the segments that no cell uses any more, except the driver's.
DropUnused(seg, n) ==
  LET kept[k \in 0..OwnCount(n)] ==
        IF k = 0 THEN SubSeq(seg, 1, fSegment)
        ELSE IF seg[fSegment + k].used
        THEN Append(kept[k - 1], seg[fSegment + k])
        ELSE kept[k - 1]
  IN  kept[OwnCount(n)]

\* The cells and segments of st once cell c has the first segment that matches
\* it, a new one if there is none.
GiveSegment(st, c) ==
  LET b == st.fb[c]
      fits == {i \in DOMAIN st.seg : Matches(st.seg[i], b)}
      gets(i) == [st.fb EXCEPT ![c] = [b EXCEPT !.segment = i]]
  IN  IF b.dir = {} THEN st
      ELSE IF fits # {} THEN [seg |-> st.seg, fb |-> gets(Min(fits))]
      ELSE [seg |-> Append(st.seg, NewSegment(b)), fb |-> gets(Len(st.seg) + 1)]

\* Gives every bar cell, in the order of cells, a segment that matches it.
CreateSegments(fb, seg, n, cells) ==
  LET given[k \in 0..Len(cells)] ==
        IF k = 0 THEN [seg |-> DropUnused(seg, n), fb |-> fb]
        ELSE GiveSegment(given[k - 1], cells[k])
  IN  given[Len(cells)]

-----------------------------------------------------------------------------
(***************************************************************************)
(* bar_pack_segments                                                       *)
(***************************************************************************)
\* How wrong it looks to show segment t where s is needed.
SegmentError(s, t) ==
  LET res == Res(s.dir)
      i1 == AtMost(s.val1, res)
      i2 == AtMost(s.val2, res)
      j1 == AtMost(t.val1, res)
      j2 == AtMost(t.val2, res)
  IN  IF \/ s.dir \cap t.dir = {}
         \/ s.style # t.style
         \/ i1 = 0 /\ j1 # 0
         \/ i2 = 0 /\ j2 # 0
         \/ i1 = res /\ j1 < res
         \/ i2 = res /\ j2 < res
         \/ Room > 0 /\ \/ i1 = 1 /\ j1 # 1 /\ i2 > 0
                        \/ i2 = 1 /\ j2 # 1 /\ j1 > 0
         \/ i1 = i2 /\ j1 # j2
      THEN Impossible
      ELSE (i1 - j1) * (i1 - j1) + (i2 - j2) * (i2 - j2)

ErrorTable(seg) ==
  [p \in (DOMAIN seg) \X (DOMAIN seg) |->
     IF p[1] = p[2] THEN Impossible ELSE SegmentError(seg[p[1]], seg[p[2]])]

\* The merges the search considers: i is given up for j.
Merges(st) ==
  {p \in ((fSegment + 1)..st.n) \X (1..st.n) :
     /\ ~(st.pass1 /\ st.seg[p[1]].used)
     /\ st.err[p] < Impossible}

\* The first pair, row by row, with the smallest error.
BestMerge(st, merges) ==
  LET m == Min({st.err[p] : p \in merges})
      best == {p \in merges : st.err[p] = m}
      i == Min({p[1] : p \in best})
  IN  <<i, Min({p[2] : p \in {q \in best : q[1] = i}})>>

\* Segment i is dropped, the last one takes its number, the cells follow.  The
\* entry (i, i) of the table becomes the error of replacing the old segment i
\* by the last one: the code copies the row first and then the column.  So a
\* later turn may merge a segment with itself.
MergeSegments(st, i, j) ==
  LET to(s) == LET t == IF s = i THEN j ELSE s IN IF t = st.n THEN i ELSE t
  IN  [st EXCEPT
        !.n = st.n - 1,
        !.seg = [st.seg EXCEPT ![i] = st.seg[st.n]],
        !.err = [p \in DOMAIN st.err |->
                   IF st.n \in {p[1], p[2]} THEN st.err[p]
                   ELSE IF p[2] = i THEN st.err[<<p[1], st.n>>]
                   ELSE IF p[1] = i THEN st.err[<<st.n, p[2]>>]
                   ELSE st.err[p]],
        !.fb = [c \in DOMAIN st.fb |->
                  [st.fb[c] EXCEPT !.segment = to(st.fb[c].segment)]]]

\* One turn of the loop.  The segments that are on the display already are
\* merged only when nothing else is left; failed is "unable to compact".
PackStep(st) ==
  IF st.n <= fSegment + Room \/ st.failed THEN st
  ELSE LET merges == Merges(st)
           best == BestMerge(st, merges)
       IN  IF merges # {} THEN MergeSegments(st, best[1], best[2])
           ELSE IF st.pass1 THEN [st EXCEPT !.pass1 = FALSE]
           ELSE [st EXCEPT !.n = Room, !.failed = TRUE]

\* The segments, the cells and nSegment after packing.  Segments behind
\* nSegment keep what they held: cells may still point to them.  Every turn
\* drops a segment, ends the first pass or gives up.
PackSegments(fb, seg) ==
  LET packed[k \in 0..(Len(seg) + 2)] ==
        IF k = 0
        THEN [seg |-> seg, fb |-> fb, n |-> Len(seg), err |-> ErrorTable(seg),
              pass1 |-> TRUE, failed |-> FALSE]
        ELSE PackStep(packed[k - 1])
  IN  packed[Len(seg) + 2]

-----------------------------------------------------------------------------
(***************************************************************************)
(* bar_define_chars                                                        *)
(***************************************************************************)
\* The bitmap sent for a segment.  A vertical bar has one value only; nothing
\* fills the buffer for a bar to the west, whose bitmap is thus arbitrary.
Bitmap(s) ==
  CASE s.dir = {"east"} -> <<"east", s.val1, s.val2, s.style>>
    [] s.dir = {"west"} -> <<"arbitrary", s.style>>
    [] s.dir = {"north"} -> <<"north", s.val1>>
    [] OTHER -> <<"south", s.val1>>

FreeChar_SkipsFirst_Bug(seg, n) ==
  Min({c \in 0..Room : \/ c = Room
                       \/ \A j \in (fSegment + 2)..n : seg[j].ascii # c})

\* The lowest free character below Room; Room when all are taken.
FreeChar(seg, n) ==
  Min({c \in 0..Room : \/ c = Room
                       \/ \A j \in (fSegment + 1)..n : seg[j].ascii # c})

\* Defines the character of segment i, if it still lacks one.
DefineChar(st, i, n) ==
  LET c == FreeChar(st.seg, n)
  IN  IF st.seg[i].used \/ st.seg[i].ascii # Undefined THEN st
      ELSE [seg |-> [st.seg EXCEPT ![i] = [st.seg[i] EXCEPT !.ascii = c]],
            cgram |-> [k \in DOMAIN st.cgram \cup {CHAR0 + c} |->
                         IF k = CHAR0 + c THEN Bitmap(st.seg[i]) ELSE st.cgram[k]],
            defined |-> st.defined \cup {i}]

\* The segments, the new character memory, and the numbers of the segments that
\* were defined, when all the bars' own segments have a character.
DefineChars(seg, n, cgram) ==
  LET after[k \in 0..OwnCount(n)] ==
        IF k = 0 THEN [seg |-> seg, cgram |-> cgram, defined |-> {}]
        ELSE DefineChar(after[k - 1], fSegment + k, n)
  IN  after[OwnCount(n)]

\* The code of segment i, or Undefined.
CodeOf(seg, i) ==
  IF i > fSegment /\ seg[i].ascii # Undefined
  THEN CHAR0 + seg[i].ascii ELSE seg[i].ascii

\* The table after a draw: the segments in use and those a cell points to,
\* with their usage flags.  What lies behind is never read again.
KeptSegments(seg, n, fb) ==
  LET pointed == {fb[c].segment : c \in DOMAIN fb}
  IN  [i \in 1..Max(pointed \cup {n, fSegment}) |->
         [seg[i] EXCEPT !.used = (i > n /\ @) \/ i \in pointed]]
=============================================================================
