------------------------- MODULE TextDisplayProofs --------------------------
(***************************************************************************)
(* The theorems of TextDisplay, for every size of the display, every       *)
(* number of user-defined characters, every placement of widgets in which  *)
(* nothing is drawn over a bar, every text and every cost of a goto        *)
(* command:                                                                *)
(*                                                                         *)
(*   ScreenCorrect      the display shows the layout;                      *)
(*   CharactersCorrect  user-defined characters show what they are for;    *)
(*   MergesAreNeeded    segments are merged only when characters are used  *)
(*                      up.                                                *)
(*                                                                         *)
(* The first half is about the operators of BarSegments: each loop keeps   *)
(* what the draws need (TableOK, OwnOK, CharsOK, BarCellsOK).  The second  *)
(* half is the induction over draws, with CharInv.                         *)
(***************************************************************************)
EXTENDS TextDisplay, Loops, FiniteSetTheorems

-----------------------------------------------------------------------------
(***************************************************************************)
(* The order of the cells, and small facts                                 *)
(***************************************************************************)
LEMMA Square == \A a \in Int : a * a \in Nat
  OBVIOUS

\* Division by the number of columns gives back row and column.
LEMMA DivMod ==
  ASSUME NEW b \in Nat \ {0}, NEW q \in Nat, NEW r \in 0..(b - 1)
  PROVE  (b * q + r) \div b = q /\ (b * q + r) % b = r
  OBVIOUS

\* The loop over n in 0..LROWS * LCOLS - 1 visits every cell, and only cells.
LEMMA RowMajorCells ==
  ASSUME NEW rows \in Nat, NEW cols \in Nat \ {0}
  PROVE  /\ RowMajor(rows, cols) \in Seq(Layout(rows, cols))
         /\ Len(RowMajor(rows, cols)) = rows * cols
         /\ \A c \in Layout(rows, cols) :
              \E n \in 1..Len(RowMajor(rows, cols)) : RowMajor(rows, cols)[n] = c
<1> DEFINE N == rows * cols
           cells == RowMajor(rows, cols)
<1>1. N \in Nat
  OBVIOUS
<1>2. ASSUME NEW n \in 1..N PROVE cells[n] \in Layout(rows, cols)
  <2> DEFINE q == (n - 1) \div cols
             r == (n - 1) % cols
  <2>1. n - 1 \in Nat /\ n - 1 < N
    OBVIOUS
  <2>2. q \in Nat /\ r \in 0..(cols - 1) /\ n - 1 = cols * q + r
    BY <2>1
  <2>3. q < rows
    <3> HIDE DEF q, r
    <3>1. SUFFICES ASSUME q >= rows PROVE FALSE
      BY <2>2
    <3>2. cols * q >= cols * rows
      BY <2>2, <3>1
    <3> QED
      BY <2>1, <2>2, <3>2
  <2>4. cells[n] = <<q, r>>
    BY DEF RowMajor
  <2> QED
    BY <2>2, <2>3, <2>4 DEF Layout
<1>3. cells \in Seq(Layout(rows, cols)) /\ Len(cells) = N
  <2>1. cells = [n \in 1..N |-> cells[n]]
    BY DEF RowMajor
  <2> HIDE DEF cells, N
  <2> QED
    BY <1>1, <1>2, <2>1
<1>4. ASSUME NEW c \in Layout(rows, cols) PROVE \E n \in 1..N : cells[n] = c
  <2> DEFINE q == c[1]
             r == c[2]
             n == cols * q + r + 1
  <2>1. q \in 0..(rows - 1) /\ r \in 0..(cols - 1) /\ c = <<q, r>>
    BY DEF Layout
  <2>2. (cols * q + r) \div cols = q /\ (cols * q + r) % cols = r
    <3> HIDE DEF q, r
    <3> QED
      BY <2>1, DivMod
  <2>3. n \in 1..N
    <3> HIDE DEF q, r
    <3>1. q + 1 <= rows /\ q \in Nat /\ r \in Nat /\ r + 1 <= cols
      BY <2>1
    <3>2. cols * (q + 1) <= cols * rows /\ cols * (q + 1) = cols * q + cols
      BY <3>1
    <3>3. cols * q \in Nat
      BY <3>1
    <3> QED
      BY <3>1, <3>2, <3>3
  <2>4. n - 1 = cols * q + r
    BY <2>1
  <2>5. cells[n] = <<q, r>>
    BY <2>2, <2>3, <2>4 DEF RowMajor
  <2> QED
    BY <2>1, <2>3, <2>5
<1> QED
  BY <1>3, <1>4

-----------------------------------------------------------------------------
(***************************************************************************)
(* Pixels of a bar                                                         *)
(***************************************************************************)
LEMMA ResType ==
  ASSUME NEW dir
  PROVE  Res(dir) \in Nat \ {0}
  BY SegmentsAssumption DEF Res

\* The pixels of a bar's value that lie in cell k, counted.
Lit(val, max, dir) ==
  IF dir \cap {"west", "north"} = {} THEN 0..(val - 1) ELSE (max - val)..(max - 1)

\* bar_create_bar() computes how many pixels of the value lie in a cell.
LEMMA PixelsCount ==
  ASSUME NEW dir, NEW len \in Nat, NEW k \in 0..(len - 1),
         NEW val \in 0..(len * Res(dir))
  PROVE  /\ Pixels(val, k, len, dir) \in 0..Res(dir)
         /\ Pixels(val, k, len, dir)
              = Cardinality(Lit(val, len * Res(dir), dir)
                              \cap (k * Res(dir))..(k * Res(dir) + Res(dir) - 1))
<1> DEFINE res == Res(dir)
           max == len * res
           lo == k * res
           cell == lo..(lo + res - 1)
<1>1. res \in Nat \ {0}
  BY ResType
<1>2. lo \in Nat /\ max \in Nat /\ lo + res <= max
  <2> HIDE DEF res
  <2>1. (k + 1) * res <= len * res /\ (k + 1) * res = k * res + res
    BY <1>1
  <2> QED
    BY <1>1, <2>1
<1>3. val \in 0..max
  OBVIOUS
<1> HIDE DEF res, max, lo
<1>4. CASE dir \cap {"west", "north"} = {}
  <2> DEFINE p == IF val - lo < 0 THEN 0 ELSE AtMost(val - lo, res)
  <2>1. Pixels(val, k, len, dir) = p
    BY <1>4 DEF Pixels, lo, res
  <2>2. p \in 0..res
    BY <1>1, <1>2, <1>3 DEF AtMost
  <2>3. Lit(val, max, dir) \cap cell = lo..(lo + p - 1)
    BY <1>1, <1>2, <1>3, <1>4 DEF Lit, AtMost
  <2>4. Cardinality(lo..(lo + p - 1)) = p
    <3> HIDE DEF p
    <3> QED
      BY <1>2, <2>2, FS_Interval
  <2> QED
    BY <2>1, <2>2, <2>3, <2>4 DEF lo, res, max
<1>5. CASE dir \cap {"west", "north"} # {}
  <2> DEFINE w == max - val
             p == IF w - lo < 0 THEN 0 ELSE AtMost(w - lo, res)
  <2>1. Pixels(val, k, len, dir) = res - p
    BY <1>5 DEF Pixels, lo, res, max
  <2>2. p \in 0..res
    BY <1>1, <1>2, <1>3 DEF AtMost
  <2>3. Lit(val, max, dir) \cap cell = (lo + p)..(lo + res - 1)
    BY <1>1, <1>2, <1>3, <1>5 DEF Lit, AtMost
  <2>4. Cardinality((lo + p)..(lo + res - 1)) = res - p
    <3> HIDE DEF p
    <3>1. lo + p \in Int /\ lo + res - 1 \in Int
      BY <1>1, <1>2, <2>2
    <3>2. (lo + p > lo + res - 1) <=> p = res
      BY <1>1, <1>2, <2>2
    <3>3. Cardinality((lo + p)..(lo + res - 1))
            = IF lo + p > lo + res - 1 THEN 0 ELSE (lo + res - 1) - (lo + p) + 1
      BY <3>1, FS_Interval
    <3> QED
      BY <1>1, <1>2, <2>2, <3>2, <3>3
  <2>5. res - p \in 0..res
    BY <1>1, <2>2
  <2> QED
    BY <2>1, <2>3, <2>4, <2>5 DEF lo, res, max
<1> QED
  BY <1>4, <1>5

\* The bar cells of a layout: a cell of no bar has no segment, the others have
\* as many pixels as fit into a cell.
BarCellsOK(fb, dom) ==
  /\ fb \in [dom -> Bar]
  /\ \A c \in dom : fb[c].dir = {} => fb[c].segment = 0
  /\ \A c \in dom : fb[c].dir # {} =>
       fb[c].val1 \in 0..Res(fb[c].dir) /\ fb[c].val2 \in 0..Res(fb[c].dir)

CellOf(w, k) == BarCell(Bars[w].row, Bars[w].col, Bars[w].dir, k)

\* What the assumptions say of a bar.
LEMMA BarTypes ==
  ASSUME NEW w \in DOMAIN Bars
  PROVE  /\ Bars[w].row \in Nat /\ Bars[w].col \in Nat /\ Bars[w].len \in Nat \ {0}
         /\ Bars[w].dir \in SUBSET AllDirs /\ Bars[w].dir # {} /\ Bars[w].style \in Nat
         /\ BarCells(w) = {CellOf(w, k) : k \in 0..(Bars[w].len - 1)}
         /\ BarCells(w) \subseteq Display
  BY DisplayAssumption, WidgetsAssumption DEF BarCells, CellOf

\* A style is a number.
LEMMA FrameStyleType ==
  ASSUME NEW old \in Nat, NEW k, NEW len, NEW dir, NEW style \in Nat
  PROVE  FrameStyle(old, k, len, dir, style) \in Nat
  BY DEF FrameStyle, StyleFirst, StyleLast

\* bar_create_bar() gives the cells of its bar their pixels, and no other.
LEMMA BarIsCreated ==
  ASSUME NEW w \in DOMAIN Bars, NEW dom, NEW fb, BarCellsOK(fb, dom),
         BarCells(w) \subseteq dom,
         NEW val1 \in 0..(Bars[w].len * Res(Bars[w].dir)),
         NEW val2 \in 0..(Bars[w].len * Res(Bars[w].dir))
  PROVE  LET bar == Bars[w]
             new == CreateBar(fb, bar.row, bar.col, bar.dir, bar.style, bar.len, val1, val2)
         IN  /\ BarCellsOK(new, dom)
             /\ \A c \in dom \ BarCells(w) : new[c] = fb[c]
             /\ \A k \in 0..(bar.len - 1) :
                  /\ CellOf(w, k) \in dom
                  /\ new[CellOf(w, k)].dir = bar.dir
                  /\ new[CellOf(w, k)].val1 = Pixels(val1, k, bar.len, bar.dir)
                  /\ new[CellOf(w, k)].val2 = Pixels(val2, k, bar.len, bar.dir)
<1> DEFINE bar == Bars[w]
           new == CreateBar(fb, bar.row, bar.col, bar.dir, bar.style, bar.len, val1, val2)
           At(c) == (c[1] - bar.row) + (c[2] - bar.col)
           cell(c) == [val1 |-> Pixels(val1, At(c), bar.len, bar.dir),
                       val2 |-> Pixels(val2, At(c), bar.len, bar.dir),
                       dir |-> bar.dir,
                       style |-> FrameStyle(fb[c].style, At(c), bar.len, bar.dir, bar.style),
                       segment |-> 0]
<1>1. /\ bar.row \in Nat /\ bar.col \in Nat /\ bar.len \in Nat \ {0}
      /\ bar.dir \in SUBSET AllDirs /\ bar.dir # {} /\ bar.style \in Nat
      /\ BarCells(w) = {CellOf(w, k) : k \in 0..(bar.len - 1)}
  BY BarTypes
<1>2. new = [c \in dom |-> IF c \in BarCells(w) THEN cell(c) ELSE fb[c]]
  <2>1. DOMAIN fb = dom
    BY DEF BarCellsOK
  <2>2. \A c : c \in BarCells(w) <=>
          \E k \in 0..(bar.len - 1) : c = BarCell(bar.row, bar.col, bar.dir, k)
    BY <1>1 DEF CellOf
  <2> QED
    BY <2>1, <2>2 DEF CreateBar
<1>3. ASSUME NEW k \in 0..(bar.len - 1)
      PROVE  At(CellOf(w, k)) = k /\ CellOf(w, k) \in BarCells(w)
  <2>1. k \in Int
    OBVIOUS
  <2>2. At(CellOf(w, k)) = k
    BY <1>1, <2>1 DEF CellOf, BarCell
  <2> QED
    BY <1>1, <2>2
<1>4. ASSUME NEW c \in BarCells(w)
      PROVE  cell(c) \in Bar /\ cell(c).val1 \in 0..Res(bar.dir) /\ cell(c).val2 \in 0..Res(bar.dir)
  <2>1. PICK k \in 0..(bar.len - 1) : c = CellOf(w, k)
    BY <1>1
  <2>2. At(c) = k
    BY <1>3, <2>1
  <2>3. /\ Pixels(val1, k, bar.len, bar.dir) \in 0..Res(bar.dir)
        /\ Pixels(val2, k, bar.len, bar.dir) \in 0..Res(bar.dir)
    <3> HIDE DEF bar
    <3> QED
      BY <1>1, PixelsCount DEF bar
  <2>4. fb[c].style \in Nat
    BY DEF BarCellsOK, Bar
  <2>5. FrameStyle(fb[c].style, k, bar.len, bar.dir, bar.style) \in Nat
    BY <1>1, <2>4, FrameStyleType
  <2>6. \A x \in 0..Res(bar.dir) : x \in Int
    OBVIOUS
  <2> HIDE DEF bar, At
  <2> QED
    BY <1>1, <2>2, <2>3, <2>5, <2>6 DEF Bar
<1> HIDE DEF bar, new, At
<1>5. BarCellsOK(new, dom)
  <2>1. \A c \in dom : new[c] \in Bar
    <3> HIDE DEF cell
    <3> QED
      BY <1>2, <1>4 DEF BarCellsOK
  <2>2. new \in [dom -> Bar]
    BY <1>2, <2>1
  <2>3. \A c \in dom : (new[c].dir = {} => new[c].segment = 0)
                       /\ (new[c].dir # {} => new[c].val1 \in 0..Res(new[c].dir)
                                            /\ new[c].val2 \in 0..Res(new[c].dir))
    <3> TAKE c \in dom
    <3>1. CASE c \in BarCells(w)
      <4>1. new[c] = cell(c) /\ cell(c).dir = bar.dir
        BY <1>2, <3>1
      <4>2. cell(c).val1 \in 0..Res(bar.dir) /\ cell(c).val2 \in 0..Res(bar.dir)
        BY <1>4, <3>1
      <4> HIDE DEF cell
      <4> QED
        BY <1>1, <4>1, <4>2
    <3>2. CASE c \notin BarCells(w)
      BY <1>2, <3>2 DEF BarCellsOK
    <3> QED
      BY <3>1, <3>2
  <2> QED
    BY <2>2, <2>3 DEF BarCellsOK
<1>6. \A c \in dom \ BarCells(w) : new[c] = fb[c]
  BY <1>2
<1>7. ASSUME NEW k \in 0..(bar.len - 1)
      PROVE  /\ CellOf(w, k) \in dom
             /\ new[CellOf(w, k)].dir = bar.dir
             /\ new[CellOf(w, k)].val1 = Pixels(val1, k, bar.len, bar.dir)
             /\ new[CellOf(w, k)].val2 = Pixels(val2, k, bar.len, bar.dir)
  <2>1. CellOf(w, k) \in BarCells(w) /\ At(CellOf(w, k)) = k
    BY <1>3
  <2>2. CellOf(w, k) \in dom /\ new[CellOf(w, k)] = cell(CellOf(w, k))
    BY <1>2, <2>1
  <2> QED
    BY <2>1, <2>2
<1> QED
  BY <1>5, <1>6, <1>7 DEF new, bar

-----------------------------------------------------------------------------
(***************************************************************************)
(* bar_create_segments                                                     *)
(***************************************************************************)
LEMMA FixedLength == fSegment \in Nat /\ FixedSegments \in Seq(BarSegment)
  BY SegmentsAssumption DEF fSegment

\* What the assumptions say of the characters.
LEMMA RoomType ==
  /\ Room \in Nat /\ Room <= CHARS /\ CHARS \in Nat /\ CHAR0 \in Nat
  /\ \A a \in 0..(Room - 1) : CHAR0 + a \in UserChars
  /\ UserChars \subseteq Byte
<1>1. /\ CHARS \in Nat /\ CHAR0 \in Nat /\ ICONS \in Nat /\ ICONS <= CHARS
      /\ CHAR0 + CHARS <= 256
  BY SegmentsAssumption
<1> QED
  BY <1>1 DEF Room, UserChars, Byte

\* The table starts with the driver's segments.
TableOK(seg) ==
  /\ seg \in Seq(BarSegment) /\ Len(seg) >= fSegment
  /\ \A i \in 1..fSegment :
       seg[i] = [FixedSegments[i] EXCEPT !.used = seg[i].used]

\* The bars' own segments among the first n: two never share a character, and a
\* segment on the display, like any that was defined, has the character it needs.
HasChar(s, mem) ==
  /\ s.ascii \in 0..(Room - 1)
  /\ CHAR0 + s.ascii \in DOMAIN mem
  /\ mem[CHAR0 + s.ascii] = Bitmap(s)
OwnOK(seg, n, mem) ==
  /\ \A i \in (fSegment + 1)..n :
       /\ seg[i].used => seg[i].ascii # Undefined
       /\ seg[i].ascii # Undefined => HasChar(seg[i], mem)
  /\ \A i, j \in (fSegment + 1)..n :
       i # j /\ seg[i].ascii # Undefined => seg[i].ascii # seg[j].ascii

\* The own segments up to n, counted from 1.
LEMMA OwnCountType ==
  ASSUME NEW n \in Nat
  PROVE  /\ OwnCount(n) \in Nat
         /\ \A i \in (fSegment + 1)..n : i - fSegment \in 1..OwnCount(n)
         /\ \A k \in 1..OwnCount(n) : fSegment + k \in (fSegment + 1)..n
  BY FixedLength DEF OwnCount

\* The first n segments that are still in use, other than the driver's.
InUse(seg, n) == {i \in (fSegment + 1)..n : seg[i].used}

\* What remains of the table: the driver's segments and those in use.
LEMMA UnusedAreDropped ==
  ASSUME NEW seg, TableOK(seg), NEW n \in Nat, n <= Len(seg), NEW mem,
         OwnOK(seg, n, mem)
  PROVE  LET kept == DropUnused(seg, n)
         IN  /\ TableOK(kept)
             /\ OwnOK(kept, Len(kept), mem)
             /\ IsFiniteSet(InUse(seg, n))
             /\ Len(kept) = fSegment + Cardinality(InUse(seg, n))
             /\ \A i \in 1..fSegment : kept[i] = seg[i]
             /\ \A j \in (fSegment + 1)..Len(kept) : \E i \in InUse(seg, n) : kept[j] = seg[i]
             /\ \A i \in InUse(seg, n) : \E j \in (fSegment + 1)..Len(kept) : kept[j] = seg[i]
<1> DEFINE N == OwnCount(n)
           S == Seq(BarSegment)
           base == SubSeq(seg, 1, fSegment)
           Keep(s, k) == IF seg[fSegment + k].used THEN Append(s, seg[fSegment + k]) ELSE s
           step == [k \in 1..N |-> [s \in S |-> Keep(s, k)]]
           Is(f) == f = [k \in 0..N |-> IF k = 0 THEN base ELSE Keep(f[k - 1], k)]
           kept == CHOOSE f : Is(f)
<1>1. N \in Nat /\ fSegment \in Nat
  BY OwnCountType, FixedLength
<1>2. seg \in S /\ Len(seg) \in Nat /\ fSegment <= Len(seg) /\ n <= Len(seg)
  BY DEF TableOK
<1>3. ASSUME NEW k \in 1..N
      PROVE  /\ fSegment + k \in (fSegment + 1)..n
             /\ seg[fSegment + k] \in BarSegment
  <2>1. fSegment + k \in (fSegment + 1)..n
    BY OwnCountType
  <2>2. fSegment + k \in 1..Len(seg)
    BY <1>1, <1>2, <2>1
  <2> QED
    BY <1>2, <2>1, <2>2
<1>4. base \in S /\ Len(base) = fSegment /\ \A i \in 1..fSegment : base[i] = seg[i]
  <2>1. \A i \in 1..fSegment : seg[i] \in BarSegment
    BY <1>1, <1>2
  <2> QED
    BY <1>1, <1>2, <2>1
<1>5. ASSUME NEW s \in S, NEW k \in 1..N PROVE Keep(s, k) \in S
  BY <1>3
<1>6. LoopOf(N, S, base, step)
  <2> HIDE DEF S, base, Keep, N
  <2> QED
    BY <1>4, <1>5 DEF LoopOf
<1>7. PICK f : IsRun(f, N, S, base, step)
  <2> HIDE DEF N, S, base, step
  <2> QED
    BY <1>1, <1>6, LoopRuns
<1>8. Is(f)
  <2> HIDE DEF N, S, base, Keep
  <2>1. ASSUME NEW k \in 1..N PROVE k - 1 \in 0..N /\ f[k] = Keep(f[k - 1], k)
    <3>1. k - 1 \in 0..N
      BY <1>1
    <3>2. f[k - 1] \in S /\ f[k] = step[k][f[k - 1]]
      BY <1>7, <3>1 DEF IsRun
    <3> QED
      BY <3>1, <3>2
  <2> QED
    BY <1>1, <1>7, <2>1 DEF IsRun
<1>9. Is(kept)
  BY <1>8
<1>91. kept[0] = base /\ \A k \in 1..N : kept[k] = Keep(kept[k - 1], k)
  <2> HIDE DEF kept, base, Keep, N
  <2>1. \A k \in 1..N : k \in 0..N /\ k # 0
    BY <1>1
  <2>2. 0 \in 0..N
    BY <1>1
  <2> QED
    BY <1>9, <2>1, <2>2
<1>10. DropUnused(seg, n) = kept[N]
  BY DEF DropUnused
<1> DEFINE U(k) == InUse(seg, fSegment + k)
           Sound(s, k) ==
             /\ s \in S
             /\ IsFiniteSet(U(k)) /\ Len(s) = fSegment + Cardinality(U(k))
             /\ \A i \in 1..fSegment : s[i] = seg[i]
             /\ \A j \in (fSegment + 1)..Len(s) : \E i \in U(k) : s[j] = seg[i]
             /\ \A i \in U(k) : \E j \in (fSegment + 1)..Len(s) : s[j] = seg[i]
             /\ \A i, j \in (fSegment + 1)..Len(s) : i # j => s[i].ascii # s[j].ascii
           P == {k \in 0..N : Sound(kept[k], k)}
<1>11. 0 \in P
  <2>1. U(0) = {}
    BY <1>1 DEF InUse
  <2>2. IsFiniteSet(U(0)) /\ Cardinality(U(0)) = 0
    BY <2>1, FS_EmptySet
  <2>3. kept[0] = base
    BY <1>91
  <2> HIDE DEF kept, base, U
  <2>4. Sound(kept[0], 0)
    BY <1>1, <1>4, <2>1, <2>2, <2>3
  <2> QED
    BY <1>1, <2>4
<1>12. ASSUME NEW k \in 1..N, k - 1 \in P PROVE k \in P
  <2> DEFINE s == kept[k - 1]
             new == seg[fSegment + k]
  <2>1. kept[k] = IF new.used THEN Append(s, new) ELSE s
    <3> HIDE DEF kept, N
    <3> QED
      BY <1>91
  <2>2. Sound(s, k - 1) /\ k - 1 \in 0..N
    BY <1>12
  <2>3. fSegment + k \in (fSegment + 1)..n /\ new \in BarSegment
    BY <1>3
  <2>4. U(k) = IF new.used THEN U(k - 1) \cup {fSegment + k} ELSE U(k - 1)
    BY <1>1 DEF InUse
  <2>5. fSegment + k \notin U(k - 1)
    BY <1>1 DEF InUse
  <2> HIDE DEF kept, base, N
  <2>6. CASE ~new.used
    <3>1. kept[k] = s /\ U(k) = U(k - 1)
      BY <2>1, <2>4, <2>6
    <3>2. Sound(kept[k], k)
      <4> HIDE DEF U, S
      <4> QED
        BY <2>2, <3>1
    <3> HIDE DEF Sound
    <3> QED
      BY <2>2, <3>2
  <2>7. CASE new.used
    <3>1. kept[k] = Append(s, new) /\ U(k) = U(k - 1) \cup {fSegment + k}
      BY <2>1, <2>4, <2>7
    <3>2. IsFiniteSet(U(k)) /\ Cardinality(U(k)) = Cardinality(U(k - 1)) + 1
      <4> DEFINE V == U(k - 1)
                 x == fSegment + k
      <4>1. IsFiniteSet(V) /\ U(k) = V \cup {x} /\ x \notin V
        BY <2>2, <2>5, <3>1
      <4> HIDE DEF U, V, x
      <4>2. IsFiniteSet(V \cup {x}) /\ Cardinality(V \cup {x}) = Cardinality(V) + 1
        BY <4>1, FS_AddElement
      <4> QED
        BY <4>1, <4>2 DEF V
    <3>3. Cardinality(U(k - 1)) \in Nat
      <4>1. IsFiniteSet(U(k - 1))
        BY <2>2
      <4> HIDE DEF U
      <4> QED
        BY <4>1, FS_CardinalityType
    <3>4. \A i \in U(k - 1) : i \in (fSegment + 1)..n /\ i < fSegment + k /\ seg[i].used
      BY <1>1, <2>3 DEF InUse
    <3> DEFINE t == Append(s, new)
    <3>5. /\ s \in S /\ t \in S /\ Len(s) \in Nat /\ Len(t) = Len(s) + 1 /\ t[Len(s) + 1] = new
          /\ \A i \in 1..Len(s) : t[i] = s[i]
          /\ fSegment <= Len(s)
      BY <1>1, <2>2, <2>3, <3>3
    <3> HIDE DEF s, new, t, S, U
    <3>6. Len(t) = fSegment + Cardinality(U(k))
      BY <1>1, <2>2, <3>2, <3>3, <3>5
    <3>7. \A i \in 1..fSegment : t[i] = seg[i]
      BY <1>1, <2>2, <3>5
    <3>8. ASSUME NEW j \in (fSegment + 1)..Len(t)
          PROVE  \E i \in U(k) : t[j] = seg[i]
      <4>1. CASE j = Len(s) + 1
        BY <3>1, <3>5, <4>1 DEF new
      <4>2. CASE j # Len(s) + 1
        <5>1. j \in (fSegment + 1)..Len(s) /\ j \in 1..Len(s)
          BY <1>1, <3>5, <4>2
        <5> QED
          BY <2>2, <3>1, <3>5, <5>1
      <4> QED
        BY <4>1, <4>2
    <3>9. ASSUME NEW i \in U(k)
          PROVE  \E j \in (fSegment + 1)..Len(t) : t[j] = seg[i]
      <4>1. CASE i = fSegment + k
        <5>1. Len(s) + 1 \in (fSegment + 1)..Len(t)
          BY <1>1, <3>5
        <5> QED
          BY <3>5, <4>1, <5>1 DEF new
      <4>2. CASE i \in U(k - 1)
        <5>1. PICK j \in (fSegment + 1)..Len(s) : s[j] = seg[i]
          BY <2>2, <4>2
        <5>2. j \in (fSegment + 1)..Len(t) /\ j \in 1..Len(s)
          BY <1>1, <3>5
        <5> QED
          BY <3>5, <5>1, <5>2
      <4> QED
        BY <3>1, <4>1, <4>2
    <3>10. ASSUME NEW j \in (fSegment + 1)..Len(s) PROVE s[j].ascii # new.ascii
      <4>1. PICK i \in U(k - 1) : s[j] = seg[i]
        BY <2>2
      <4>2. i \in (fSegment + 1)..n /\ i # fSegment + k /\ seg[i].used
        BY <1>1, <3>4
      <4>3. seg[i].ascii # Undefined
        BY <4>2 DEF OwnOK
      <4> QED
        BY <2>3, <4>1, <4>2, <4>3 DEF OwnOK, new
    <3>11. ASSUME NEW i \in (fSegment + 1)..Len(t), NEW j \in (fSegment + 1)..Len(t), i # j
           PROVE  t[i].ascii # t[j].ascii
      <4>1. \A m \in (fSegment + 1)..Len(t) :
              m = Len(s) + 1 \/ (m \in (fSegment + 1)..Len(s) /\ m \in 1..Len(s))
        BY <1>1, <3>5
      <4>2. CASE i = Len(s) + 1
        <5>1. j \in (fSegment + 1)..Len(s) /\ t[j] = s[j] /\ t[i] = new
          BY <3>5, <3>11, <4>1, <4>2
        <5> QED
          BY <3>10, <5>1
      <4>3. CASE j = Len(s) + 1
        <5>1. i \in (fSegment + 1)..Len(s) /\ t[i] = s[i] /\ t[j] = new
          BY <3>5, <3>11, <4>1, <4>3
        <5> QED
          BY <3>10, <5>1
      <4>4. CASE i # Len(s) + 1 /\ j # Len(s) + 1
        <5>1. i \in (fSegment + 1)..Len(s) /\ t[i] = s[i] /\ j \in (fSegment + 1)..Len(s) /\ t[j] = s[j]
          BY <3>5, <4>1, <4>4
        <5> QED
          BY <2>2, <3>11, <5>1
      <4> QED
        BY <4>2, <4>3, <4>4
    <3>12. Sound(t, k)
      BY <3>2, <3>5, <3>6, <3>7, <3>8, <3>9, <3>11
    <3> HIDE DEF Sound
    <3>13. Sound(kept[k], k)
      BY <3>1, <3>12 DEF t
    <3> QED
      BY <3>13
  <2> QED
    BY <2>6, <2>7
<1>13. Sound(kept[N], N)
  <2> HIDE DEF P, N
  <2>1. \A k \in 0..N : k \in P
    BY <1>1, <1>11, <1>12, LoopInvariant
  <2>2. N \in P
    BY <1>1, <2>1
  <2> HIDE DEF Sound
  <2> QED
    BY <2>2 DEF P
<1>14. U(N) = InUse(seg, n)
  BY <1>1, <1>2 DEF InUse, OwnCount
<1> DEFINE t == kept[N]
<1> HIDE DEF kept, N, U
<1>15. /\ t \in S /\ Len(t) \in Nat /\ Len(t) >= fSegment
       /\ IsFiniteSet(InUse(seg, n)) /\ Len(t) = fSegment + Cardinality(InUse(seg, n))
  <2>1. Cardinality(InUse(seg, n)) \in Nat
    BY <1>13, <1>14, FS_CardinalityType
  <2> QED
    BY <1>1, <1>13, <1>14, <2>1
<1>16. TableOK(t)
  BY <1>13, <1>15 DEF TableOK
<1>17. OwnOK(t, Len(t), mem)
  <2>1. ASSUME NEW j \in (fSegment + 1)..Len(t)
        PROVE  (t[j].used => t[j].ascii # Undefined) /\ (t[j].ascii # Undefined => HasChar(t[j], mem))
    <3>1. PICK i \in InUse(seg, n) : t[j] = seg[i]
      BY <1>13, <1>14
    <3>2. i \in (fSegment + 1)..n
      BY DEF InUse
    <3> QED
      BY <3>1, <3>2 DEF OwnOK
  <2>2. \A i, j \in (fSegment + 1)..Len(t) : i # j => t[i].ascii # t[j].ascii
    BY <1>13
  <2> HIDE DEF t
  <2> QED
    BY <2>1, <2>2 DEF OwnOK
<1> QED
  <2>1. DropUnused(seg, n) = t
    BY <1>10
  <2> HIDE DEF t
  <2> QED
    BY <1>13, <1>14, <1>15, <1>16, <1>17, <2>1 DEF t

\* A bar cell without its segment.
Values(b) == [b EXCEPT !.segment = 0]

\* Which segment matches, and which one is made, depends on the values only.
LEMMA MatchesValues ==
  ASSUME NEW s, NEW a \in Bar, NEW b \in Bar, Values(a) = Values(b)
  PROVE  /\ a.dir = b.dir /\ a.val1 = b.val1 /\ a.val2 = b.val2 /\ a.style = b.style
         /\ Matches(s, a) = Matches(s, b)
         /\ NewSegment(a) = NewSegment(b)
<1>1. a.dir = b.dir /\ a.val1 = b.val1 /\ a.val2 = b.val2 /\ a.style = b.style
  <2>1. Values(a).dir = a.dir /\ Values(b).dir = b.dir /\ Values(a).val1 = a.val1
        /\ Values(b).val1 = b.val1 /\ Values(a).val2 = a.val2 /\ Values(b).val2 = b.val2
        /\ Values(a).style = a.style /\ Values(b).style = b.style
    BY DEF Bar, Values
  <2> QED
    BY <2>1
<1> QED
  BY <1>1 DEF Matches, NewSegment

\* A cell matches the segment that is created for it.
LEMMA NewSegmentMatches ==
  ASSUME NEW b \in Bar, b.dir # {}, b.val1 \in 0..Res(b.dir), b.val2 \in 0..Res(b.dir)
  PROVE  NewSegment(b) \in BarSegment /\ Matches(NewSegment(b), b)
<1>1. NewSegment(b) \in BarSegment
  BY DEF NewSegment, BarSegment, Bar, Undefined
<1>2. AtMost(b.val1, Res(b.dir)) = b.val1 /\ AtMost(b.val2, Res(b.dir)) = b.val2
  BY ResType DEF AtMost
<1>3. b.dir \cap b.dir # {}
  OBVIOUS
<1> QED
  BY <1>1, <1>2, <1>3 DEF Matches, NewSegment

\* What bar_create_segments() keeps of the table kept and the cells fb while it
\* gives a segment to one cell after the other.
Given(st, kept, fb, dom) ==
  /\ st.seg \in Seq(BarSegment) /\ Len(st.seg) >= Len(kept)
  /\ st.fb \in [dom -> Bar]
  /\ \A i \in 1..Len(kept) : st.seg[i] = kept[i]
  /\ \A i \in (Len(kept) + 1)..Len(st.seg) :
       \E c \in dom : /\ fb[c].dir # {}
                      /\ st.seg[i] = NewSegment(fb[c])
                      /\ \A j \in 1..(i - 1) : ~Matches(st.seg[j], fb[c])
  /\ \A c \in dom : Values(st.fb[c]) = Values(fb[c])
  /\ \A c \in dom : fb[c].dir = {} => st.fb[c] = fb[c]
HasSegment(st, c) ==
  st.fb[c].segment \in 1..Len(st.seg) /\ Matches(st.seg[st.fb[c].segment], st.fb[c])

\* The states of the loop.
Giving(dom) == [seg : Seq(BarSegment), fb : [dom -> Bar]]

\* One turn: cell c gets a segment, and no cell loses its own.
LEMMA GiveSegmentKeeps ==
  ASSUME NEW dom, NEW st \in Giving(dom), NEW kept \in Seq(BarSegment),
         NEW fb, BarCellsOK(fb, dom), Given(st, kept, fb, dom), NEW c \in dom
  PROVE  LET new == GiveSegment(st, c)
         IN  /\ new \in Giving(dom)
             /\ Given(new, kept, fb, dom)
             /\ fb[c].dir # {} => HasSegment(new, c)
             /\ \A d \in dom : HasSegment(st, d) => HasSegment(new, d)
<1> DEFINE new == GiveSegment(st, c)
           b == st.fb[c]
           fits == {i \in DOMAIN st.seg : Matches(st.seg[i], b)}
           gets(i) == [st.fb EXCEPT ![c] = [b EXCEPT !.segment = i]]
<1>1. /\ st.seg \in Seq(BarSegment) /\ st.fb \in [dom -> Bar] /\ Len(st.seg) \in Nat
      /\ DOMAIN st.seg = 1..Len(st.seg)
      /\ Len(kept) \in Nat /\ Len(st.seg) >= Len(kept)
      /\ st = [seg |-> st.seg, fb |-> st.fb]
  BY DEF Giving, Given
<1>2. /\ b \in Bar /\ fb[c] \in Bar /\ Values(b) = Values(fb[c])
  BY DEF Giving, Given, BarCellsOK
<1>3. /\ b.dir = fb[c].dir /\ b.val1 = fb[c].val1 /\ b.val2 = fb[c].val2
      /\ NewSegment(b) = NewSegment(fb[c])
      /\ \A s : Matches(s, b) = Matches(s, fb[c])
  BY <1>2, MatchesValues
<1>4. ASSUME NEW i \in Nat, fb[c].dir # {}
      PROVE  /\ gets(i) \in [dom -> Bar]
             /\ gets(i)[c].segment = i
             /\ \A d \in dom \ {c} : gets(i)[d] = st.fb[d]
             /\ \A d \in dom : Values(gets(i)[d]) = Values(fb[d])
             /\ \A d \in dom : fb[d].dir = {} => gets(i)[d] = fb[d]
             /\ \A s : Matches(s, gets(i)[c]) = Matches(s, b)
  <2> DEFINE e == [b EXCEPT !.segment = i]
  <2>1. e \in Bar /\ e.segment = i /\ Values(e) = Values(b)
    BY <1>2 DEF Bar, Values
  <2>2. \A s : Matches(s, e) = Matches(s, b)
    BY <1>2, <2>1, MatchesValues
  <2>3. gets(i)[c] = e /\ \A d \in dom \ {c} : gets(i)[d] = st.fb[d]
    BY <1>1
  <2>4. gets(i) \in [dom -> Bar]
    BY <1>1, <2>1
  <2> HIDE DEF e, b, gets
  <2>5. ASSUME NEW d \in dom
        PROVE  /\ Values(gets(i)[d]) = Values(fb[d])
               /\ fb[d].dir = {} => gets(i)[d] = fb[d]
    <3>1. CASE d = c
      BY <1>2, <1>4, <2>1, <2>3, <3>1
    <3>2. CASE d # c
      BY <2>3, <3>2 DEF Given
    <3> QED
      BY <3>1, <3>2
  <2> QED
    BY <2>1, <2>2, <2>3, <2>4, <2>5
<1>5. CASE b.dir = {}
  <2>1. new = st
    BY <1>5 DEF GiveSegment
  <2> HIDE DEF new
  <2> QED
    BY <1>3, <1>5, <2>1 DEF new
<1>6. CASE b.dir # {} /\ fits # {}
  <2> DEFINE m == Min(fits)
  <2>1. fits \in SUBSET Nat
    BY <1>1
  <2>2. m \in fits
    <3> HIDE DEF fits
    <3> QED
      BY <1>6, <2>1, MinProperty
  <2>3. new = [seg |-> st.seg, fb |-> gets(m)]
    BY <1>6 DEF GiveSegment
  <2>4. m \in 1..Len(st.seg) /\ m \in Nat /\ Matches(st.seg[m], b) /\ fb[c].dir # {}
    BY <1>1, <1>3, <1>6, <2>2
  <2>5. /\ gets(m) \in [dom -> Bar]
        /\ gets(m)[c].segment = m
        /\ \A d \in dom \ {c} : gets(m)[d] = st.fb[d]
        /\ \A d \in dom : Values(gets(m)[d]) = Values(fb[d])
        /\ \A d \in dom : fb[d].dir = {} => gets(m)[d] = fb[d]
        /\ \A s : Matches(s, gets(m)[c]) = Matches(s, b)
    <3> HIDE DEF gets, m, b
    <3> QED
      BY <1>4, <2>4
  <2> HIDE DEF new, gets, m, b
  <2>6. new.seg = st.seg /\ new.fb = gets(m) /\ new \in Giving(dom)
    BY <1>1, <2>3, <2>5 DEF Giving
  <2>7. Given(new, kept, fb, dom)
    BY <2>5, <2>6 DEF Given
  <2>8. HasSegment(new, c)
    BY <2>4, <2>5, <2>6 DEF HasSegment
  <2>9. \A d \in dom \ {c} : HasSegment(st, d) => HasSegment(new, d)
    BY <2>5, <2>6 DEF HasSegment
  <2> QED
    BY <2>6, <2>7, <2>8, <2>9 DEF new
<1>7. CASE b.dir # {} /\ fits = {}
  <2> DEFINE n == Len(st.seg)
             s == NewSegment(b)
             t == Append(st.seg, s)
  <2>1. new = [seg |-> t, fb |-> gets(n + 1)]
    BY <1>7 DEF GiveSegment
  <2>2. \A i \in 1..n : ~Matches(st.seg[i], b)
    BY <1>1, <1>7
  <2>3. s \in BarSegment /\ Matches(s, b)
    <3>1. b.val1 \in 0..Res(b.dir) /\ b.val2 \in 0..Res(b.dir)
      BY <1>3, <1>7 DEF BarCellsOK
    <3> HIDE DEF b
    <3> QED
      BY <1>2, <1>7, <3>1, NewSegmentMatches
  <2>4. /\ t \in Seq(BarSegment) /\ Len(t) = n + 1 /\ t[n + 1] = s
        /\ \A i \in 1..n : t[i] = st.seg[i]
    <3> HIDE DEF s
    <3> QED
      BY <1>1, <2>3
  <2>5. n + 1 \in Nat /\ fb[c].dir # {}
    BY <1>1, <1>3, <1>7
  <2> DEFINE m == n + 1
  <2>6. /\ gets(m) \in [dom -> Bar]
        /\ gets(m)[c].segment = m
        /\ \A d \in dom \ {c} : gets(m)[d] = st.fb[d]
        /\ \A d \in dom : Values(gets(m)[d]) = Values(fb[d])
        /\ \A d \in dom : fb[d].dir = {} => gets(m)[d] = fb[d]
        /\ \A x : Matches(x, gets(m)[c]) = Matches(x, b)
    <3> HIDE DEF gets, m, b
    <3> QED
      BY <1>4, <2>5 DEF m
  <2> HIDE DEF new, gets, b, t, s
  <2>7. new.seg = t /\ new.fb = gets(m) /\ new \in Giving(dom)
    BY <2>1, <2>4, <2>6 DEF Giving
  <2>8. \A i \in 1..Len(kept) : t[i] = kept[i]
    BY <1>1, <2>4 DEF Given
  <2>9. ASSUME NEW i \in (Len(kept) + 1)..Len(t)
        PROVE  \E d \in dom : /\ fb[d].dir # {}
                              /\ t[i] = NewSegment(fb[d])
                              /\ \A j \in 1..(i - 1) : ~Matches(t[j], fb[d])
    <3>1. CASE i = n + 1
      <4>1. t[i] = NewSegment(fb[c])
        BY <1>3, <2>4, <3>1 DEF s
      <4>2. ASSUME NEW j \in 1..(i - 1) PROVE ~Matches(t[j], fb[c])
        <5>1. j \in 1..n
          BY <1>1, <3>1
        <5> QED
          BY <1>3, <2>2, <2>4, <5>1
      <4> QED
        BY <2>5, <4>1, <4>2
    <3>2. CASE i # n + 1
      <4>1. i \in (Len(kept) + 1)..n /\ i \in 1..n
        BY <1>1, <2>4, <3>2
      <4>2. PICK d \in dom : /\ fb[d].dir # {}
                             /\ st.seg[i] = NewSegment(fb[d])
                             /\ \A j \in 1..(i - 1) : ~Matches(st.seg[j], fb[d])
        BY <4>1 DEF Given
      <4>3. \A j \in 1..(i - 1) : t[j] = st.seg[j]
        BY <1>1, <2>4, <4>1
      <4> QED
        BY <2>4, <4>1, <4>2, <4>3
    <3> QED
      BY <3>1, <3>2
  <2>10. Given(new, kept, fb, dom)
    <3>1. new.seg \in Seq(BarSegment) /\ Len(new.seg) >= Len(kept)
      BY <1>1, <2>4, <2>7
    <3>2. \A i \in 1..Len(kept) : new.seg[i] = kept[i]
      BY <2>7, <2>8
    <3>3. \A i \in (Len(kept) + 1)..Len(new.seg) :
            \E d \in dom : /\ fb[d].dir # {}
                           /\ new.seg[i] = NewSegment(fb[d])
                           /\ \A j \in 1..(i - 1) : ~Matches(new.seg[j], fb[d])
      BY <2>7, <2>9
    <3>4. /\ new.fb \in [dom -> Bar]
          /\ \A d \in dom : Values(new.fb[d]) = Values(fb[d])
          /\ \A d \in dom : fb[d].dir = {} => new.fb[d] = fb[d]
      BY <2>6, <2>7
    <3> QED
      BY <3>1, <3>2, <3>3, <3>4 DEF Given
  <2>11. HasSegment(new, c)
    BY <1>1, <2>3, <2>4, <2>6, <2>7 DEF HasSegment
  <2>12. \A d \in dom \ {c} : HasSegment(st, d) => HasSegment(new, d)
    BY <1>1, <2>4, <2>6, <2>7 DEF HasSegment
  <2> QED
    BY <2>7, <2>10, <2>11, <2>12 DEF new
<1> QED
  BY <1>5, <1>6, <1>7

\* New segments keep the table in order.
LEMMA GivenTable ==
  ASSUME NEW dom, NEW fb, NEW kept, TableOK(kept), NEW mem, OwnOK(kept, Len(kept), mem),
         NEW st, Given(st, kept, fb, dom)
  PROVE  TableOK(st.seg) /\ OwnOK(st.seg, Len(st.seg), mem)
<1> DEFINE seg == st.seg
<1>1. /\ seg \in Seq(BarSegment) /\ Len(seg) \in Nat /\ Len(kept) \in Nat
      /\ fSegment \in Nat /\ fSegment <= Len(kept) /\ Len(kept) <= Len(seg)
      /\ \A i \in 1..Len(kept) : seg[i] = kept[i]
  BY FixedLength DEF Given, TableOK
<1>2. \A i \in (Len(kept) + 1)..Len(seg) : ~seg[i].used /\ seg[i].ascii = Undefined
  <2> SUFFICES ASSUME NEW i \in (Len(kept) + 1)..Len(seg)
               PROVE  ~seg[i].used /\ seg[i].ascii = Undefined
    OBVIOUS
  <2>1. PICK c \in dom : seg[i] = NewSegment(fb[c])
    BY DEF Given
  <2> HIDE DEF seg
  <2> QED
    BY <2>1 DEF NewSegment
<1> HIDE DEF seg
<1>3. TableOK(seg)
  BY <1>1 DEF TableOK
<1>4. ASSUME NEW i \in (fSegment + 1)..Len(seg)
      PROVE  \/ i \in (fSegment + 1)..Len(kept) /\ seg[i] = kept[i]
             \/ ~seg[i].used /\ seg[i].ascii = Undefined
  <2>1. CASE i <= Len(kept)
    BY <1>1, <2>1
  <2>2. CASE ~(i <= Len(kept))
    BY <1>1, <1>2, <2>2
  <2> QED
    BY <2>1, <2>2
<1>5. ASSUME NEW i \in (fSegment + 1)..Len(seg)
      PROVE  /\ seg[i].used => seg[i].ascii # Undefined
             /\ seg[i].ascii # Undefined => HasChar(seg[i], mem)
  BY <1>4 DEF OwnOK
<1>6. ASSUME NEW i \in (fSegment + 1)..Len(seg), NEW j \in (fSegment + 1)..Len(seg),
             i # j, seg[i].ascii # Undefined
      PROVE  seg[i].ascii # seg[j].ascii
  BY <1>4, <1>6 DEF OwnOK
<1> QED
  BY <1>3, <1>5, <1>6 DEF OwnOK, seg

\* bar_create_segments(): every bar cell gets a segment that matches it.
LEMMA SegmentsAreCreated ==
  ASSUME NEW dom, NEW fb, BarCellsOK(fb, dom), NEW cells \in Seq(dom),
         \A c \in dom : \E k \in 1..Len(cells) : cells[k] = c,
         NEW seg, TableOK(seg), NEW n \in Nat, n <= Len(seg),
         NEW mem, OwnOK(seg, n, mem)
  PROVE  LET new == CreateSegments(fb, seg, n, cells)
         IN  /\ Given(new, DropUnused(seg, n), fb, dom)
             /\ TableOK(new.seg) /\ OwnOK(new.seg, Len(new.seg), mem)
             /\ \A c \in dom : fb[c].dir # {} => HasSegment(new, c)
<1> DEFINE kept == DropUnused(seg, n)
           N == Len(cells)
           S == {st \in Giving(dom) : Given(st, kept, fb, dom)}
           base == [seg |-> kept, fb |-> fb]
           step == [k \in 1..N |-> [st \in S |-> GiveSegment(st, cells[k])]]
           Is(f) == f = [k \in 0..N |-> IF k = 0 THEN base ELSE GiveSegment(f[k - 1], cells[k])]
           given == CHOOSE f : Is(f)
<1>1. N \in Nat /\ \A k \in 1..N : cells[k] \in dom /\ k - 1 \in 0..N /\ k \in 0..N /\ k # 0
  OBVIOUS
<1>2. TableOK(kept) /\ OwnOK(kept, Len(kept), mem) /\ kept \in Seq(BarSegment)
  <2>1. TableOK(kept) /\ OwnOK(kept, Len(kept), mem)
    BY UnusedAreDropped
  <2> HIDE DEF kept
  <2> QED
    BY <2>1 DEF TableOK
<1> HIDE DEF kept, N
<1>3. base \in S
  <2>1. base \in Giving(dom)
    BY <1>2 DEF Giving, BarCellsOK
  <2>2. Given(base, kept, fb, dom)
    BY <1>2 DEF Given, BarCellsOK
  <2> QED
    BY <2>1, <2>2
<1>4. ASSUME NEW st \in S, NEW k \in 1..N
      PROVE  LET new == GiveSegment(st, cells[k])
             IN  /\ new \in S
                 /\ fb[cells[k]].dir # {} => HasSegment(new, cells[k])
                 /\ \A d \in dom : HasSegment(st, d) => HasSegment(new, d)
  BY <1>1, <1>2, GiveSegmentKeeps
<1> HIDE DEF S, base
<1>5. LoopOf(N, S, base, step)
  BY <1>3, <1>4 DEF LoopOf
<1>6. PICK f : IsRun(f, N, S, base, step)
  <2> HIDE DEF step
  <2> QED
    BY <1>1, <1>5, LoopRuns
<1>7. Is(f)
  <2>1. ASSUME NEW k \in 1..N PROVE f[k] = GiveSegment(f[k - 1], cells[k])
    <3>1. f[k - 1] \in S /\ f[k] = step[k][f[k - 1]]
      BY <1>1, <1>6 DEF IsRun
    <3> QED
      BY <3>1
  <2> QED
    BY <1>1, <1>6, <2>1 DEF IsRun
<1>8. Is(given)
  BY <1>7
<1>9. CreateSegments(fb, seg, n, cells) = given[N]
  BY DEF CreateSegments, base, kept, N
<1> HIDE DEF given
<1>10. given[0] = base /\ \A k \in 1..N : given[k] = GiveSegment(given[k - 1], cells[k])
  BY <1>1, <1>8
<1> DEFINE Done(k) == \A m \in 1..k : fb[cells[m]].dir # {} => HasSegment(given[k], cells[m])
           P == {k \in 0..N : given[k] \in S /\ Done(k)}
<1>11. 0 \in P
  BY <1>1, <1>3, <1>10
<1>12. ASSUME NEW k \in 1..N, k - 1 \in P PROVE k \in P
  <2>1. given[k - 1] \in S /\ Done(k - 1) /\ given[k] = GiveSegment(given[k - 1], cells[k])
    BY <1>10, <1>12
  <2>2. /\ given[k] \in S
        /\ fb[cells[k]].dir # {} => HasSegment(given[k], cells[k])
        /\ \A d \in dom : HasSegment(given[k - 1], d) => HasSegment(given[k], d)
    BY <1>4, <2>1
  <2>3. ASSUME NEW m \in 1..k, fb[cells[m]].dir # {} PROVE HasSegment(given[k], cells[m])
    <3>1. CASE m = k
      BY <2>2, <2>3, <3>1
    <3>2. CASE m # k
      <4>1. m \in 1..(k - 1) /\ cells[m] \in dom
        BY <1>1, <3>2
      <4> QED
        BY <2>1, <2>2, <2>3, <4>1
    <3> QED
      BY <3>1, <3>2
  <2> QED
    BY <1>1, <2>2, <2>3
<1>13. given[N] \in S /\ Done(N)
  <2> HIDE DEF P
  <2>1. \A k \in 0..N : k \in P
    BY <1>1, <1>11, <1>12, LoopInvariant
  <2>2. N \in P
    BY <1>1, <2>1
  <2> HIDE DEF Done
  <2> QED
    BY <2>2 DEF P
<1>14. Given(given[N], kept, fb, dom)
  BY <1>13 DEF S
<1>15. TableOK(given[N].seg) /\ OwnOK(given[N].seg, Len(given[N].seg), mem)
  BY <1>2, <1>14, GivenTable
<1>16. \A c \in dom : fb[c].dir # {} => HasSegment(given[N], c)
  BY <1>13 DEF N
<1> QED
  BY <1>9, <1>14, <1>15, <1>16 DEF kept

-----------------------------------------------------------------------------
(***************************************************************************)
(* bar_pack_segments                                                       *)
(***************************************************************************)
LEMMA SegmentErrorType ==
  ASSUME NEW s \in BarSegment, NEW t \in BarSegment
  PROVE  SegmentError(s, t) \in Nat
<1> DEFINE res == Res(s.dir)
<1>1. \A a \in Nat : AtMost(a, res) \in Nat
  BY ResType DEF AtMost
<1>2. \A a, b \in Nat : (a - b) * (a - b) \in Nat
  BY Square
<1>3. /\ AtMost(s.val1, res) \in Nat /\ AtMost(s.val2, res) \in Nat
      /\ AtMost(t.val1, res) \in Nat /\ AtMost(t.val2, res) \in Nat
  BY <1>1 DEF BarSegment
<1>4. \A a, b, c, d \in Nat : (a - b) * (a - b) + (c - d) * (c - d) \in Nat
  BY <1>2
<1>5. Impossible \in Nat
  BY DEF Impossible
<1> DEFINE e == (AtMost(s.val1, res) - AtMost(t.val1, res)) * (AtMost(s.val1, res) - AtMost(t.val1, res))
                + (AtMost(s.val2, res) - AtMost(t.val2, res)) * (AtMost(s.val2, res) - AtMost(t.val2, res))
<1>6. e \in Nat
  BY <1>3, <1>4
<1>7. SegmentError(s, t) = Impossible \/ SegmentError(s, t) = e
  BY DEF SegmentError
<1> HIDE DEF e
<1> QED
  BY <1>5, <1>6, <1>7

\* The states of the loop of bar_pack_segments() over a table of L segments.
Packing(dom, L) ==
  [seg : Seq(BarSegment), fb : [dom -> Bar], n : 0..L,
   err : [(1..L) \X (1..L) -> Nat], pass1 : BOOLEAN, failed : BOOLEAN]

\* A segment's character is one of those the bars may use.
CharsOK(seg) ==
  \A i \in (fSegment + 1)..Len(seg) : seg[i].ascii \in {Undefined} \cup 0..(Room - 1)

\* What packing keeps: the driver's segments, the values of the cells, a segment
\* for every bar cell and different characters for different segments in use.
Packed(st, fb, dom, L, mem) ==
  /\ TableOK(st.seg) /\ Len(st.seg) = L /\ CharsOK(st.seg)
  /\ OwnOK(st.seg, st.n, mem)
  /\ \A c \in dom : Values(st.fb[c]) = Values(fb[c])
  /\ \A c \in dom : IF fb[c].dir = {} THEN st.fb[c] = fb[c] ELSE st.fb[c].segment \in 1..L
  /\ IF st.failed THEN st.n = Room ELSE st.n >= fSegment
PackStates(fb, dom, L, mem) == {st \in Packing(dom, L) : Packed(st, fb, dom, L, mem)}

\* The merge that is chosen is one of those considered.
LEMMA MergesArePairs ==
  ASSUME NEW L \in Nat, NEW dom, NEW st \in Packing(dom, L), Merges(st) # {}
  PROVE  BestMerge(st, Merges(st)) \in Merges(st)
<1> DEFINE M == Merges(st)
           E == {st.err[p] : p \in M}
           best == {p \in M : st.err[p] = Min(E)}
           I == {p[1] : p \in best}
           i == Min(I)
           J == {p[2] : p \in {q \in best : q[1] = i}}
           j == Min(J)
<1>1. /\ M \subseteq (1..L) \X (1..L)
      /\ \A p \in M : st.err[p] \in Nat /\ p[1] \in Nat /\ p[2] \in Nat /\ p = <<p[1], p[2]>>
  <2>1. st.n \in 0..L /\ st.err \in [(1..L) \X (1..L) -> Nat]
    BY DEF Packing
  <2>2. M \subseteq ((fSegment + 1)..st.n) \X (1..st.n)
    BY DEF Merges
  <2>3. (fSegment + 1)..st.n \subseteq 1..L /\ 1..st.n \subseteq 1..L
    BY <2>1, FixedLength
  <2>4. M \subseteq (1..L) \X (1..L)
    BY <2>2, <2>3
  <2> HIDE DEF M
  <2> QED
    BY <2>1, <2>4
<1> HIDE DEF M
<1>2. Min(E) \in E
  <2>1. E \in SUBSET Nat /\ E # {}
    BY <1>1 DEF M
  <2> HIDE DEF E
  <2> QED
    BY <2>1, MinProperty
<1>3. best # {} /\ best \subseteq M
  BY <1>2
<1> HIDE DEF E
<1>4. i \in I
  <2>1. I \in SUBSET Nat /\ I # {}
    BY <1>1, <1>3
  <2> HIDE DEF I
  <2> QED
    BY <2>1, MinProperty
<1>5. j \in J
  <2>1. J \in SUBSET Nat /\ J # {}
    BY <1>1, <1>3, <1>4
  <2> HIDE DEF J
  <2> QED
    BY <2>1, MinProperty
<1>6. PICK p \in best : p[1] = i /\ p[2] = j
  BY <1>5
<1>7. BestMerge(st, M) = <<i, j>>
  BY DEF BestMerge, E
<1> HIDE DEF i, j
<1>8. p = <<i, j>> /\ p \in M
  BY <1>1, <1>3, <1>6
<1> QED
  BY <1>7, <1>8 DEF M

\* A merge moves cells from segment i to j and the last segment to i: characters stay
\* apart, and no cell is left without a segment.
LEMMA MergeKeeps ==
  ASSUME NEW L \in Nat, NEW dom, NEW fb, BarCellsOK(fb, dom), NEW mem,
         NEW st \in PackStates(fb, dom, L, mem), ~st.failed, st.n > fSegment + Room,
         NEW i \in (fSegment + 1)..st.n, NEW j \in 1..st.n
  PROVE  LET new == MergeSegments(st, i, j)
         IN  /\ new \in PackStates(fb, dom, L, mem) /\ ~new.failed
             /\ new.n = st.n - 1 /\ new.pass1 = st.pass1
<1> DEFINE new == MergeSegments(st, i, j)
           n == st.n
           to(s) == LET t == IF s = i THEN j ELSE s IN IF t = n THEN i ELSE t
           seg == [st.seg EXCEPT ![i] = st.seg[n]]
           err == [p \in DOMAIN st.err |->
                   IF n \in {p[1], p[2]} THEN st.err[p]
                   ELSE IF p[2] = i THEN st.err[<<p[1], n>>]
                   ELSE IF p[1] = i THEN st.err[<<n, p[2]>>]
                   ELSE st.err[p]]
           cells == [c \in DOMAIN st.fb |-> [st.fb[c] EXCEPT !.segment = to(st.fb[c].segment)]]
<1>1. /\ st \in Packing(dom, L) /\ Packed(st, fb, dom, L, mem)
      /\ n \in 0..L /\ fSegment \in Nat /\ Room \in Nat
      /\ st.seg \in Seq(BarSegment) /\ Len(st.seg) = L
      /\ i \in 1..L /\ j \in 1..L /\ n \in 1..L /\ n - 1 \in 0..L /\ n - 1 >= fSegment
      /\ i <= n /\ fSegment < i /\ j <= n
  BY FixedLength, RoomType DEF PackStates, Packing, Packed
<1>2. /\ new = [st EXCEPT !.n = n - 1, !.seg = seg, !.err = err, !.fb = cells]
  BY DEF MergeSegments
<1>3. /\ seg \in Seq(BarSegment) /\ Len(seg) = L
      /\ \A m \in 1..L : seg[m] = IF m = i THEN st.seg[n] ELSE st.seg[m]
  BY <1>1
<1>4. err \in [(1..L) \X (1..L) -> Nat]
  <2>1. st.err \in [(1..L) \X (1..L) -> Nat]
    BY <1>1 DEF Packing
  <2>2. \A p \in (1..L) \X (1..L) : <<p[1], n>> \in (1..L) \X (1..L) /\ <<n, p[2]>> \in (1..L) \X (1..L)
    BY <1>1
  <2> HIDE DEF n
  <2> QED
    BY <2>1, <2>2
<1>5. ASSUME NEW c \in dom
      PROVE  /\ cells[c] \in Bar /\ Values(cells[c]) = Values(fb[c])
             /\ IF fb[c].dir = {} THEN cells[c] = fb[c] ELSE cells[c].segment \in 1..L
  <2> DEFINE b == st.fb[c]
  <2>1. /\ st.fb \in [dom -> Bar] /\ b \in Bar /\ Values(b) = Values(fb[c])
        /\ IF fb[c].dir = {} THEN b = fb[c] ELSE b.segment \in 1..L
        /\ fb[c].dir = {} => fb[c].segment = 0
    BY <1>1 DEF Packing, Packed, BarCellsOK
  <2>2. cells[c] = [b EXCEPT !.segment = to(b.segment)]
    BY <2>1
  <2> HIDE DEF b
  <2>3. b.segment \in 1..L => to(b.segment) \in 1..L
    BY <1>1
  <2>4. b.segment = 0 => to(b.segment) = 0
    BY <1>1
  <2>5. fb[c].dir = {} => to(b.segment) = b.segment
    BY <2>1, <2>4
  <2>6. to(b.segment) \in Nat
    BY <2>1, <2>3, <2>4, <1>1
  <2> HIDE DEF to, cells
  <2>7. cells[c] \in Bar /\ Values(cells[c]) = Values(b) /\ cells[c].segment = to(b.segment)
    BY <2>1, <2>2, <2>6 DEF Bar, Values
  <2>8. fb[c].dir = {} => cells[c] = b
    BY <2>1, <2>2, <2>5 DEF Bar
  <2> QED
    BY <2>1, <2>3, <2>7, <2>8
<1>6. cells \in [dom -> Bar]
  <2>1. DOMAIN st.fb = dom
    BY <1>1 DEF Packing
  <2> QED
    BY <1>5, <2>1
<1> HIDE DEF seg, err, cells, n, new
<1>7. /\ new.n = n - 1 /\ new.seg = seg /\ new.err = err /\ new.fb = cells
      /\ new.pass1 = st.pass1 /\ new.failed = st.failed
      /\ new \in Packing(dom, L)
  <2>1. st \in [seg : Seq(BarSegment), fb : [dom -> Bar], n : 0..L,
                err : [(1..L) \X (1..L) -> Nat], pass1 : BOOLEAN, failed : BOOLEAN]
    BY <1>1 DEF Packing
  <2> QED
    BY <1>1, <1>2, <1>3, <1>4, <1>6, <2>1 DEF Packing
<1>8. TableOK(seg)
  <2>1. \A m \in 1..fSegment : seg[m] = st.seg[m]
    BY <1>1, <1>3
  <2> QED
    BY <1>1, <1>3, <2>1 DEF Packed, TableOK
<1>9. CharsOK(seg)
  <2> SUFFICES ASSUME NEW m \in (fSegment + 1)..L
               PROVE  seg[m].ascii \in {Undefined} \cup 0..(Room - 1)
    BY <1>3 DEF CharsOK
  <2>1. n \in (fSegment + 1)..L /\ m \in 1..L
    BY <1>1
  <2> QED
    BY <1>1, <1>3, <2>1 DEF Packed, CharsOK
<1>10. OwnOK(seg, n - 1, mem)
  <2> DEFINE from(m) == IF m = i THEN n ELSE m
  <2>1. ASSUME NEW m \in (fSegment + 1)..(n - 1)
        PROVE  from(m) \in (fSegment + 1)..n /\ seg[m] = st.seg[from(m)]
    BY <1>1, <1>3
  <2>2. \A m, k \in (fSegment + 1)..(n - 1) : m # k => from(m) # from(k)
    BY <1>1
  <2>3. OwnOK(st.seg, n, mem)
    BY <1>1 DEF Packed, n
  <2> HIDE DEF from
  <2> QED
    BY <2>1, <2>2, <2>3 DEF OwnOK
<1>11. Packed(new, fb, dom, L, mem)
  BY <1>1, <1>3, <1>5, <1>7, <1>8, <1>9, <1>10 DEF Packed
<1> QED
  BY <1>7, <1>11 DEF PackStates, new, n

Ready(st) == st.failed \/ st.n <= fSegment + Room
PassNumber(st) == IF st.pass1 THEN 1 ELSE 0

\* Every turn that is not the last makes progress.
LEMMA PackStepKeeps ==
  ASSUME NEW L \in Nat, NEW dom, NEW fb, BarCellsOK(fb, dom), NEW mem,
         NEW st \in PackStates(fb, dom, L, mem), Room <= L
  PROVE  LET new == PackStep(st)
         IN  /\ new \in PackStates(fb, dom, L, mem)
             /\ Ready(st) => new = st
             /\ Ready(new) \/ new.n + PassNumber(new) <= st.n + PassNumber(st) - 1
<1> DEFINE new == PackStep(st)
<1>1. /\ st \in Packing(dom, L) /\ Packed(st, fb, dom, L, mem)
      /\ st.n \in 0..L /\ fSegment \in Nat /\ Room \in Nat /\ st.pass1 \in BOOLEAN
      /\ st.failed \in BOOLEAN
  BY FixedLength, RoomType DEF PackStates, Packing
<1>2. CASE Ready(st)
  <2>1. new = st
    BY <1>2 DEF PackStep, Ready
  <2> HIDE DEF new
  <2> QED
    BY <1>2, <2>1 DEF new
<1>3. CASE ~Ready(st) /\ Merges(st) # {}
  <2> DEFINE p == BestMerge(st, Merges(st))
  <2>1. ~st.failed /\ st.n > fSegment + Room
    BY <1>1, <1>3 DEF Ready
  <2>2. p \in Merges(st)
    BY <1>1, <1>3, MergesArePairs
  <2>3. p[1] \in (fSegment + 1)..st.n /\ p[2] \in 1..st.n
    BY <2>2 DEF Merges
  <2>4. new = MergeSegments(st, p[1], p[2])
    BY <1>1, <1>3, <2>1 DEF PackStep
  <2> HIDE DEF new, p
  <2>5. /\ new \in PackStates(fb, dom, L, mem) /\ ~new.failed
        /\ new.n = st.n - 1 /\ new.pass1 = st.pass1
    BY <2>1, <2>3, <2>4, MergeKeeps
  <2>6. new.n + PassNumber(new) <= st.n + PassNumber(st) - 1
    BY <1>1, <2>5 DEF PassNumber
  <2> QED
    BY <1>3, <2>5, <2>6 DEF new
<1>4. CASE ~Ready(st) /\ Merges(st) = {} /\ st.pass1
  <2>1. new = [st EXCEPT !.pass1 = FALSE]
    BY <1>1, <1>4 DEF PackStep, Ready
  <2> HIDE DEF new
  <2>2. /\ new.seg = st.seg /\ new.fb = st.fb /\ new.n = st.n /\ new.err = st.err
        /\ new.pass1 = FALSE /\ new.failed = st.failed /\ new \in Packing(dom, L)
    BY <1>1, <2>1 DEF Packing
  <2>3. new \in PackStates(fb, dom, L, mem)
    BY <1>1, <2>2 DEF PackStates, Packed
  <2>4. new.n + PassNumber(new) <= st.n + PassNumber(st) - 1
    BY <1>1, <1>4, <2>2 DEF PassNumber
  <2> QED
    BY <1>4, <2>3, <2>4 DEF new
<1>5. CASE ~Ready(st) /\ Merges(st) = {} /\ ~st.pass1
  <2>1. new = [st EXCEPT !.n = Room, !.failed = TRUE]
    BY <1>1, <1>5 DEF PackStep, Ready
  <2>2. Room <= st.n /\ st.n > fSegment + Room
    BY <1>1, <1>5 DEF Ready
  <2>0. Room \in 0..L /\ TRUE \in BOOLEAN
    BY <1>1
  <2> HIDE DEF new
  <2>3. /\ new.seg = st.seg /\ new.fb = st.fb /\ new.n = Room /\ new.err = st.err
        /\ new.pass1 = st.pass1 /\ new.failed = TRUE /\ new \in Packing(dom, L)
    BY <1>1, <2>0, <2>1 DEF Packing
  <2>4. OwnOK(st.seg, Room, mem)
    <3>1. OwnOK(st.seg, st.n, mem) /\ (fSegment + 1)..Room \subseteq (fSegment + 1)..st.n
      BY <1>1, <2>2 DEF Packed
    <3> QED
      BY <3>1 DEF OwnOK
  <2>5. new \in PackStates(fb, dom, L, mem)
    BY <1>1, <2>3, <2>4 DEF PackStates, Packed
  <2> QED
    BY <1>5, <2>3, <2>5 DEF new, Ready
<1> QED
  BY <1>1, <1>2, <1>3, <1>4, <1>5

\* bar_pack_segments() leaves no more segments in use than there are characters.
LEMMA SegmentsArePacked ==
  ASSUME NEW dom, NEW fb, BarCellsOK(fb, dom), NEW seg, TableOK(seg), NEW mem,
         OwnOK(seg, Len(seg), mem),
         \A c \in dom : fb[c].dir # {} => fb[c].segment \in 1..Len(seg)
  PROVE  LET new == PackSegments(fb, seg)
         IN  /\ new \in PackStates(fb, dom, Len(seg), mem)
             /\ new.n <= fSegment + Room
             /\ Len(seg) <= fSegment + Room =>
                  new.seg = seg /\ new.fb = fb /\ new.n = Len(seg)
<1> DEFINE L == Len(seg)
           N == L + 2
           S == PackStates(fb, dom, L, mem)
           base == [seg |-> seg, fb |-> fb, n |-> L, err |-> ErrorTable(seg),
                    pass1 |-> TRUE, failed |-> FALSE]
           step == [k \in 1..N |-> [st \in S |-> PackStep(st)]]
           Is(f) == f = [k \in 0..N |-> IF k = 0 THEN base ELSE PackStep(f[k - 1])]
           packed == CHOOSE f : Is(f)
<1>1. /\ L \in Nat /\ N \in Nat /\ fSegment \in Nat /\ Room \in Nat /\ fSegment <= L
      /\ seg \in Seq(BarSegment) /\ DOMAIN seg = 1..L
      /\ \A k \in 1..N : k - 1 \in 0..N /\ k \in 0..N /\ k # 0
  BY FixedLength, RoomType DEF TableOK
<1>2. ErrorTable(seg) \in [(1..L) \X (1..L) -> Nat]
  <2>1. \A p \in (1..L) \X (1..L) :
          (IF p[1] = p[2] THEN Impossible ELSE SegmentError(seg[p[1]], seg[p[2]])) \in Nat
    <3> TAKE p \in (1..L) \X (1..L)
    <3>1. seg[p[1]] \in BarSegment /\ seg[p[2]] \in BarSegment
      BY <1>1
    <3> QED
      BY <3>1, SegmentErrorType DEF Impossible
  <2> QED
    BY <1>1, <2>1 DEF ErrorTable
<1>3. base \in S
  <2>1. base \in Packing(dom, L)
    BY <1>1, <1>2 DEF Packing, BarCellsOK
  <2>2. CharsOK(seg)
    BY DEF CharsOK, OwnOK, HasChar
  <2>3. Packed(base, fb, dom, L, mem)
    BY <1>1, <2>2 DEF Packed
  <2> QED
    BY <2>1, <2>3 DEF PackStates
<1>4. CASE L <= fSegment + Room
  <2>1. PackStep(base) = base
    BY <1>4 DEF PackStep
  <2> HIDE DEF base, N, L
  <2>2. Is([k \in 0..N |-> base])
    BY <1>1, <2>1
  <2>3. Is(packed)
    BY <2>2
  <2> HIDE DEF packed
  <2> DEFINE P == {k \in 0..N : packed[k] = base}
  <2>4. 0 \in P
    BY <1>1, <2>3
  <2>5. \A k \in 1..N : k - 1 \in P => k \in P
    BY <1>1, <2>1, <2>3
  <2> HIDE DEF P
  <2>6. \A k \in 0..N : k \in P
    BY <1>1, <2>4, <2>5, LoopInvariant
  <2>7. packed[N] = base
    BY <1>1, <2>6 DEF P
  <2>8. PackSegments(fb, seg) = packed[N]
    BY DEF PackSegments, packed, base, N, L
  <2>9. PackSegments(fb, seg) = base
    BY <2>7, <2>8
  <2> QED
    BY <1>3, <1>4, <2>9 DEF base, L
<1>5. CASE ~(L <= fSegment + Room)
  <2>1. Room <= L
    BY <1>1, <1>5
  <2> HIDE DEF base, N, S, L
  <2>2. ASSUME NEW st \in S
        PROVE  LET new == PackStep(st)
               IN  /\ new \in S
                   /\ Ready(st) => new = st
                   /\ Ready(new) \/ new.n + PassNumber(new) <= st.n + PassNumber(st) - 1
    BY <1>1, <2>1, PackStepKeeps DEF S
  <2>3. LoopOf(N, S, base, step)
    BY <1>3, <2>2 DEF LoopOf
  <2>4. PICK f : IsRun(f, N, S, base, step)
    <3> HIDE DEF step
    <3> QED
      BY <1>1, <2>3, LoopRuns
  <2>5. Is(f)
    <3>1. ASSUME NEW k \in 1..N PROVE f[k] = PackStep(f[k - 1])
      <4>1. f[k - 1] \in S /\ f[k] = step[k][f[k - 1]]
        BY <1>1, <2>4 DEF IsRun
      <4> QED
        BY <4>1
    <3> QED
      BY <1>1, <2>4, <3>1 DEF IsRun
  <2>6. Is(packed)
    BY <2>5
  <2>7. PackSegments(fb, seg) = packed[N]
    BY DEF PackSegments, base, L, N
  <2> HIDE DEF packed
  <2>8. packed[0] = base /\ \A k \in 1..N : packed[k] = PackStep(packed[k - 1])
    BY <1>1, <2>6
  <2> DEFINE Progress(st, k) == Ready(st) \/ st.n + PassNumber(st) <= L + 1 - k
             P == {k \in 0..N : packed[k] \in S /\ Progress(packed[k], k)}
  <2>9. 0 \in P
    <3>1. base.n + PassNumber(base) <= L + 1 - 0
      BY <1>1 DEF base, PassNumber
    <3> QED
      BY <1>1, <1>3, <2>8, <3>1
  <2>10. ASSUME NEW k \in 1..N, k - 1 \in P PROVE k \in P
    <3> DEFINE st == packed[k - 1]
               new == PackStep(st)
    <3>1. st \in S /\ Progress(st, k - 1) /\ packed[k] = new
      BY <2>8, <2>10
    <3>2. /\ new \in S
          /\ Ready(st) => new = st
          /\ Ready(new) \/ new.n + PassNumber(new) <= st.n + PassNumber(st) - 1
      BY <2>2, <3>1
    <3>3. st.n \in Nat /\ new.n \in Nat /\ PassNumber(st) \in Nat /\ PassNumber(new) \in Nat
      <4> HIDE DEF st, new
      <4> QED
        BY <1>1, <3>1, <3>2 DEF S, PackStates, Packing, PassNumber
    <3> HIDE DEF st, new
    <3>4. Progress(new, k)
      BY <1>1, <3>1, <3>2, <3>3
    <3> HIDE DEF Progress
    <3> QED
      BY <1>1, <3>1, <3>2, <3>4
  <2>11. packed[N] \in S /\ Progress(packed[N], N)
    <3> HIDE DEF P
    <3>1. \A k \in 0..N : k \in P
      BY <1>1, <2>9, <2>10, LoopInvariant
    <3>2. N \in P
      BY <1>1, <3>1
    <3> HIDE DEF Progress
    <3> QED
      BY <3>2 DEF P
  <2> DEFINE new == packed[N]
  <2>12. new \in Packing(dom, L) /\ Packed(new, fb, dom, L, mem)
    BY <2>11 DEF S, PackStates
  <2> HIDE DEF new
  <2>13. new.n \in Nat /\ PassNumber(new) \in Nat
    BY <1>1, <2>12 DEF Packing, PassNumber
  <2>14. Ready(new)
    BY <1>1, <2>11, <2>13 DEF N, new
  <2>15. new.n <= fSegment + Room
    BY <1>1, <2>12, <2>14 DEF Ready, Packed
  <2> QED
    BY <1>5, <2>7, <2>11, <2>15 DEF S, L, new
<1> QED
  BY <1>4, <1>5

-----------------------------------------------------------------------------
(***************************************************************************)
(* bar_define_chars                                                        *)
(***************************************************************************)
\* A segment without a character finds one: the others cannot have them all.
LEMMA FreeCharIsFree ==
  ASSUME NEW seg, NEW n \in Nat, n <= fSegment + Room,
         NEW i \in (fSegment + 1)..n, seg[i].ascii = Undefined
  PROVE  /\ FreeChar(seg, n) \in 0..(Room - 1)
         /\ \A j \in (fSegment + 1)..n : seg[j].ascii # FreeChar(seg, n)
<1> DEFINE own == (fSegment + 1)..n
           free == {c \in 0..Room : c = Room \/ \A j \in own : seg[j].ascii # c}
           T == own \ {i}
           S == 0..(Room - 1)
<1>1. fSegment \in Nat /\ Room \in Nat
  BY FixedLength, RoomType
<1>2. Min(free) \in free /\ \A y \in free : Min(free) <= y
  <2>1. free \in SUBSET Nat /\ Room \in free
    BY <1>1
  <2> HIDE DEF free
  <2> QED
    BY <2>1, MinProperty
<1>3. \E c \in S : \A j \in own : seg[j].ascii # c
  <2> SUFFICES ASSUME \A c \in S : \E j \in own : seg[j].ascii = c
               PROVE  FALSE
    OBVIOUS
  <2> DEFINE g == [c \in S |-> CHOOSE j \in T : seg[j].ascii = c]
  <2>1. \A c \in S : \E j \in T : seg[j].ascii = c
    BY DEF Undefined
  <2>2. g \in [S -> T] /\ \A c \in S : seg[g[c]].ascii = c
    BY <2>1
  <2>3. IsFiniteSet(own) /\ Cardinality(own) = n - fSegment
    <3>1. IsFiniteSet((fSegment + 1)..n)
          /\ Cardinality((fSegment + 1)..n) = IF fSegment + 1 > n THEN 0 ELSE n - (fSegment + 1) + 1
      BY <1>1, FS_Interval
    <3> QED
      BY <1>1, <3>1
  <2>4. IsFiniteSet(S) /\ Cardinality(S) = Room
    <3>1. IsFiniteSet(0..(Room - 1))
          /\ Cardinality(0..(Room - 1)) = IF 0 > Room - 1 THEN 0 ELSE (Room - 1) - 0 + 1
      BY <1>1, FS_Interval
    <3> QED
      BY <1>1, <3>1
  <2> HIDE DEF own, S, g
  <2>5. IsFiniteSet(T) /\ Cardinality(T) = n - fSegment - 1
    <3>1. i \in own
      BY DEF own
    <3> QED
      BY <2>3, <3>1, FS_RemoveElement
  <2>6. Cardinality(T) < Cardinality(S)
    BY <1>1, <2>4, <2>5
  <2> HIDE DEF T
  <2>7. \E x, y \in S : x # y /\ g[x] = g[y]
    BY <2>2, <2>4, <2>5, <2>6, FS_PigeonHole
  <2> QED
    BY <2>2, <2>7
<1>4. PICK c \in S : \A j \in own : seg[j].ascii # c
  BY <1>3
<1>5. c \in free /\ c < Room
  BY <1>1, <1>4
<1>6. FreeChar(seg, n) = Min(free)
  BY DEF FreeChar
<1> DEFINE m == Min(free)
<1>7. m \in 0..Room /\ m < Room /\ (m = Room \/ \A j \in own : seg[j].ascii # m)
  <2>1. m \in 0..Room /\ (m = Room \/ \A j \in own : seg[j].ascii # m)
    BY <1>2
  <2>2. m <= c /\ c \in Nat
    BY <1>2, <1>5
  <2> HIDE DEF m, free
  <2> QED
    BY <1>1, <1>5, <2>1, <2>2
<1> HIDE DEF m, free
<1> QED
  BY <1>1, <1>6, <1>7 DEF m

\* A segment's bitmap and what it matches do not depend on its character.
LEMMA BitmapWithoutChar ==
  ASSUME NEW s \in BarSegment, NEW c \in Int
  PROVE  /\ [s EXCEPT !.ascii = c] \in BarSegment
         /\ [s EXCEPT !.ascii = c].ascii = c
         /\ [s EXCEPT !.ascii = c].used = s.used
         /\ Bitmap([s EXCEPT !.ascii = c]) = Bitmap(s)
         /\ \A b : Matches([s EXCEPT !.ascii = c], b) = Matches(s, b)
<1> DEFINE t == [s EXCEPT !.ascii = c]
<1>1. /\ t \in BarSegment /\ t.ascii = c /\ t.used = s.used
      /\ t.dir = s.dir /\ t.val1 = s.val1 /\ t.val2 = s.val2 /\ t.style = s.style
  BY DEF BarSegment
<1> HIDE DEF t
<1>2. Bitmap(t) = Bitmap(s) /\ \A b : Matches(t, b) = Matches(s, b)
  BY <1>1 DEF Bitmap, Matches
<1> QED
  BY <1>1, <1>2 DEF t

\* The states of the loop of bar_define_chars() that started with memory mem.
Bitmaps(mem) == {mem[k] : k \in DOMAIN mem} \cup {Bitmap(s) : s \in BarSegment}
Memories(mem) == UNION {[D -> Bitmaps(mem)] : D \in SUBSET Byte}
Defining(mem, n) ==
  [seg : Seq(BarSegment), cgram : Memories(mem), defined : SUBSET ((fSegment + 1)..n)]

\* What it keeps of the table seg and the memory mem: nothing changes but the
\* characters of the segments it defined and their bitmaps.
Defined(st, seg, n, mem) ==
  /\ TableOK(st.seg) /\ Len(st.seg) = Len(seg) /\ CharsOK(st.seg)
  /\ OwnOK(st.seg, n, st.cgram)
  /\ \A i \in 1..Len(seg) : IF i \in st.defined
       THEN st.seg[i] = [seg[i] EXCEPT !.ascii = st.seg[i].ascii]
              /\ st.seg[i].ascii # Undefined
       ELSE st.seg[i] = seg[i]
  /\ DOMAIN mem \subseteq DOMAIN st.cgram
  /\ \A code \in Byte :
       (\A i \in st.defined : code # CHAR0 + st.seg[i].ascii) =>
         Glyph(st.cgram, code) = Glyph(mem, code)
DefineStates(seg, n, mem) == {st \in Defining(mem, n) : Defined(st, seg, n, mem)}

\* A memory after some characters were defined is one.
LEMMA MemoryType ==
  ASSUME NEW mem, NEW g \in Memories(mem)
  PROVE  /\ DOMAIN g \subseteq Byte /\ g = [k \in DOMAIN g |-> g[k]]
         /\ \A k \in DOMAIN g : g[k] \in Bitmaps(mem)
<1>1. PICK D \in SUBSET Byte : g \in [D -> Bitmaps(mem)]
  BY DEF Memories
<1> QED
  BY <1>1

\* How to show that something is such a memory.
LEMMA MemoryIntro ==
  ASSUME NEW mem, NEW D \in SUBSET Byte, NEW g \in [D -> Bitmaps(mem)]
  PROVE  g \in Memories(mem)
  BY DEF Memories

\* One turn: segment i gets a character no other segment has, with its bitmap.
LEMMA DefineCharKeeps ==
  ASSUME NEW seg \in Seq(BarSegment), NEW n \in Nat, n <= Len(seg), n <= fSegment + Room,
         NEW mem, NEW st \in DefineStates(seg, n, mem), NEW i \in (fSegment + 1)..n
  PROVE  LET new == DefineChar(st, i, n)
         IN  /\ new \in DefineStates(seg, n, mem)
             /\ new.seg[i].ascii # Undefined
             /\ \A j \in (fSegment + 1)..n :
                  st.seg[j].ascii # Undefined => new.seg[j].ascii # Undefined
<1> DEFINE new == DefineChar(st, i, n)
           own == (fSegment + 1)..n
           s == st.seg[i]
<1>1. /\ st \in Defining(mem, n) /\ Defined(st, seg, n, mem)
      /\ fSegment \in Nat /\ Room \in Nat /\ Len(seg) \in Nat
      /\ st.seg \in Seq(BarSegment) /\ Len(st.seg) = Len(seg) /\ st.cgram \in Memories(mem)
      /\ st.defined \subseteq own
      /\ own \subseteq 1..Len(seg) /\ i \in 1..Len(seg)
      /\ s \in BarSegment /\ seg[i] \in BarSegment
  <2>1. st \in Defining(mem, n) /\ Defined(st, seg, n, mem)
    BY DEF DefineStates
  <2>2. fSegment \in Nat /\ Room \in Nat /\ Len(seg) \in Nat
    BY FixedLength, RoomType
  <2>3. st.seg \in Seq(BarSegment) /\ st.cgram \in Memories(mem) /\ st.defined \subseteq own
    BY <2>1 DEF Defining
  <2>4. Len(st.seg) = Len(seg)
    BY <2>1 DEF Defined
  <2>5. own \subseteq 1..Len(seg) /\ i \in 1..Len(seg)
    BY <2>2
  <2>6. s \in BarSegment /\ seg[i] \in BarSegment
    BY <2>3, <2>4, <2>5
  <2> QED
    BY <2>1, <2>2, <2>3, <2>4, <2>5, <2>6
<1>2. CASE s.used \/ s.ascii # Undefined
  <2>1. new = st
    BY <1>2 DEF DefineChar
  <2>2. s.ascii # Undefined
    BY <1>1, <1>2 DEF Defined, OwnOK
  <2> HIDE DEF new
  <2> QED
    BY <2>1, <2>2 DEF new
<1>3. CASE ~(s.used \/ s.ascii # Undefined)
  <2> DEFINE c == FreeChar(st.seg, n)
             t == [s EXCEPT !.ascii = c]
             g == [k \in DOMAIN st.cgram \cup {CHAR0 + c} |->
                     IF k = CHAR0 + c THEN Bitmap(s) ELSE st.cgram[k]]
             table == [st.seg EXCEPT ![i] = t]
  <2>1. new = [seg |-> table, cgram |-> g, defined |-> st.defined \cup {i}]
    BY <1>3 DEF DefineChar
  <2>2. c \in 0..(Room - 1) /\ \A j \in own : st.seg[j].ascii # c
    BY <1>3, FreeCharIsFree
  <2>3. c \in Int /\ c # Undefined /\ CHAR0 + c \in Byte /\ CHAR0 \in Nat
    BY <1>1, <2>2, RoomType DEF Undefined
  <2> HIDE DEF c
  <2>4. t \in BarSegment /\ t.ascii = c /\ t.used = s.used /\ Bitmap(t) = Bitmap(s)
    <3> HIDE DEF s
    <3> QED
      BY <1>1, <2>3, BitmapWithoutChar
  <2>5. i \notin st.defined
    BY <1>1, <1>3 DEF Defined
  <2>6. t = [seg[i] EXCEPT !.ascii = t.ascii]
    <3>1. s = seg[i]
      BY <1>1, <2>5 DEF Defined
    <3> QED
      BY <2>4, <3>1
  <2>7. /\ table \in Seq(BarSegment) /\ Len(table) = Len(seg) /\ table[i] = t
        /\ \A j \in 1..Len(seg) : j # i => table[j] = st.seg[j]
    <3> HIDE DEF t
    <3> QED
      BY <1>1, <2>4
  <2>8. g \in Memories(mem)
    <3>1. /\ DOMAIN st.cgram \subseteq Byte
          /\ \A k \in DOMAIN st.cgram : st.cgram[k] \in Bitmaps(mem)
      BY <1>1, MemoryType
    <3>2. Bitmap(s) \in Bitmaps(mem)
      BY <1>1 DEF Bitmaps
    <3>3. g \in [DOMAIN st.cgram \cup {CHAR0 + c} -> Bitmaps(mem)]
      BY <3>1, <3>2
    <3>4. DOMAIN st.cgram \cup {CHAR0 + c} \in SUBSET Byte
      BY <2>3, <3>1
    <3> HIDE DEF g
    <3> QED
      BY <3>3, <3>4, MemoryIntro
  <2> DEFINE B == Bitmap(s)
  <2>9. /\ DOMAIN g = DOMAIN st.cgram \cup {CHAR0 + c} /\ g[CHAR0 + c] = B
        /\ \A k \in DOMAIN st.cgram : k # CHAR0 + c => g[k] = st.cgram[k]
    OBVIOUS
  <2>10. \A k \in Byte : k # CHAR0 + c => Glyph(g, k) = Glyph(st.cgram, k)
    BY <2>9 DEF Glyph
  <2>11. Bitmap(t) = B
    BY <2>4
  <2> HIDE DEF new, t, g, table, s, B
  <2>12. /\ new.seg = table /\ new.cgram = g /\ new.defined = st.defined \cup {i}
         /\ new \in Defining(mem, n)
    BY <1>1, <2>1, <2>7, <2>8 DEF Defining
  <2>13. TableOK(table)
    <3>1. \A j \in 1..fSegment : j # i /\ j \in 1..Len(seg)
      BY <1>1 DEF Defined, TableOK
    <3>2. \A j \in 1..fSegment : table[j] = st.seg[j]
      BY <2>7, <3>1
    <3> QED
      BY <1>1, <2>7, <3>2 DEF Defined, TableOK
  <2>14. CharsOK(table)
    <3>1. \A j \in (fSegment + 1)..Len(seg) : j \in 1..Len(seg)
      BY <1>1
    <3> QED
      BY <1>1, <2>2, <2>4, <2>7, <3>1 DEF Defined, CharsOK
  <2>15. OwnOK(table, n, g)
    <3>1. HasChar(t, g)
      BY <2>2, <2>4, <2>9, <2>11 DEF HasChar
    <3>2. ASSUME NEW j \in own, j # i
          PROVE  /\ table[j] = st.seg[j] /\ st.seg[j].ascii # c
                 /\ st.seg[j].used => st.seg[j].ascii # Undefined
                 /\ st.seg[j].ascii # Undefined => HasChar(st.seg[j], g)
      <4>1. table[j] = st.seg[j] /\ st.seg[j].ascii # c
        BY <1>1, <2>2, <2>7, <3>2
      <4>2. /\ st.seg[j].used => st.seg[j].ascii # Undefined
            /\ st.seg[j].ascii # Undefined => HasChar(st.seg[j], st.cgram)
        BY <1>1 DEF Defined, OwnOK
      <4>3. HasChar(st.seg[j], st.cgram) => HasChar(st.seg[j], g)
        <5>1. CHAR0 + st.seg[j].ascii # CHAR0 + c \/ st.seg[j].ascii \notin 0..(Room - 1)
          BY <2>3, <4>1
        <5> QED
          BY <2>9, <5>1 DEF HasChar
      <4> QED
        BY <4>1, <4>2, <4>3
    <3>3. \A j \in own : j # i /\ st.seg[j].ascii # Undefined => table[j].ascii # c
      BY <3>2
    <3>4. \A j, k \in own : j # k /\ st.seg[j].ascii # Undefined => st.seg[j].ascii # st.seg[k].ascii
      BY <1>1 DEF Defined, OwnOK
    <3>5. ASSUME NEW j \in own
          PROVE  /\ table[j].used => table[j].ascii # Undefined
                 /\ table[j].ascii # Undefined => HasChar(table[j], g)
      BY <2>3, <2>4, <2>7, <3>1, <3>2
    <3>6. ASSUME NEW j \in own, NEW k \in own, j # k, table[j].ascii # Undefined
          PROVE  table[j].ascii # table[k].ascii
      BY <2>4, <2>7, <3>2, <3>4, <3>6
    <3> QED
      BY <3>5, <3>6 DEF OwnOK
  <2>16. ASSUME NEW j \in 1..Len(seg)
         PROVE  IF j \in new.defined
                THEN table[j] = [seg[j] EXCEPT !.ascii = table[j].ascii]
                       /\ table[j].ascii # Undefined
                ELSE table[j] = seg[j]
    <3>1. CASE j = i
      BY <2>3, <2>4, <2>6, <2>7, <2>12, <3>1
    <3>2. CASE j # i
      BY <1>1, <2>7, <2>12, <3>2 DEF Defined
    <3> QED
      BY <3>1, <3>2
  <2>17. ASSUME NEW code \in Byte, \A j \in new.defined : code # CHAR0 + table[j].ascii
         PROVE  Glyph(g, code) = Glyph(mem, code)
    <3>1. code # CHAR0 + c
      BY <2>4, <2>7, <2>12, <2>17
    <3>2. \A j \in st.defined : code # CHAR0 + st.seg[j].ascii
      BY <1>1, <2>5, <2>7, <2>12, <2>17
    <3>3. Glyph(st.cgram, code) = Glyph(mem, code)
      BY <1>1, <3>2 DEF Defined
    <3> QED
      BY <2>10, <3>1, <3>3
  <2>18. DOMAIN mem \subseteq DOMAIN g
    BY <1>1, <2>9 DEF Defined
  <2>19. Defined(new, seg, n, mem)
    BY <2>7, <2>12, <2>13, <2>14, <2>15, <2>16, <2>17, <2>18 DEF Defined
  <2>20. new.seg[i].ascii # Undefined
    BY <2>3, <2>4, <2>7, <2>12
  <2>21. \A j \in own : st.seg[j].ascii # Undefined => new.seg[j].ascii # Undefined
    BY <1>1, <2>3, <2>4, <2>7, <2>12
  <2> QED
    BY <2>12, <2>19, <2>20, <2>21 DEF new, DefineStates
<1> QED
  BY <1>2, <1>3

IsMemory(mem) == DOMAIN mem \subseteq Byte /\ mem = [k \in DOMAIN mem |-> mem[k]]

\* bar_define_chars(): every segment in use has its own character and bitmap.
LEMMA CharsAreDefined ==
  ASSUME NEW seg, TableOK(seg), CharsOK(seg), NEW n \in Nat, n <= Len(seg),
         n <= fSegment + Room, NEW mem, IsMemory(mem), OwnOK(seg, n, mem)
  PROVE  LET new == DefineChars(seg, n, mem)
         IN  /\ new \in DefineStates(seg, n, mem)
             /\ \A i \in (fSegment + 1)..n : new.seg[i].ascii # Undefined
<1> DEFINE N == OwnCount(n)
           S == DefineStates(seg, n, mem)
           base == [seg |-> seg, cgram |-> mem, defined |-> {}]
           step == [k \in 1..N |-> [st \in S |-> DefineChar(st, fSegment + k, n)]]
           Is(f) == f = [k \in 0..N |-> IF k = 0 THEN base
                                        ELSE DefineChar(f[k - 1], fSegment + k, n)]
           after == CHOOSE f : Is(f)
<1>1. /\ N \in Nat /\ fSegment \in Nat
      /\ \A k \in 1..N : k - 1 \in 0..N /\ k \in 0..N /\ k # 0
      /\ \A k \in 1..N : fSegment + k \in (fSegment + 1)..n
      /\ \A i \in (fSegment + 1)..n : i - fSegment \in 1..N
  <2>1. /\ N \in Nat /\ fSegment \in Nat
        /\ \A k \in 1..N : fSegment + k \in (fSegment + 1)..n
        /\ \A i \in (fSegment + 1)..n : i - fSegment \in 1..N
    BY OwnCountType, FixedLength
  <2> HIDE DEF N
  <2>2. \A k \in 1..N : k - 1 \in 0..N /\ k \in 0..N /\ k # 0
    BY <2>1
  <2> QED
    BY <2>1, <2>2
<1>2. seg \in Seq(BarSegment)
  BY DEF TableOK
<1>3. base \in S
  <2>1. mem \in Memories(mem)
    <3>1. mem \in [DOMAIN mem -> Bitmaps(mem)] /\ DOMAIN mem \in SUBSET Byte
      BY DEF IsMemory, Bitmaps
    <3> QED
      BY <3>1, MemoryIntro
  <2>2. base \in Defining(mem, n)
    BY <1>2, <2>1 DEF Defining
  <2>3. Defined(base, seg, n, mem)
    BY DEF Defined
  <2> QED
    BY <2>2, <2>3 DEF DefineStates
<1> HIDE DEF N, S, base
<1>4. ASSUME NEW st \in S, NEW k \in 1..N
      PROVE  LET new == DefineChar(st, fSegment + k, n)
             IN  /\ new \in S
                 /\ new.seg[fSegment + k].ascii # Undefined
                 /\ \A j \in (fSegment + 1)..n :
                      st.seg[j].ascii # Undefined => new.seg[j].ascii # Undefined
  BY <1>1, <1>2, DefineCharKeeps DEF S
<1>5. LoopOf(N, S, base, step)
  BY <1>3, <1>4 DEF LoopOf
<1>6. PICK f : IsRun(f, N, S, base, step)
  <2> HIDE DEF step
  <2> QED
    BY <1>1, <1>5, LoopRuns
<1>7. Is(f)
  <2>1. ASSUME NEW k \in 1..N PROVE f[k] = DefineChar(f[k - 1], fSegment + k, n)
    <3>1. f[k - 1] \in S /\ f[k] = step[k][f[k - 1]]
      BY <1>1, <1>6 DEF IsRun
    <3> QED
      BY <3>1
  <2> QED
    BY <1>1, <1>6, <2>1 DEF IsRun
<1>8. Is(after)
  BY <1>7
<1>9. DefineChars(seg, n, mem) = after[N]
  BY DEF DefineChars, base, N
<1> HIDE DEF after
<1>10. after[0] = base /\ \A k \in 1..N : after[k] = DefineChar(after[k - 1], fSegment + k, n)
  BY <1>1, <1>8
<1> DEFINE Done(k) == \A m \in 1..k : after[k].seg[fSegment + m].ascii # Undefined
           P == {k \in 0..N : after[k] \in S /\ Done(k)}
<1>11. 0 \in P
  BY <1>1, <1>3, <1>10
<1>12. ASSUME NEW k \in 1..N, k - 1 \in P PROVE k \in P
  <2>1. /\ after[k - 1] \in S /\ Done(k - 1)
        /\ after[k] = DefineChar(after[k - 1], fSegment + k, n)
    BY <1>10, <1>12
  <2>2. /\ after[k] \in S
        /\ after[k].seg[fSegment + k].ascii # Undefined
        /\ \A j \in (fSegment + 1)..n :
             after[k - 1].seg[j].ascii # Undefined => after[k].seg[j].ascii # Undefined
    BY <1>4, <2>1
  <2>3. ASSUME NEW m \in 1..k PROVE after[k].seg[fSegment + m].ascii # Undefined
    <3>1. CASE m = k
      BY <2>2, <3>1
    <3>2. CASE m # k
      <4>1. m \in 1..(k - 1) /\ m \in 1..N
        BY <1>1, <3>2
      <4> QED
        BY <1>1, <2>1, <2>2, <4>1
    <3> QED
      BY <3>1, <3>2
  <2> QED
    BY <1>1, <2>2, <2>3
<1>13. after[N] \in S /\ Done(N)
  <2> HIDE DEF P
  <2>1. \A k \in 0..N : k \in P
    BY <1>1, <1>11, <1>12, LoopInvariant
  <2>2. N \in P
    BY <1>1, <2>1
  <2> HIDE DEF Done
  <2> QED
    BY <2>2 DEF P
<1>14. ASSUME NEW i \in (fSegment + 1)..n PROVE after[N].seg[i].ascii # Undefined
  <2>1. i - fSegment \in 1..N /\ fSegment + (i - fSegment) = i
    BY <1>1
  <2> QED
    BY <1>13, <2>1
<1> QED
  BY <1>9, <1>13, <1>14 DEF S

\* The greatest element of a set of numbers up to a bound.
LEMMA MaxProperty ==
  ASSUME NEW N \in Nat, NEW S \in SUBSET (0..N), S # {}
  PROVE  Max(S) \in S /\ \A y \in S : Max(S) >= y
<1> DEFINE T == {N - x : x \in S}
           x == N - Min(T)
<1>1. T \in SUBSET Nat /\ T # {}
  <2>1. \A z \in S : N - z \in Nat
    OBVIOUS
  <2> QED
    BY <2>1
<1>2. Min(T) \in T /\ \A y \in T : Min(T) <= y
  <2> HIDE DEF T
  <2> QED
    BY <1>1, MinProperty
<1>3. x \in S /\ \A y \in S : x >= y
  <2>1. PICK z \in S : Min(T) = N - z
    BY <1>2
  <2>2. z \in 0..N
    OBVIOUS
  <2>3. x = z
    BY <2>1, <2>2
  <2>4. ASSUME NEW y \in S PROVE z >= y
    <3>1. N - y \in T /\ y \in 0..N
      OBVIOUS
    <3>2. N - z <= N - y
      BY <1>2, <2>1, <3>1
    <3> QED
      BY <2>2, <3>1, <3>2
  <2> HIDE DEF x, T
  <2> QED
    BY <2>3, <2>4
<1>4. \E z \in S : \A y \in S : z >= y
  BY <1>3
<1> QED
  BY <1>4 DEF Max

\* The usage flag changes neither the character nor the bitmap.
LEMMA UsedFlag ==
  ASSUME NEW s \in BarSegment, NEW u \in BOOLEAN
  PROVE  /\ [s EXCEPT !.used = u] \in BarSegment
         /\ [s EXCEPT !.used = u].ascii = s.ascii /\ [s EXCEPT !.used = u].used = u
         /\ Bitmap([s EXCEPT !.used = u]) = Bitmap(s)
         /\ \A b : Matches([s EXCEPT !.used = u], b) = Matches(s, b)
<1> DEFINE t == [s EXCEPT !.used = u]
<1>1. /\ t \in BarSegment /\ t.ascii = s.ascii /\ t.used = u
      /\ t.dir = s.dir /\ t.val1 = s.val1 /\ t.val2 = s.val2 /\ t.style = s.style
  BY DEF BarSegment
<1> HIDE DEF t
<1>2. Bitmap(t) = Bitmap(s) /\ \A b : Matches(t, b) = Matches(s, b)
  BY <1>1 DEF Bitmap, Matches
<1> QED
  BY <1>1, <1>2 DEF t

\* What is left of the table keeps everything but the usage flags.
TableInUse(seg, n, mem, fb, dom) ==
  /\ fb \in [dom -> Bar] /\ \A c \in dom : fb[c].segment \in 0..Len(seg)
  /\ TableOK(seg) /\ CharsOK(seg) /\ n \in 0..Len(seg) /\ OwnOK(seg, n, mem)
  /\ \A i \in (fSegment + 1)..n : seg[i].ascii # Undefined
TableKept(new, seg, n, mem, fb, dom) ==
  /\ TableOK(new) /\ CharsOK(new) /\ OwnOK(new, n, mem)
  /\ n <= Len(new)
  /\ \A c \in dom : fb[c].segment \in 0..Len(new)
  /\ \A i \in 1..Len(new) :
       /\ i \in 1..Len(seg) /\ new[i].ascii = seg[i].ascii
       /\ \A b : Matches(new[i], b) = Matches(seg[i], b)

\* The table that is kept after a draw, with its usage flags.
LEMMA SegmentsAreKept ==
  ASSUME NEW dom, NEW fb, NEW seg, NEW n, NEW mem, TableInUse(seg, n, mem, fb, dom)
  PROVE  TableKept(KeptSegments(seg, n, fb), seg, n, mem, fb, dom)
<1> USE DEF TableInUse
<1> DEFINE L == Len(seg)
           pointed == {fb[c].segment : c \in DOMAIN fb}
           all == pointed \cup {n, fSegment}
           M == Max(all)
           U(i) == (i > n /\ seg[i].used) \/ i \in pointed
           new == [i \in 1..M |-> [seg[i] EXCEPT !.used = U(i)]]
<1>1. L \in Nat /\ fSegment \in Nat /\ fSegment <= L /\ n \in 0..L /\ seg \in Seq(BarSegment)
  BY FixedLength DEF TableOK
<1>2. all \in SUBSET (0..L) /\ all # {} /\ n \in all /\ fSegment \in all
      /\ \A c \in dom : fb[c].segment \in all
  BY <1>1
<1>3. M \in all /\ \A y \in all : M >= y
  <2> HIDE DEF all, L
  <2> QED
    BY <1>1, <1>2, MaxProperty
<1>4. M \in 0..L /\ fSegment <= M /\ n <= M /\ \A c \in dom : fb[c].segment \in 0..M
  <2> HIDE DEF all, M
  <2> QED
    BY <1>1, <1>2, <1>3
<1>5. KeptSegments(seg, n, fb) = new
  <2>1. KeptSegments(seg, n, fb)
          = [i \in 1..M |-> [seg[i] EXCEPT !.used = (i > n /\ seg[i].used) \/ i \in pointed]]
    BY DEF KeptSegments
  <2> QED
    BY <2>1
<1> HIDE DEF M, all, pointed
<1>6. ASSUME NEW i \in 1..M
      PROVE  /\ i \in 1..L /\ seg[i] \in BarSegment /\ U(i) \in BOOLEAN
             /\ new[i] = [seg[i] EXCEPT !.used = U(i)]
  BY <1>1, <1>4
<1>7. ASSUME NEW i \in 1..M
      PROVE  /\ i \in 1..L
             /\ new[i] \in BarSegment /\ new[i].ascii = seg[i].ascii
             /\ new[i].used = U(i)
             /\ Bitmap(new[i]) = Bitmap(seg[i])
             /\ \A b : Matches(new[i], b) = Matches(seg[i], b)
  <2> DEFINE s == seg[i]
             u == U(i)
  <2>1. i \in 1..L /\ s \in BarSegment /\ u \in BOOLEAN /\ new[i] = [s EXCEPT !.used = u]
    BY <1>6
  <2> HIDE DEF new, s, u
  <2>2. /\ new[i] \in BarSegment /\ new[i].ascii = s.ascii /\ new[i].used = u
        /\ Bitmap(new[i]) = Bitmap(s)
        /\ \A b : Matches(new[i], b) = Matches(s, b)
    BY <2>1, UsedFlag
  <2> QED
    BY <2>1, <2>2 DEF s, u
<1>8. new \in Seq(BarSegment) /\ Len(new) = M
  <2>1. new = [i \in 1..M |-> new[i]]
    OBVIOUS
  <2> HIDE DEF new
  <2> QED
    BY <1>4, <1>7, <2>1
<1>9. TableOK(new)
  <2>1. ASSUME NEW i \in 1..fSegment
        PROVE  new[i] = [FixedSegments[i] EXCEPT !.used = new[i].used]
    <3>1. i \in 1..M
      BY <1>1, <1>4
    <3>2. new[i] = [seg[i] EXCEPT !.used = U(i)] /\ new[i].used = U(i)
      BY <1>6, <1>7, <3>1
    <3>3. seg[i] = [FixedSegments[i] EXCEPT !.used = seg[i].used]
      BY DEF TableOK
    <3>4. i \in 1..Len(FixedSegments) /\ FixedSegments[i] \in BarSegment
      BY FixedLength DEF fSegment
    <3> HIDE DEF new, U
    <3>5. [seg[i] EXCEPT !.used = U(i)] = [FixedSegments[i] EXCEPT !.used = U(i)]
      BY <3>3, <3>4 DEF BarSegment
    <3> QED
      BY <3>2, <3>5
  <2> HIDE DEF new
  <2> QED
    BY <1>1, <1>4, <1>8, <2>1 DEF TableOK
<1> HIDE DEF new
<1>10. CharsOK(new)
  <2>1. \A i \in (fSegment + 1)..M : i \in (fSegment + 1)..L /\ i \in 1..M
    BY <1>1, <1>4
  <2> QED
    BY <1>7, <1>8, <2>1 DEF CharsOK
<1>11. OwnOK(new, n, mem)
  <2>1. \A i \in (fSegment + 1)..n : i \in 1..M
    BY <1>1, <1>4
  <2> QED
    BY <1>7, <2>1 DEF OwnOK, HasChar
<1> QED
  BY <1>4, <1>5, <1>7, <1>8, <1>9, <1>10, <1>11 DEF TableKept

-----------------------------------------------------------------------------
(***************************************************************************)
(* What a bar draw computes                                                *)
(***************************************************************************)
\* The layout never gets smaller than the display.
SizeOK ==
  /\ LROWS \in Nat /\ LROWS >= DROWS
  /\ LCOLS \in Nat /\ LCOLS >= DCOLS

\* The table of segments and the cells that point into it.
SegmentsInv ==
  /\ BarCellsOK(BarFB, Layout(LROWS, LCOLS))
  /\ \A c \in Layout(LROWS, LCOLS) : BarFB[c].dir # {} =>
       /\ BarFB[c].segment \in 1..Len(Segment)
       /\ \E w \in DOMAIN Bars : c \in BarCells(w)
  /\ TableOK(Segment) /\ CharsOK(Segment)
  /\ nSegment \in 0..Len(Segment) /\ nSegment <= fSegment + Room
  /\ IsMemory(cgram)
  /\ OwnOK(Segment, nSegment, cgram)
  /\ \A i \in (fSegment + 1)..nSegment : Segment[i].ascii # Undefined

\* resizeFB() only grows a buffer, and keeps what is in it.
LEMMA GrownKeeps ==
  ASSUME SizeOK, NEW fb, DOMAIN fb = Layout(LROWS, LCOLS),
         NEW rows \in Int, NEW cols \in Int, NEW fill
  PROVE  LET new == Grown(fb, rows, cols, fill)
             R == NewRows(rows, cols)
             C == NewCols(rows, cols)
         IN  /\ R \in Nat /\ R >= LROWS /\ R >= rows
             /\ C \in Nat \ {0} /\ C >= LCOLS /\ C >= cols
             /\ DOMAIN new = Layout(R, C)
             /\ Layout(LROWS, LCOLS) \subseteq Layout(R, C)
             /\ Display \subseteq Layout(LROWS, LCOLS)
             /\ \A c \in Layout(LROWS, LCOLS) : new[c] = fb[c]
             /\ \A c \in Layout(R, C) \ Layout(LROWS, LCOLS) : new[c] = fill
<1> DEFINE R == NewRows(rows, cols)
           C == NewCols(rows, cols)
<1>1. /\ R \in Nat /\ R >= LROWS /\ R >= rows
      /\ C \in Nat \ {0} /\ C >= LCOLS /\ C >= cols
  BY DisplayAssumption DEF SizeOK, NewRows, NewCols
<1>2. 0..(LROWS - 1) \subseteq 0..(R - 1) /\ 0..(LCOLS - 1) \subseteq 0..(C - 1)
  BY <1>1 DEF SizeOK
<1>3. 0..(DROWS - 1) \subseteq 0..(LROWS - 1) /\ 0..(DCOLS - 1) \subseteq 0..(LCOLS - 1)
  BY DisplayAssumption DEF SizeOK
<1>4. /\ Layout(LROWS, LCOLS) \subseteq Layout(R, C)
      /\ Display \subseteq Layout(LROWS, LCOLS)
  BY <1>2, <1>3 DEF Layout, Display
<1> QED
  BY <1>1, <1>4 DEF Grown

\* A value that was clamped fits into its bar.
LEMMA ClampType ==
  ASSUME NEW v \in Int, NEW max \in Nat \ {0}
  PROVE  Clamp(v, max) \in 0..max
  BY DEF Clamp, AtMost

\* The values of the cells decide what a layout of bars may be.
ValuesKept(new, fb, dom) ==
  /\ new \in [dom -> Bar]
  /\ \A c \in dom : Values(new[c]) = Values(fb[c])
  /\ \A c \in dom : fb[c].dir = {} => new[c] = fb[c]

\* Cells with the values of sound cells are sound.
LEMMA SameValues ==
  ASSUME NEW dom, NEW fb, BarCellsOK(fb, dom), NEW new, ValuesKept(new, fb, dom)
  PROVE  /\ BarCellsOK(new, dom)
         /\ \A c \in dom : /\ new[c].dir = fb[c].dir /\ new[c].style = fb[c].style
                           /\ new[c].val1 = fb[c].val1 /\ new[c].val2 = fb[c].val2
<1>1. ASSUME NEW c \in dom
      PROVE  /\ new[c].dir = fb[c].dir /\ new[c].style = fb[c].style
             /\ new[c].val1 = fb[c].val1 /\ new[c].val2 = fb[c].val2
  <2>1. new[c] \in Bar /\ fb[c] \in Bar /\ Values(new[c]) = Values(fb[c])
    BY DEF BarCellsOK, ValuesKept
  <2> QED
    BY <2>1, MatchesValues
<1> QED
  BY <1>1 DEF BarCellsOK, ValuesKept

\* The steps of drv_generic_text_bar_draw() for bar w.
RowsWith(w) == NewRows(BarRows(w), BarCols(w))
ColsWith(w) == NewCols(BarRows(w), BarCols(w))
CellsWith(w) == Layout(RowsWith(w), ColsWith(w))
GrownBars(w) == Grown(BarFB, BarRows(w), BarCols(w), ClearedBar)
FirstValue(w, v1) == Clamp(v1, Bars[w].len * Res(Bars[w].dir))
SecondValue(w, v1, v2) ==
  IF Single_Segments THEN FirstValue(w, v1) ELSE Clamp(v2, Bars[w].len * Res(Bars[w].dir))
Created(w, v1, v2) ==
  CreateBar(GrownBars(w), Bars[w].row, Bars[w].col, Bars[w].dir, Bars[w].style, Bars[w].len,
            FirstValue(w, v1), SecondValue(w, v1, v2))
Needed(w, v1, v2) ==
  CreateSegments(Created(w, v1, v2), Segment, nSegment, RowMajor(RowsWith(w), ColsWith(w)))
PackedBars(w, v1, v2) == PackSegments(Needed(w, v1, v2).fb, Needed(w, v1, v2).seg)
CharsWith(w, v1, v2) ==
  DefineChars(PackedBars(w, v1, v2).seg, PackedBars(w, v1, v2).n, cgram)

\* BarsAfter is the sequence of these steps.
LEMMA BarsAfterSteps ==
  ASSUME NEW w, NEW v1, NEW v2
  PROVE  BarsAfter(w, v1, v2) =
           [fb |-> PackedBars(w, v1, v2).fb, n |-> PackedBars(w, v1, v2).n,
            seg |-> KeptSegments(CharsWith(w, v1, v2).seg, PackedBars(w, v1, v2).n,
                                 PackedBars(w, v1, v2).fb),
            cgram |-> CharsWith(w, v1, v2).cgram, defined |-> CharsWith(w, v1, v2).defined]
  BY DEF BarsAfter, CharsWith, PackedBars, Needed, Created, FirstValue, SecondValue,
         GrownBars, RowsWith, ColsWith

\* The layout as it is large enough for bar w.
LEMMA BarSize ==
  ASSUME SizeOK, DOMAIN BarFB = Layout(LROWS, LCOLS), NEW w \in DOMAIN Bars
  PROVE  /\ BarRows(w) \in Int /\ BarCols(w) \in Int
         /\ RowsWith(w) \in Nat /\ ColsWith(w) \in Nat \ {0}
         /\ RowsWith(w) >= LROWS /\ ColsWith(w) >= LCOLS
         /\ DOMAIN GrownBars(w) = CellsWith(w)
         /\ Display \subseteq Layout(LROWS, LCOLS)
         /\ Layout(LROWS, LCOLS) \subseteq CellsWith(w)
         /\ \A c \in Layout(LROWS, LCOLS) : GrownBars(w)[c] = BarFB[c]
         /\ \A c \in CellsWith(w) \ Layout(LROWS, LCOLS) : GrownBars(w)[c] = ClearedBar
<1>1. BarRows(w) \in Int /\ BarCols(w) \in Int
  BY BarTypes DEF BarRows, BarCols
<1> QED
  BY <1>1, GrownKeeps DEF RowsWith, ColsWith, CellsWith, GrownBars

\* What the cells look like once the bar was created.
LEMMA BarIsDrawn ==
  ASSUME SizeOK, BarCellsOK(BarFB, Layout(LROWS, LCOLS)),
         NEW w \in DOMAIN Bars, NEW v1 \in Int, NEW v2 \in Int
  PROVE  LET new == Created(w, v1, v2)
         IN  /\ BarCellsOK(new, CellsWith(w))
             /\ \A c \in CellsWith(w) \ BarCells(w) : new[c] = GrownBars(w)[c]
             /\ \A k \in 0..(Bars[w].len - 1) :
                  /\ CellOf(w, k) \in CellsWith(w)
                  /\ new[CellOf(w, k)].dir = Bars[w].dir
                  /\ new[CellOf(w, k)].val1
                       = Pixels(FirstValue(w, v1), k, Bars[w].len, Bars[w].dir)
                  /\ new[CellOf(w, k)].val2
                       = Pixels(SecondValue(w, v1, v2), k, Bars[w].len, Bars[w].dir)
<1>1. /\ DOMAIN GrownBars(w) = CellsWith(w) /\ Display \subseteq CellsWith(w)
      /\ \A c \in Layout(LROWS, LCOLS) : GrownBars(w)[c] = BarFB[c]
      /\ \A c \in CellsWith(w) \ Layout(LROWS, LCOLS) : GrownBars(w)[c] = ClearedBar
  <2>1. DOMAIN BarFB = Layout(LROWS, LCOLS)
    BY DEF BarCellsOK
  <2> QED
    BY <2>1, BarSize
<1>2. ClearedBar \in Bar /\ ClearedBar.dir = {} /\ ClearedBar.segment = 0
  BY DEF ClearedBar, Bar
<1>3. BarCellsOK(GrownBars(w), CellsWith(w))
  <2>1. GrownBars(w) = [c \in CellsWith(w) |-> GrownBars(w)[c]]
    BY <1>1 DEF GrownBars, Grown
  <2>2. \A c \in CellsWith(w) : GrownBars(w)[c] \in Bar
    BY <1>1, <1>2 DEF BarCellsOK
  <2>3. GrownBars(w) \in [CellsWith(w) -> Bar]
    BY <2>1, <2>2
  <2> QED
    BY <1>1, <1>2, <2>3 DEF BarCellsOK
<1>4. BarCells(w) \subseteq CellsWith(w)
  BY <1>1, BarTypes
<1>5. /\ FirstValue(w, v1) \in 0..(Bars[w].len * Res(Bars[w].dir))
      /\ SecondValue(w, v1, v2) \in 0..(Bars[w].len * Res(Bars[w].dir))
  <2> DEFINE len == Bars[w].len
             res == Res(Bars[w].dir)
  <2>1. len \in Nat \ {0} /\ res \in Nat \ {0}
    BY BarTypes, ResType
  <2> HIDE DEF len, res
  <2>2. len * res \in Nat \ {0}
    BY <2>1
  <2>3. Clamp(v1, len * res) \in 0..(len * res) /\ Clamp(v2, len * res) \in 0..(len * res)
    BY <2>2, ClampType
  <2> QED
    BY <2>3 DEF FirstValue, SecondValue, len, res
<1> QED
  BY <1>3, <1>4, <1>5, BarIsCreated DEF Created

\* The table and the cells after bar_create_segments().
LEMMA SegmentsAreNeeded ==
  ASSUME SizeOK, SegmentsInv, NEW w \in DOMAIN Bars, NEW v1 \in Int, NEW v2 \in Int
  PROVE  LET new == Needed(w, v1, v2)
             created == Created(w, v1, v2)
         IN  /\ Given(new, DropUnused(Segment, nSegment), created, CellsWith(w))
             /\ TableOK(new.seg) /\ OwnOK(new.seg, Len(new.seg), cgram)
             /\ BarCellsOK(new.fb, CellsWith(w))
             /\ \A c \in CellsWith(w) : Values(new.fb[c]) = Values(created[c])
             /\ \A c \in CellsWith(w) : new.fb[c].dir = created[c].dir
             /\ \A c \in CellsWith(w) : new.fb[c].dir # {} => HasSegment(new, c)
<1> DEFINE new == Needed(w, v1, v2)
           created == Created(w, v1, v2)
           dom == CellsWith(w)
           cells == RowMajor(RowsWith(w), ColsWith(w))
<1>1. BarCellsOK(created, dom) /\ DOMAIN BarFB = Layout(LROWS, LCOLS)
  BY BarIsDrawn DEF SegmentsInv, BarCellsOK
<1>2. cells \in Seq(dom) /\ \A c \in dom : \E k \in 1..Len(cells) : cells[k] = c
  <2>1. RowsWith(w) \in Nat /\ ColsWith(w) \in Nat \ {0}
    BY <1>1, BarSize
  <2> QED
    BY <2>1, RowMajorCells DEF CellsWith
<1>3. /\ TableOK(Segment) /\ nSegment \in Nat /\ nSegment <= Len(Segment)
      /\ OwnOK(Segment, nSegment, cgram)
  <2>1. TableOK(Segment) /\ nSegment \in 0..Len(Segment) /\ OwnOK(Segment, nSegment, cgram)
    BY DEF SegmentsInv
  <2>2. Len(Segment) \in Nat
    BY <2>1 DEF TableOK
  <2> QED
    BY <2>1, <2>2
<1>4. new = CreateSegments(created, Segment, nSegment, cells)
  BY DEF Needed
<1> HIDE DEF new, created, dom, cells
<1>5. /\ Given(new, DropUnused(Segment, nSegment), created, dom)
      /\ TableOK(new.seg) /\ OwnOK(new.seg, Len(new.seg), cgram)
      /\ \A c \in dom : created[c].dir # {} => HasSegment(new, c)
  BY <1>1, <1>2, <1>3, <1>4, SegmentsAreCreated
<1>6. /\ new.fb \in [dom -> Bar]
      /\ \A c \in dom : Values(new.fb[c]) = Values(created[c])
      /\ \A c \in dom : created[c].dir = {} => new.fb[c] = created[c]
  BY <1>5 DEF Given
<1>7. BarCellsOK(new.fb, dom) /\ \A c \in dom : new.fb[c].dir = created[c].dir
  <2>1. ValuesKept(new.fb, created, dom)
    BY <1>6 DEF ValuesKept
  <2> QED
    BY <1>1, <2>1, SameValues
<1> QED
  BY <1>5, <1>6, <1>7 DEF new, created, dom

\* The table and the cells after bar_pack_segments().
LEMMA SegmentsFit ==
  ASSUME SizeOK, SegmentsInv, NEW w \in DOMAIN Bars, NEW v1 \in Int, NEW v2 \in Int
  PROVE  LET new == PackedBars(w, v1, v2)
             needed == Needed(w, v1, v2)
             L == Len(needed.seg)
         IN  /\ L \in Nat /\ new.n \in 0..L /\ new.n <= fSegment + Room
             /\ TableOK(new.seg) /\ CharsOK(new.seg) /\ Len(new.seg) = L
             /\ OwnOK(new.seg, new.n, cgram)
             /\ BarCellsOK(new.fb, CellsWith(w))
             /\ \A c \in CellsWith(w) :
                  /\ Values(new.fb[c]) = Values(needed.fb[c])
                  /\ new.fb[c].dir = needed.fb[c].dir
                  /\ IF new.fb[c].dir = {} THEN new.fb[c].segment = 0
                     ELSE new.fb[c].segment \in 1..L
             /\ L <= fSegment + Room =>
                  new.seg = needed.seg /\ new.fb = needed.fb /\ new.n = L
<1> DEFINE new == PackedBars(w, v1, v2)
           needed == Needed(w, v1, v2)
           nseg == needed.seg
           nfb == needed.fb
           dom == CellsWith(w)
           L == Len(nseg)
<1>1. /\ TableOK(nseg) /\ OwnOK(nseg, Len(nseg), cgram) /\ BarCellsOK(nfb, dom)
      /\ \A c \in dom : nfb[c].dir # {} => nfb[c].segment \in 1..Len(nseg)
  BY SegmentsAreNeeded DEF HasSegment
<1>2. new = PackSegments(nfb, nseg)
  BY DEF PackedBars
<1> HIDE DEF new, nseg, nfb, dom, needed
<1>3. /\ new \in PackStates(nfb, dom, L, cgram)
      /\ new.n <= fSegment + Room
      /\ L <= fSegment + Room => new.seg = nseg /\ new.fb = nfb /\ new.n = L
  BY <1>1, <1>2, SegmentsArePacked
<1>4. L \in Nat
  BY <1>1 DEF TableOK
<1> HIDE DEF L
<1>5. new \in Packing(dom, L) /\ Packed(new, nfb, dom, L, cgram)
  BY <1>3 DEF PackStates
<1> DEFINE fb == new.fb
<1> HIDE DEF fb
<1>6. /\ fb \in [dom -> Bar] /\ new.n \in 0..L
      /\ \A c \in dom : Values(fb[c]) = Values(nfb[c])
      /\ \A c \in dom : nfb[c].dir = {} => fb[c] = nfb[c]
      /\ \A c \in dom : nfb[c].dir # {} => fb[c].segment \in 1..L
  BY <1>5 DEF Packing, Packed, fb
<1>7. BarCellsOK(fb, dom) /\ \A c \in dom : fb[c].dir = nfb[c].dir
  <2>1. BarCellsOK(nfb, dom)
    BY <1>1
  <2>2. ValuesKept(fb, nfb, dom)
    BY <1>6 DEF ValuesKept
  <2> QED
    BY <2>1, <2>2, SameValues
<1>8. \A c \in dom : IF fb[c].dir = {} THEN fb[c].segment = 0 ELSE fb[c].segment \in 1..L
  BY <1>6, <1>7 DEF BarCellsOK
<1>9. TableOK(new.seg) /\ CharsOK(new.seg) /\ Len(new.seg) = L /\ OwnOK(new.seg, new.n, cgram)
  BY <1>5 DEF Packed
<1> QED
  BY <1>3, <1>4, <1>6, <1>7, <1>8, <1>9 DEF fb, new, dom, L, nseg, nfb, needed

\* The table, the cells and the characters when all of a bar draw is computed: no
\* character that was not defined anew has another bitmap, and without need for
\* packing all cells have exactly what they asked for.
LEMMA BarsAreProcessed ==
  ASSUME SizeOK, SegmentsInv, NEW w \in DOMAIN Bars, NEW v1 \in Int, NEW v2 \in Int
  PROVE  LET new == BarsAfter(w, v1, v2)
             needed == Needed(w, v1, v2)
             L == Len(needed.seg)
         IN  /\ new.n \in 0..Len(new.seg) /\ new.n <= fSegment + Room
             /\ TableOK(new.seg) /\ CharsOK(new.seg) /\ OwnOK(new.seg, new.n, new.cgram)
             /\ \A i \in (fSegment + 1)..new.n : new.seg[i].ascii # Undefined
             /\ IsMemory(new.cgram) /\ DOMAIN cgram \subseteq DOMAIN new.cgram
             /\ new.defined \subseteq (fSegment + 1)..new.n
             /\ \A code \in Byte :
                  (\A i \in new.defined : code # CHAR0 + new.seg[i].ascii) =>
                    Glyph(new.cgram, code) = Glyph(cgram, code)
             /\ BarCellsOK(new.fb, CellsWith(w))
             /\ \A c \in CellsWith(w) :
                  /\ Values(new.fb[c]) = Values(Created(w, v1, v2)[c])
                  /\ new.fb[c].dir # {} => new.fb[c].segment \in 1..Len(new.seg)
             /\ L <= fSegment + Room =>
                  \A c \in CellsWith(w) : new.fb[c].dir # {} => Exact(new.fb, new.seg, c)
<1> DEFINE new == BarsAfter(w, v1, v2)
           needed == Needed(w, v1, v2)
           packed == PackedBars(w, v1, v2)
           chars == CharsWith(w, v1, v2)
           dom == CellsWith(w)
           L == Len(needed.seg)
           pseg == packed.seg
           n == packed.n
           fb == packed.fb
           cseg == chars.seg
           mem == chars.cgram
           kept == KeptSegments(cseg, n, fb)
<1>1. /\ new.fb = fb /\ new.n = n /\ new.seg = kept /\ new.cgram = mem
      /\ new.defined = chars.defined
  BY BarsAfterSteps
<1>2. chars = DefineChars(pseg, n, cgram)
  BY DEF CharsWith
<1>3. /\ L \in Nat /\ n \in 0..L /\ n <= fSegment + Room
      /\ TableOK(pseg) /\ CharsOK(pseg) /\ Len(pseg) = L
      /\ OwnOK(pseg, n, cgram)
      /\ BarCellsOK(fb, dom)
      /\ \A c \in dom :
           /\ Values(fb[c]) = Values(needed.fb[c])
           /\ fb[c].dir = needed.fb[c].dir
           /\ IF fb[c].dir = {} THEN fb[c].segment = 0 ELSE fb[c].segment \in 1..L
      /\ L <= fSegment + Room => pseg = needed.seg /\ fb = needed.fb /\ n = L
  BY SegmentsFit
<1>4. \A c \in dom : Values(needed.fb[c]) = Values(Created(w, v1, v2)[c])
                     /\ (needed.fb[c].dir # {} => HasSegment(needed, c))
  BY SegmentsAreNeeded
<1> HIDE DEF chars, packed, pseg, n, fb, L, needed, dom, new
<1>5. /\ chars \in DefineStates(pseg, n, cgram)
      /\ \A i \in (fSegment + 1)..n : chars.seg[i].ascii # Undefined
  <2>1. IsMemory(cgram) /\ n \in Nat /\ n <= Len(pseg)
    BY <1>3 DEF SegmentsInv
  <2> QED
    BY <1>2, <1>3, <2>1, CharsAreDefined
<1>6. chars \in Defining(cgram, n) /\ Defined(chars, pseg, n, cgram)
  BY <1>5 DEF DefineStates
<1>7. /\ TableOK(cseg) /\ Len(cseg) = L /\ CharsOK(cseg) /\ OwnOK(cseg, n, mem)
      /\ DOMAIN cgram \subseteq DOMAIN mem
      /\ mem \in Memories(cgram) /\ chars.defined \subseteq (fSegment + 1)..n
      /\ \A i \in 1..L : IF i \in chars.defined
           THEN cseg[i] = [pseg[i] EXCEPT !.ascii = cseg[i].ascii]
           ELSE cseg[i] = pseg[i]
      /\ \A code \in Byte :
           (\A i \in chars.defined : code # CHAR0 + cseg[i].ascii) =>
             Glyph(mem, code) = Glyph(cgram, code)
  BY <1>3, <1>6 DEF Defining, Defined
<1> HIDE DEF cseg, mem
<1>8. /\ TableOK(kept) /\ CharsOK(kept) /\ OwnOK(kept, n, mem)
      /\ n <= Len(kept)
      /\ \A c \in dom : fb[c].segment \in 0..Len(kept)
      /\ \A i \in 1..Len(kept) :
           /\ i \in 1..L /\ kept[i].ascii = cseg[i].ascii
           /\ \A b : Matches(kept[i], b) = Matches(cseg[i], b)
  <2>1. TableInUse(cseg, n, mem, fb, dom)
    BY <1>3, <1>5, <1>7 DEF BarCellsOK, cseg, TableInUse
  <2> HIDE DEF kept
  <2>2. TableKept(kept, cseg, n, mem, fb, dom)
    BY <2>1, SegmentsAreKept DEF kept
  <2> QED
    BY <1>7, <2>2 DEF TableKept
<1> DEFINE K == Len(kept)
<1>9. K \in Nat /\ n \in 0..K /\ fSegment \in Nat /\ \A i \in (fSegment + 1)..n : i \in 1..K
  <2>1. K \in Nat
    BY <1>8 DEF TableOK
  <2> HIDE DEF K
  <2>2. n <= K
    BY <1>8 DEF K
  <2> QED
    BY <1>3, <2>1, <2>2, FixedLength
<1>10. \A i \in (fSegment + 1)..n : kept[i].ascii # Undefined
  BY <1>5, <1>8, <1>9 DEF cseg
<1>11. IsMemory(mem)
  BY <1>7, MemoryType DEF IsMemory
<1>12. \A code \in Byte :
         (\A i \in chars.defined : code # CHAR0 + kept[i].ascii) =>
           Glyph(mem, code) = Glyph(cgram, code)
  BY <1>7, <1>8, <1>9
<1>13. ASSUME NEW c \in dom, fb[c].dir # {} PROVE fb[c].segment \in 1..K
  BY <1>3, <1>8, <1>9, <1>13
<1>14. ASSUME L <= fSegment + Room, NEW c \in dom, fb[c].dir # {} PROVE Exact(fb, kept, c)
  <2> DEFINE s == fb[c].segment
  <2>1. needed.fb = fb /\ needed.seg = pseg
    BY <1>3, <1>14
  <2>2. s \in 1..L /\ Matches(pseg[s], fb[c]) /\ s \in 1..K
    BY <1>4, <1>13, <1>14, <2>1 DEF HasSegment, L
  <2>3. Matches(cseg[s], fb[c]) = Matches(pseg[s], fb[c])
    <3>1. CASE s \in chars.defined
      <4> DEFINE p == pseg[s]
                 a == cseg[s].ascii
      <4>1. cseg[s] = [p EXCEPT !.ascii = a]
        BY <1>7, <2>2, <3>1
      <4>2. p \in BarSegment /\ a \in Int
        <5>1. pseg \in Seq(BarSegment) /\ cseg \in Seq(BarSegment)
          BY <1>3, <1>7 DEF TableOK
        <5>2. p \in BarSegment /\ cseg[s] \in BarSegment
          BY <1>3, <1>7, <2>2, <5>1
        <5> QED
          BY <5>2 DEF BarSegment
      <4> HIDE DEF p, a
      <4>3. Matches([p EXCEPT !.ascii = a], fb[c]) = Matches(p, fb[c])
        BY <4>2, BitmapWithoutChar
      <4> QED
        BY <4>1, <4>3 DEF p
    <3>2. CASE s \notin chars.defined
      BY <1>7, <2>2, <3>2
    <3> QED
      BY <3>1, <3>2
  <2>4. Matches(kept[s], fb[c]) = Matches(cseg[s], fb[c])
    BY <1>8, <2>2
  <2> QED
    BY <2>2, <2>3, <2>4 DEF Exact
<1> HIDE DEF kept, K
<1>15. \A c \in dom : Values(fb[c]) = Values(Created(w, v1, v2)[c])
  BY <1>3, <1>4
<1> QED
  BY <1>1, <1>3, <1>7, <1>8, <1>9, <1>10, <1>11, <1>12, <1>13, <1>14, <1>15
     DEF new, dom, L, needed, K

-----------------------------------------------------------------------------
(***************************************************************************)
(* The state: layout, segments, icons                                      *)
(***************************************************************************)
\* The characters of the bars, and behind them those of the icons.
BarChars == CHAR0..(CHAR0 + Room - 1)
IconChars == (CHAR0 + Room)..(CHAR0 + CHARS - 1)

LayoutInv ==
  /\ SizeOK
  /\ LayoutFB \in [Layout(LROWS, LCOLS) -> Byte]
  /\ DisplayFB \in [Display -> Byte]
  /\ DOMAIN screen = Display
  /\ left \subseteq Display
  /\ ScreenShowsLayout

IconState == [ascii : Byte \cup {NotAssigned, OutOfIcons}, curmap : Nat,
              prvmap : Nat \cup {NoMap}, visible : BOOLEAN]
AssignedIcons == {i \in DOMAIN Icons : icons[i].ascii >= 0}

\* Every icon has a character of its own, counted from the last one down, and what
\* was last sent for it is what the display has.
IconOK(i) ==
  /\ icons[i].curmap \in 0..Icons[i].maps
  /\ icons[i].prvmap \in {NoMap} \cup 0..Icons[i].maps
  /\ icons[i].ascii >= 0 =>
       icons[i].ascii \in (CHAR0 + CHARS - IconsAssigned)..(CHAR0 + CHARS - 1)
  /\ icons[i].ascii >= 0 /\ icons[i].visible => icons[i].curmap = icons[i].prvmap
  /\ icons[i].prvmap # NoMap =>
       /\ icons[i].ascii \in DOMAIN cgram
       /\ cgram[icons[i].ascii] = <<"icon", i, icons[i].prvmap>>
IconsInv ==
  /\ icons \in [DOMAIN Icons -> IconState]
  /\ IconsAssigned <= ICONS
  /\ \A i \in DOMAIN Icons : IconOK(i)
  /\ \A i, j \in DOMAIN Icons :
       i # j /\ icons[i].ascii >= 0 => icons[i].ascii # icons[j].ascii

BaseInv == LayoutInv /\ SegmentsInv /\ IconsInv

\* The characters of bars and icons are apart.
LEMMA CharsType ==
  /\ CHAR0 \in Nat /\ CHARS \in Nat /\ Room \in Nat /\ ICONS \in Nat
  /\ CHAR0 + Room = CHAR0 + CHARS - ICONS
  /\ BarChars \subseteq UserChars /\ IconChars \subseteq UserChars /\ UserChars \subseteq Byte
  /\ BarChars \cap IconChars = {}
  /\ \A a \in 0..(Room - 1) : CHAR0 + a \in BarChars
<1>1. CHARS \in Nat /\ CHAR0 \in Nat /\ ICONS \in 0..CHARS /\ CHAR0 + CHARS <= 256
  BY SegmentsAssumption
<1>2. ICONS \in Nat /\ Room = CHARS - ICONS /\ Room \in Nat
  BY <1>1 DEF Room
<1> QED
  BY <1>1, <1>2 DEF BarChars, IconChars, UserChars, Byte

\* The number of icons with a character, and that theirs are no bar's.
LEMMA IconNumbers ==
  ASSUME IconsInv
  PROVE  /\ IsFiniteSet(AssignedIcons) /\ IconsAssigned = Cardinality(AssignedIcons)
         /\ IconsAssigned \in Nat
         /\ \A i \in DOMAIN Icons : icons[i].ascii >= 0 => icons[i].ascii \in IconChars
<1>1. IsFiniteSet(AssignedIcons)
  BY WidgetsAssumption, FS_Subset DEF AssignedIcons
<1>2. IconsAssigned = Cardinality(AssignedIcons)
  BY DEF IconsAssigned, AssignedIcons
<1>3. IconsAssigned \in Nat
  BY <1>1, <1>2, FS_CardinalityType
<1>4. ASSUME NEW i \in DOMAIN Icons, icons[i].ascii >= 0 PROVE icons[i].ascii \in IconChars
  <2>1. icons[i].ascii \in (CHAR0 + CHARS - IconsAssigned)..(CHAR0 + CHARS - 1)
    BY <1>4 DEF IconsInv, IconOK
  <2>2. IconsAssigned <= ICONS
    BY DEF IconsInv
  <2> QED
    BY <1>3, <2>1, <2>2, CharsType DEF IconChars
<1> QED
  BY <1>1, <1>2, <1>3, <1>4

\* Whatever draws without changing the characters of icons keeps them.
LEMMA IconsStay ==
  ASSUME IconsInv, DOMAIN cgram \subseteq Byte, icons' = icons,
         \A k \in IconChars : k \in DOMAIN cgram => k \in DOMAIN cgram' /\ cgram'[k] = cgram[k]
  PROVE  IconsInv'
<1>1. IconsAssigned' = IconsAssigned
  BY DEF IconsAssigned
<1>2. ASSUME NEW i \in DOMAIN Icons, icons[i].prvmap # NoMap
      PROVE  /\ icons[i].ascii \in DOMAIN cgram'
             /\ cgram'[icons[i].ascii] = <<"icon", i, icons[i].prvmap>>
  <2>1. icons[i].ascii \in DOMAIN cgram /\ cgram[icons[i].ascii] = <<"icon", i, icons[i].prvmap>>
    BY <1>2 DEF IconsInv, IconOK
  <2>2. icons[i].ascii >= 0
    BY <1>2, <2>1 DEF Byte
  <2>3. icons[i].ascii \in IconChars
    BY <2>2, IconNumbers
  <2> QED
    BY <2>1, <2>3
<1>3. ASSUME NEW i \in DOMAIN Icons PROVE IconOK(i)'
  <2>1. IconOK(i)
    BY DEF IconsInv
  <2> QED
    BY <1>1, <1>2, <2>1 DEF IconOK
<1> QED
  BY <1>1, <1>3 DEF IconsInv

\* The character an icon gets is none of the other icons' or of the bars'.
LEMMA IconCharIsFree ==
  ASSUME IconsInv, NEW i \in DOMAIN Icons, NEW icon, icon.ascii = icons[i].ascii,
         IconChar(icon) # OutOfIcons
  PROVE  /\ IconChar(icon) \in IconChars
         /\ \A j \in DOMAIN Icons : j # i => icons[j].ascii # IconChar(icon)
         /\ icons[i].ascii >= 0 => IconChar(icon) = icons[i].ascii
         /\ icons[i].ascii < 0 =>
              /\ IconsAssigned < ICONS
              /\ IconChar(icon) = CHAR0 + CHARS - (IconsAssigned + 1)
<1> DEFINE code == IconChar(icon)
           n == IconsAssigned
<1>1. /\ n \in Nat /\ n <= ICONS /\ icons[i].ascii \in Byte \cup {NotAssigned, OutOfIcons}
      /\ ICONS \in Nat /\ CHAR0 \in Nat /\ CHARS \in Nat
      /\ CHAR0 + Room = CHAR0 + CHARS - ICONS
  BY IconNumbers, CharsType DEF IconsInv, IconState
<1>2. CASE icons[i].ascii >= 0
  <2>1. code = icons[i].ascii
    BY <1>2 DEF IconChar, NotAssigned
  <2>2. \A j \in DOMAIN Icons : j # i => icons[j].ascii # icons[i].ascii
    BY <1>2 DEF IconsInv
  <2>3. icons[i].ascii \in IconChars /\ ~(icons[i].ascii < 0)
    BY <1>1, <1>2, IconNumbers DEF Byte, NotAssigned, OutOfIcons
  <2> HIDE DEF code, n
  <2> QED
    BY <2>1, <2>2, <2>3 DEF code, n
<1>3. CASE icons[i].ascii < 0
  <2>1. icons[i].ascii = NotAssigned
    BY <1>1, <1>3 DEF IconChar, Byte, NotAssigned, OutOfIcons
  <2>2. n < ICONS /\ code = CHAR0 + CHARS - (n + 1)
    BY <1>1, <2>1 DEF IconChar
  <2> HIDE DEF code, n
  <2>3. code \in IconChars
    BY <1>1, <2>2 DEF IconChars
  <2>4. ASSUME NEW j \in DOMAIN Icons PROVE icons[j].ascii # code
    <3>1. icons[j].ascii >= 0 => icons[j].ascii >= CHAR0 + CHARS - n
      BY <1>1 DEF IconsInv, IconOK, n
    <3>2. code >= 0 /\ icons[j].ascii \in Int
      BY <1>1, <2>3, CharsType DEF IconsInv, IconState, Byte, NotAssigned, OutOfIcons
    <3> QED
      BY <1>1, <2>2, <3>1, <3>2
  <2>5. ~(icons[i].ascii >= 0)
    BY <1>1, <1>3 DEF Byte, NotAssigned, OutOfIcons
  <2> QED
    BY <2>2, <2>3, <2>4, <2>5 DEF code, n
<1> QED
  BY <1>1, <1>2, <1>3 DEF Byte, NotAssigned, OutOfIcons

\* What widget_icon_update() hands to icon_draw().
Drawn(i, icon) ==
  /\ icon \in IconState
  /\ icon.ascii = icons[i].ascii /\ icon.prvmap = icons[i].prvmap
  /\ icon.curmap \in 0..Icons[i].maps

Redefined(icon) == icon.curmap # icon.prvmap /\ icon.visible

\* Drawing an icon changes no other bitmap than its own.
LEMMA IconChangesOwnBitmap ==
  ASSUME NEW i, NEW icon, NEW cell, DrawIcon(i, icon, cell), IsMemory(cgram),
         IconChar(icon) \in Byte \cup {OutOfIcons}
  PROVE  /\ IsMemory(cgram')
         /\ IF IconChar(icon) # OutOfIcons /\ Redefined(icon)
            THEN /\ IconChar(icon) \in DOMAIN cgram'
                 /\ cgram'[IconChar(icon)] = <<"icon", i, icon.curmap>>
            ELSE cgram' = cgram
         /\ \A k : k # IconChar(icon) =>
              /\ k \in DOMAIN cgram => k \in DOMAIN cgram' /\ cgram'[k] = cgram[k]
              /\ Glyph(cgram', k) = Glyph(cgram, k)
<1> DEFINE code == IconChar(icon)
           mem == [k \in DOMAIN cgram \cup {code} |->
                     IF k = code THEN <<"icon", i, icon.curmap>> ELSE cgram[k]]
<1>1. CASE code = OutOfIcons \/ ~Redefined(icon)
  <2>1. cgram' = cgram
    BY <1>1 DEF DrawIcon, Redefined
  <2> QED
    BY <1>1, <2>1 DEF IsMemory
<1>2. CASE code # OutOfIcons /\ Redefined(icon)
  <2>1. cgram' = mem
    BY <1>2 DEF DrawIcon, Redefined
  <2>2. DOMAIN mem \subseteq Byte
    BY <1>2 DEF IsMemory
  <2> HIDE DEF code
  <2>3. /\ IsMemory(mem)
        /\ code \in DOMAIN mem /\ mem[code] = <<"icon", i, icon.curmap>>
        /\ \A k : k # code =>
             /\ k \in DOMAIN cgram => k \in DOMAIN mem /\ mem[k] = cgram[k]
             /\ Glyph(mem, k) = Glyph(cgram, k)
    BY <2>2 DEF IsMemory, Glyph
  <2> HIDE DEF mem
  <2> QED
    BY <1>2, <2>1, <2>3 DEF code
<1> QED
  BY <1>1, <1>2

\* Drawing an icon keeps what holds of all icons.
LEMMA IconKeepsIcons ==
  ASSUME IconsInv, IsMemory(cgram), NEW i \in DOMAIN Icons, NEW icon, Drawn(i, icon),
         NEW cell, DrawIcon(i, icon, cell)
  PROVE  IconsInv'
<1> DEFINE code == IconChar(icon)
           A == AssignedIcons
           n == IconsAssigned
           new == [icon EXCEPT !.ascii = code,
                               !.prvmap = IF Redefined(icon) THEN icon.curmap ELSE @]
<1>1. /\ icon \in IconState /\ icon.ascii = icons[i].ascii /\ icon.prvmap = icons[i].prvmap
      /\ icon.curmap \in 0..Icons[i].maps /\ Icons[i].maps \in Nat
      /\ icons \in [DOMAIN Icons -> IconState]
      /\ icons[i].ascii \in Byte \cup {NotAssigned, OutOfIcons}
  BY WidgetsAssumption DEF Drawn, IconsInv, IconState
<1>2. IsFiniteSet(A) /\ n = Cardinality(A) /\ n \in Nat /\ n <= ICONS
  BY IconNumbers DEF IconsInv
<1>3. \A j \in DOMAIN Icons : IconOK(j)
  BY DEF IconsInv
<1>4. \A j \in DOMAIN Icons :
        icons[j].prvmap # NoMap => icons[j].ascii \in DOMAIN cgram /\ icons[j].ascii >= 0
  BY <1>3 DEF IconOK, IsMemory, Byte
<1>5. CASE code = OutOfIcons
  <2>1. icons' = [icons EXCEPT ![i] = [icon EXCEPT !.ascii = OutOfIcons]] /\ cgram' = cgram
    BY <1>5 DEF DrawIcon
  <2>2. icons[i].ascii < 0
    BY <1>1, <1>5 DEF IconChar, NotAssigned, OutOfIcons
  <2>3. icons'[i] = [icon EXCEPT !.ascii = OutOfIcons]
        /\ \A j \in DOMAIN Icons \ {i} : icons'[j] = icons[j]
    BY <1>1, <2>1
  <2>4. /\ icons'[i] \in IconState /\ icons'[i].ascii = OutOfIcons
        /\ icons'[i].curmap = icon.curmap /\ icons'[i].prvmap = icons[i].prvmap
    BY <1>1, <2>3 DEF IconState
  <2>5. icons' \in [DOMAIN Icons -> IconState]
    BY <1>1, <2>1, <2>4
  <2>6. AssignedIcons' = A
    <3>1. ~(icons'[i].ascii >= 0) /\ ~(icons[i].ascii >= 0)
      BY <1>1, <2>2, <2>4 DEF OutOfIcons, NotAssigned, Byte
    <3>2. \A j \in DOMAIN Icons : icons'[j].ascii >= 0 <=> icons[j].ascii >= 0
      BY <2>3, <3>1
    <3> QED
      BY <3>2 DEF AssignedIcons
  <2>7. IconsAssigned' = n
    BY <2>6 DEF IconsAssigned, AssignedIcons
  <2>8. icons[i].prvmap = NoMap
    BY <1>1, <1>4, <2>2 DEF Byte, NotAssigned, OutOfIcons
  <2>9. ASSUME NEW j \in DOMAIN Icons PROVE IconOK(j)'
    <3>1. CASE j = i
      BY <1>1, <2>4, <2>7, <2>8, <3>1 DEF IconOK, OutOfIcons
    <3>2. CASE j # i
      BY <1>3, <2>1, <2>3, <2>7, <3>2 DEF IconOK
    <3> QED
      BY <3>1, <3>2
  <2>10. \A j, k \in DOMAIN Icons :
           j # k /\ icons'[j].ascii >= 0 => icons'[j].ascii # icons'[k].ascii
    <3> SUFFICES ASSUME NEW j \in DOMAIN Icons, NEW k \in DOMAIN Icons,
                        j # k, icons'[j].ascii >= 0
                 PROVE  icons'[j].ascii # icons'[k].ascii
      OBVIOUS
    <3>1. j # i
      BY <2>4 DEF OutOfIcons
    <3>2. icons'[j] = icons[j]
      BY <2>3, <3>1
    <3>3. icons'[k].ascii = icons[k].ascii \/ icons'[k].ascii = OutOfIcons
      BY <2>3, <2>4
    <3> QED
      BY <3>2, <3>3 DEF IconsInv, OutOfIcons
  <2> QED
    BY <1>2, <2>5, <2>7, <2>9, <2>10 DEF IconsInv
<1>6. CASE code # OutOfIcons
  <2>1. icons' = [icons EXCEPT ![i] = new]
    BY <1>6 DEF DrawIcon, Redefined
  <2>2. /\ code \in IconChars
        /\ \A j \in DOMAIN Icons : j # i => icons[j].ascii # code
        /\ icons[i].ascii >= 0 => code = icons[i].ascii
        /\ icons[i].ascii < 0 => n < ICONS /\ code = CHAR0 + CHARS - (n + 1)
    BY <1>1, <1>6, IconCharIsFree
  <2>3. code \in Byte /\ code >= 0 /\ code \in Int
    <3> HIDE DEF code
    <3>1. code \in Byte
      BY <2>2, CharsType
    <3> QED
      BY <3>1 DEF Byte
  <2> HIDE DEF code
  <2>4. /\ new \in IconState /\ new.ascii = code /\ new.curmap = icon.curmap
        /\ new.prvmap = IF Redefined(icon) THEN icon.curmap ELSE icons[i].prvmap
        /\ new.visible = icon.visible
    BY <1>1, <2>3 DEF IconState
  <2> HIDE DEF new
  <2>5. icons'[i] = new /\ \A j \in DOMAIN Icons \ {i} : icons'[j] = icons[j]
    BY <1>1, <2>1
  <2>6. icons' \in [DOMAIN Icons -> IconState]
    BY <1>1, <2>1, <2>4
  <2>7. AssignedIcons' = A \cup {i}
    BY <2>3, <2>4, <2>5 DEF AssignedIcons
  <2>8. /\ IconsAssigned' = Cardinality(A \cup {i})
        /\ i \in A <=> icons[i].ascii >= 0
    BY <2>7 DEF IconsAssigned, AssignedIcons
  <2>9. /\ IconsAssigned' = IF icons[i].ascii >= 0 THEN n ELSE n + 1
        /\ IconsAssigned' <= ICONS /\ IconsAssigned' \in Nat /\ n <= IconsAssigned'
        /\ code \in (CHAR0 + CHARS - IconsAssigned')..(CHAR0 + CHARS - 1)
    <3>1. CASE icons[i].ascii >= 0
      <4>1. A \cup {i} = A
        BY <2>8, <3>1
      <4>2. code \in (CHAR0 + CHARS - n)..(CHAR0 + CHARS - 1)
        BY <1>3, <2>2, <3>1 DEF IconOK
      <4> QED
        BY <1>2, <2>8, <3>1, <4>1, <4>2
    <3>2. CASE ~(icons[i].ascii >= 0)
      <4>1. Cardinality(A \cup {i}) = n + 1
        <5> HIDE DEF A, n
        <5> QED
          BY <1>2, <2>8, <3>2, FS_AddElement
      <4>2. n < ICONS /\ code = CHAR0 + CHARS - (n + 1)
        BY <1>1, <2>2, <3>2 DEF Byte, NotAssigned, OutOfIcons
      <4> HIDE DEF n
      <4> QED
        BY <1>2, <2>3, <2>8, <3>2, <4>1, <4>2, CharsType
    <3> QED
      BY <3>1, <3>2
  <2>10. /\ IF Redefined(icon)
            THEN code \in DOMAIN cgram' /\ cgram'[code] = <<"icon", i, icon.curmap>>
            ELSE cgram' = cgram
         /\ \A k : k # code => (k \in DOMAIN cgram => k \in DOMAIN cgram' /\ cgram'[k] = cgram[k])
    BY <1>6, <2>3, IconChangesOwnBitmap DEF code
  <2>11. IconOK(i)'
    <3>1. icons[i].prvmap # NoMap =>
            code = icons[i].ascii /\ cgram[code] = <<"icon", i, icons[i].prvmap>>
            /\ code \in DOMAIN cgram
      BY <1>3, <1>4, <2>2 DEF IconOK
    <3>2. icons[i].prvmap \in {NoMap} \cup 0..Icons[i].maps
      BY <1>3 DEF IconOK
    <3>3. new.prvmap # NoMap => code \in DOMAIN cgram' /\ cgram'[code] = <<"icon", i, new.prvmap>>
      BY <2>4, <2>10, <3>1
    <3>4. icon.visible => new.curmap = new.prvmap
      BY <1>1, <2>4 DEF Redefined
    <3> QED
      BY <1>1, <2>4, <2>5, <2>9, <3>2, <3>3, <3>4 DEF IconOK
  <2>12. ASSUME NEW j \in DOMAIN Icons, j # i PROVE IconOK(j)'
    <3>1. icons'[j] = icons[j] /\ icons[j].ascii # code /\ IconOK(j)
      BY <1>3, <2>2, <2>5, <2>12
    <3>2. icons[j].ascii >= 0 =>
            icons[j].ascii \in (CHAR0 + CHARS - IconsAssigned')..(CHAR0 + CHARS - 1)
      <4> HIDE DEF n
      <4>1. icons[j].ascii >= 0 =>
              icons[j].ascii \in (CHAR0 + CHARS - n)..(CHAR0 + CHARS - 1)
        BY <3>1 DEF IconOK, n
      <4> QED
        BY <1>2, <2>9, <4>1, CharsType
    <3>3. icons[j].prvmap # NoMap =>
            /\ icons[j].ascii \in DOMAIN cgram'
            /\ cgram'[icons[j].ascii] = <<"icon", j, icons[j].prvmap>>
      BY <2>10, <3>1 DEF IconOK
    <3> QED
      BY <3>1, <3>2, <3>3 DEF IconOK
  <2>13. \A j, k \in DOMAIN Icons :
           j # k /\ icons'[j].ascii >= 0 => icons'[j].ascii # icons'[k].ascii
    <3>1. \A j, k \in DOMAIN Icons :
           j # k /\ icons[j].ascii >= 0 => icons[j].ascii # icons[k].ascii
      BY DEF IconsInv
    <3> QED
      BY <2>2, <2>4, <2>5, <3>1
  <2> QED
    BY <2>6, <2>9, <2>11, <2>12, <2>13 DEF IconsInv
<1> QED
  BY <1>5, <1>6

-----------------------------------------------------------------------------
(***************************************************************************)
(* blit()                                                                  *)
(***************************************************************************)
InWindow(c, row, col, height, width) ==
  /\ row <= c[1] /\ c[1] < row + height
  /\ col <= c[2] /\ c[2] < col + width

\* What blit() leaves alone within its window did not differ.
LEMMA UnsentIsEqual ==
  ASSUME NEW lay, NEW disp, NEW row, NEW col, NEW height, NEW width,
         NEW c \in Display \cap DOMAIN lay,
         InWindow(c, row, col, height, width),
         c \notin Sent(lay, disp, row, col, height, width)
  PROVE  disp[c] = lay[c]
  BY DEF Sent, InWindow

\* A draw that writes only within the window it blits: disp is the display
\* buffer, except where it was made to differ from the new layout.
Drawing(lay, disp, row, col, height, width) ==
  /\ Display \subseteq DOMAIN lay /\ DOMAIN disp = Display
  /\ \A c \in Display :
       /\ lay[c] \in Byte
       /\ InWindow(c, row, col, height, width) \/ lay[c] = LayoutFB[c]
       /\ \/ disp[c] = DisplayFB[c]
          \/ InWindow(c, row, col, height, width) /\ disp[c] # lay[c]

\* What becomes of a cell: it is sent, or it showed already what it has to.
CellSent(c, lay, mem) ==
  /\ screen'[c] = [ch |-> lay[c], glyph |-> Glyph(mem, lay[c])]
  /\ DisplayFB'[c] = lay[c]
  /\ c \notin left'
CellKept(c, lay, disp, lost) ==
  /\ screen'[c] = screen[c] /\ DisplayFB'[c] = DisplayFB[c]
  /\ disp[c] = lay[c] /\ lay[c] = LayoutFB[c]
  /\ c \in lost => c \in left'

\* What blit() does to each cell; if the draw is a Drawing, screen and layout agree.
LEMMA BlitCells ==
  ASSUME ScreenShowsLayout, NEW lay, NEW disp, NEW mem, NEW lost, NEW row, NEW col,
         NEW height, NEW width, Drawing(lay, disp, row, col, height, width),
         Blit(lay, disp, mem, lost, row, col, height, width)
  PROVE  /\ \A c \in Display : CellSent(c, lay, mem) \/ CellKept(c, lay, disp, lost)
         /\ DOMAIN screen' = Display /\ DisplayFB' \in [Display -> Byte]
         /\ left' \subseteq lost
         /\ LayoutFB' = lay => ScreenShowsLayout'
<1> DEFINE sent == Sent(lay, disp, row, col, height, width)
<1>1. ASSUME NEW c \in Display
      PROVE  CellSent(c, lay, mem) \/ CellKept(c, lay, disp, lost)
  <2>1. CASE c \in sent
    BY <2>1 DEF Blit, CellSent
  <2>2. CASE c \notin sent
    <3>1. InWindow(c, row, col, height, width) => disp[c] = lay[c]
      BY <2>2, UnsentIsEqual DEF Drawing
    <3>2. disp[c] = DisplayFB[c] /\ DisplayFB[c] = LayoutFB[c] /\ lay[c] = LayoutFB[c]
      BY <3>1 DEF ScreenShowsLayout, Drawing
    <3>3. screen'[c] = screen[c] /\ DisplayFB'[c] = disp[c] /\ (c \in lost => c \in left')
      BY <2>2 DEF Blit
    <3> QED
      BY <3>2, <3>3 DEF CellKept
  <2> QED
    BY <2>1, <2>2
<1>2. /\ DOMAIN screen' = Display /\ left' \subseteq lost
      /\ DisplayFB' = [c \in Display |-> DisplayFB'[c]]
  BY DEF Blit
<1>3. ASSUME NEW c \in Display
      PROVE  DisplayFB'[c] = lay[c] /\ screen'[c].ch = lay[c] /\ lay[c] \in Byte
  <2>1. lay[c] \in Byte
    BY DEF Drawing
  <2>2. CASE CellSent(c, lay, mem)
    BY <2>1, <2>2 DEF CellSent
  <2>3. CASE CellKept(c, lay, disp, lost)
    BY <2>1, <2>3 DEF CellKept, ScreenShowsLayout
  <2> QED
    BY <1>1, <2>2, <2>3
<1> QED
  BY <1>1, <1>2, <1>3 DEF ScreenShowsLayout, Display

\* A draw of text or an icon: the layout grows, the bars stay.
LEMMA SegmentsStay ==
  ASSUME SizeOK, SegmentsInv, NEW rows \in Int, NEW cols \in Int,
         Resize(rows, cols), BarFB' = Grown(BarFB, rows, cols, ClearedBar),
         Segment' = Segment, nSegment' = nSegment, IsMemory(cgram'),
         \A k \in BarChars : k \in DOMAIN cgram => k \in DOMAIN cgram' /\ cgram'[k] = cgram[k]
  PROVE  /\ SegmentsInv' /\ SizeOK'
         /\ Layout(LROWS, LCOLS) \subseteq Layout(LROWS, LCOLS)'
         /\ \A c \in Layout(LROWS, LCOLS) : BarFB'[c] = BarFB[c]
         /\ \A c \in Layout(LROWS, LCOLS)' \ Layout(LROWS, LCOLS) :
              BarFB'[c].dir = {} /\ BarFB'[c].segment = 0
<1> DEFINE old == Layout(LROWS, LCOLS)
           dom == Layout(NewRows(rows, cols), NewCols(rows, cols))
<1>1. LROWS' = NewRows(rows, cols) /\ LCOLS' = NewCols(rows, cols)
  BY DEF Resize
<1>2. Layout(LROWS, LCOLS)' = dom
  BY <1>1 DEF Layout
<1>3. DOMAIN BarFB = old
  BY DEF SegmentsInv, BarCellsOK
<1>4. /\ NewRows(rows, cols) \in Nat /\ NewRows(rows, cols) >= LROWS
      /\ NewCols(rows, cols) \in Nat /\ NewCols(rows, cols) >= LCOLS
      /\ DOMAIN BarFB' = dom
      /\ old \subseteq dom
      /\ \A c \in old : BarFB'[c] = BarFB[c]
      /\ \A c \in dom \ old : BarFB'[c] = ClearedBar
  BY <1>3, GrownKeeps
<1>5. SizeOK'
  BY <1>1, <1>4, DisplayAssumption DEF SizeOK
<1>6. ClearedBar \in Bar /\ ClearedBar.dir = {} /\ ClearedBar.segment = 0
  BY DEF ClearedBar, Bar
<1> HIDE DEF old, dom
<1>7. BarCellsOK(BarFB', dom)
  <2>1. BarFB' = [c \in dom |-> BarFB'[c]]
    BY <1>4 DEF Grown, dom
  <2>2. \A c \in dom : BarFB'[c] \in Bar
    BY <1>4, <1>6 DEF SegmentsInv, BarCellsOK, old
  <2>3. BarFB' \in [dom -> Bar]
    BY <2>1, <2>2
  <2>4. BarCellsOK(BarFB, old)
    BY DEF SegmentsInv, old
  <2> QED
    BY <1>4, <1>6, <2>3, <2>4 DEF BarCellsOK
<1>8. ASSUME NEW c \in dom, BarFB'[c].dir # {}
      PROVE  BarFB'[c].segment \in 1..Len(Segment) /\ \E w \in DOMAIN Bars : c \in BarCells(w)
  <2>1. c \in old /\ BarFB'[c] = BarFB[c]
    BY <1>4, <1>6, <1>8
  <2> QED
    BY <1>8, <2>1 DEF SegmentsInv, old
<1>9. OwnOK(Segment, nSegment, cgram')
  <2>1. \A s : HasChar(s, cgram) => HasChar(s, cgram')
    BY CharsType DEF HasChar
  <2> QED
    BY <2>1 DEF SegmentsInv, OwnOK
<1>10. SegmentsInv'
  BY <1>2, <1>7, <1>8, <1>9 DEF SegmentsInv
<1> QED
  BY <1>2, <1>4, <1>5, <1>6, <1>10 DEF old

-----------------------------------------------------------------------------
(***************************************************************************)
(* Texts and icons                                                         *)
(***************************************************************************)
LEMMA DisplayCell ==
  ASSUME NEW c \in Display
  PROVE  c[1] \in Nat /\ c[2] \in Nat /\ c[1] < DROWS /\ c[2] < DCOLS /\ c = <<c[1], c[2]>>
  BY DisplayAssumption DEF Display

\* A blank is a byte.
LEMMA BlankType == Blank \in Byte
  BY DEF Blank, Byte

\* The cells of a layout before and after it grew.
OldCells == Layout(LROWS, LCOLS)
NewCells == OldCells'

\* What a text draw does.
TextDrawn(w, txt) ==
  /\ icons' = icons /\ cgram' = cgram /\ Segment' = Segment /\ nSegment' = nSegment
  /\ \A c \in NewCells :
       \/ c \in TextCells(w, txt) /\ \E k \in 1..Len(txt) : LayoutFB'[c] = txt[k]
       \/ c \in OldCells /\ LayoutFB'[c] = LayoutFB[c]
       \/ c \notin OldCells /\ LayoutFB'[c] = Blank
  /\ \A c \in Display :
       CellSent(c, LayoutFB', cgram) \/ CellKept(c, LayoutFB', DisplayFB, left)

\* A text draw keeps layout and segments.
LEMMA TextDraws ==
  ASSUME LayoutInv, SegmentsInv, NEW w \in DOMAIN Texts, NEW txt \in Strings, DrawText(w, txt)
  PROVE  /\ LayoutInv' /\ SegmentsInv'
         /\ OldCells \subseteq NewCells
         /\ \A c \in OldCells : BarFB'[c] = BarFB[c]
         /\ \A c \in NewCells \ OldCells : BarFB'[c].dir = {} /\ BarFB'[c].segment = 0
         /\ TextDrawn(w, txt)
<1> DEFINE row == Texts[w].row
           col == Texts[w].col
           len == Len(txt)
           old == Grown(LayoutFB, row + 1, col + len, Blank)
           lay == [c \in DOMAIN old |->
                     IF c[1] = row /\ c[2] \in col..(col + len - 1)
                     THEN txt[c[2] - col + 1] ELSE old[c]]
<1>1. row \in Nat /\ col \in Nat /\ len \in Nat /\ txt \in Seq(Byte)
  BY DisplayAssumption, WidgetsAssumption
<1>2. row + 1 \in Int /\ col + len \in Int
  BY <1>1
<1>3. /\ Resize(row + 1, col + len)
      /\ LayoutFB' = lay
      /\ BarFB' = Grown(BarFB, row + 1, col + len, ClearedBar)
      /\ Blit(lay, DisplayFB, cgram, left, row, col, 1, len)
      /\ Segment' = Segment /\ nSegment' = nSegment /\ icons' = icons /\ cgram' = cgram
  BY DEF DrawText
<1>4. /\ SegmentsInv' /\ SizeOK' /\ OldCells \subseteq NewCells
      /\ \A c \in OldCells : BarFB'[c] = BarFB[c]
      /\ \A c \in NewCells \ OldCells : BarFB'[c].dir = {} /\ BarFB'[c].segment = 0
  <2>1. IsMemory(cgram') /\ SizeOK
    BY <1>3 DEF SegmentsInv, LayoutInv
  <2> QED
    BY <1>2, <1>3, <2>1, SegmentsStay DEF OldCells, NewCells
<1>5. /\ DOMAIN old = NewCells /\ Display \subseteq OldCells
      /\ \A c \in OldCells : old[c] = LayoutFB[c]
      /\ \A c \in NewCells \ OldCells : old[c] = Blank
  <2>1. SizeOK /\ DOMAIN LayoutFB = OldCells
    BY DEF LayoutInv, OldCells
  <2>2. NewCells = Layout(NewRows(row + 1, col + len), NewCols(row + 1, col + len))
    BY <1>3 DEF Resize, OldCells, NewCells, Layout
  <2> QED
    BY <1>2, <2>1, <2>2, GrownKeeps DEF OldCells
<1>6. \A c \in NewCells : c[1] \in Int /\ c[2] \in Int /\ c = <<c[1], c[2]>>
  BY DEF OldCells, NewCells, Layout
<1> HIDE DEF old, row, col, len
<1>7. ASSUME NEW c \in NewCells
      PROVE  \/ /\ c \in TextCells(w, txt) /\ InWindow(c, row, col, 1, len)
                /\ \E k \in 1..Len(txt) : lay[c] = txt[k]
             \/ c \in OldCells /\ lay[c] = LayoutFB[c]
             \/ c \notin OldCells /\ lay[c] = Blank
  <2>1. CASE c[1] = row /\ c[2] \in col..(col + len - 1)
    <3>1. lay[c] = txt[c[2] - col + 1] /\ c[2] - col + 1 \in 1..len
      BY <1>1, <1>5, <1>6, <2>1
    <3>2. c = <<row, col + (c[2] - col)>> /\ c[2] - col \in 0..(len - 1)
      BY <1>1, <1>6, <2>1
    <3>3. c \in TextCells(w, txt)
      BY <3>2 DEF TextCells, row, col, len
    <3>4. InWindow(c, row, col, 1, len)
      BY <1>1, <1>6, <2>1 DEF InWindow
    <3> QED
      BY <3>1, <3>3, <3>4 DEF len
  <2>2. CASE ~(c[1] = row /\ c[2] \in col..(col + len - 1))
    <3>1. lay[c] = old[c]
      BY <1>5, <2>2
    <3> HIDE DEF lay
    <3> QED
      BY <1>5, <3>1
  <2> QED
    BY <2>1, <2>2
<1>8. DOMAIN lay = NewCells /\ lay = [c \in NewCells |-> lay[c]]
  BY <1>5
<1> HIDE DEF lay
<1>9. \A c \in NewCells : lay[c] \in Byte
  <2>1. \A k \in 1..Len(txt) : txt[k] \in Byte
    BY <1>1
  <2>2. \A c \in OldCells : LayoutFB[c] \in Byte
    BY DEF LayoutInv, OldCells
  <2> QED
    BY <1>7, <2>1, <2>2, BlankType
<1>10. lay \in [NewCells -> Byte]
  BY <1>8, <1>9
<1>11. Drawing(lay, DisplayFB, row, col, 1, len)
  <2>1. DOMAIN DisplayFB = Display /\ Display \subseteq NewCells
    BY <1>4, <1>5 DEF LayoutInv
  <2> QED
    BY <1>5, <1>7, <1>8, <1>9, <2>1 DEF Drawing
<1>12. /\ \A c \in Display : CellSent(c, lay, cgram) \/ CellKept(c, lay, DisplayFB, left)
       /\ DOMAIN screen' = Display /\ DisplayFB' \in [Display -> Byte]
       /\ left' \subseteq left /\ ScreenShowsLayout'
  <2>1. ScreenShowsLayout
    BY DEF LayoutInv
  <2> QED
    BY <1>3, <1>11, <2>1, BlitCells
<1>13. LayoutInv'
  BY <1>3, <1>4, <1>10, <1>12 DEF LayoutInv, OldCells, NewCells, Display
<1>14. TextDrawn(w, txt)
  BY <1>3, <1>7, <1>12 DEF TextDrawn
<1> QED
  BY <1>4, <1>13, <1>14

\* What drawing icon i at a cell does: with a character, the cell shows it or is
\* blank; without one nothing is sent.
IconDrawn(i, icon, cell) ==
  /\ Segment' = Segment /\ nSegment' = nSegment
  /\ IF IconChar(icon) = OutOfIcons
     THEN /\ \A c \in NewCells :
               LayoutFB'[c] = IF c \in OldCells THEN LayoutFB[c] ELSE Blank
          /\ DisplayFB' = DisplayFB /\ screen' = screen /\ left' = left /\ cgram' = cgram
     ELSE /\ icons'[i].ascii = IconChar(icon)
          /\ \A c \in NewCells :
               LayoutFB'[c] = IF c = cell THEN IF icon.visible THEN IconChar(icon) ELSE Blank
                              ELSE IF c \in OldCells THEN LayoutFB[c] ELSE Blank
          /\ \A c \in Display :
               \/ CellSent(c, LayoutFB', cgram')
               \/ /\ \E disp : CellKept(c, LayoutFB', disp, left)
                  /\ c = cell => ~(Redefined(icon) /\ INVALIDATE)

\* The complement of a byte is another byte.
LEMMA ComplementDiffers == \A b \in Byte : Complement(b) # b /\ Complement(b) \in Byte
  BY DEF Complement, Byte

\* Drawing an icon keeps layout, segments and icons.
LEMMA IconDraws ==
  ASSUME BaseInv, NEW i \in DOMAIN Icons, NEW icon, Drawn(i, icon),
         NEW cell \in Display, DrawIcon(i, icon, cell)
  PROVE  /\ BaseInv'
         /\ OldCells \subseteq NewCells
         /\ \A c \in OldCells : BarFB'[c] = BarFB[c]
         /\ \A c \in NewCells \ OldCells : BarFB'[c].dir = {} /\ BarFB'[c].segment = 0
         /\ IconDrawn(i, icon, cell)
<1> DEFINE code == IconChar(icon)
           rows == cell[1] + 1
           cols == cell[2] + 1
           old == Grown(LayoutFB, rows, cols, Blank)
           ch == IF icon.visible THEN code ELSE Blank
           lay == [old EXCEPT ![cell] = ch]
           again == Redefined(icon) /\ INVALIDATE
           disp == IF again THEN [DisplayFB EXCEPT ![cell] = Complement(ch)] ELSE DisplayFB
<1>1. rows \in Int /\ cols \in Int
  BY DisplayCell
<1>2. LayoutInv /\ SegmentsInv /\ IconsInv /\ IsMemory(cgram) /\ SizeOK
  BY DEF BaseInv, LayoutInv, SegmentsInv
<1>3. /\ Resize(rows, cols)
      /\ BarFB' = Grown(BarFB, rows, cols, ClearedBar)
      /\ Segment' = Segment /\ nSegment' = nSegment
  BY DEF DrawIcon
<1>4. /\ IconsInv'
      /\ code # OutOfIcons => code \in IconChars /\ code \in Byte
  <2>1. icon.ascii = icons[i].ascii
    BY DEF Drawn
  <2>2. IconsInv'
    BY <1>2, IconKeepsIcons
  <2>3. code # OutOfIcons => code \in IconChars
    BY <1>2, <2>1, IconCharIsFree
  <2> HIDE DEF code
  <2> QED
    BY <2>2, <2>3, CharsType
<1>5. /\ IsMemory(cgram')
      /\ \A k \in BarChars : k \in DOMAIN cgram => k \in DOMAIN cgram' /\ cgram'[k] = cgram[k]
  <2>1. code \in Byte \cup {OutOfIcons}
    BY <1>4
  <2>2. /\ IsMemory(cgram')
        /\ code = OutOfIcons => cgram' = cgram
        /\ \A k : k # code => (k \in DOMAIN cgram => k \in DOMAIN cgram' /\ cgram'[k] = cgram[k])
    BY <1>2, <2>1, IconChangesOwnBitmap
  <2>3. \A k \in BarChars : code # OutOfIcons => k # code
    BY <1>4, CharsType
  <2> QED
    BY <2>2, <2>3
<1>6. /\ SegmentsInv' /\ SizeOK' /\ OldCells \subseteq NewCells
      /\ \A c \in OldCells : BarFB'[c] = BarFB[c]
      /\ \A c \in NewCells \ OldCells : BarFB'[c].dir = {} /\ BarFB'[c].segment = 0
  BY <1>1, <1>2, <1>3, <1>5, SegmentsStay DEF OldCells, NewCells
<1>7. /\ DOMAIN old = NewCells /\ Display \subseteq OldCells
      /\ old = [c \in NewCells |-> IF c \in OldCells THEN LayoutFB[c] ELSE Blank]
      /\ \A c \in OldCells : LayoutFB[c] \in Byte
  <2>1. SizeOK /\ DOMAIN LayoutFB = OldCells /\ \A c \in OldCells : LayoutFB[c] \in Byte
    BY <1>2 DEF LayoutInv, OldCells
  <2>2. NewCells = Layout(NewRows(rows, cols), NewCols(rows, cols))
    BY <1>3 DEF Resize, OldCells, NewCells, Layout
  <2>3. DOMAIN old = NewCells /\ Display \subseteq OldCells
    BY <1>1, <2>1, <2>2, GrownKeeps DEF OldCells
  <2>4. old = [c \in NewCells |-> IF c \in OldCells THEN LayoutFB[c] ELSE Blank]
    BY <2>1, <2>2 DEF Grown
  <2> QED
    BY <2>1, <2>3, <2>4
<1> HIDE DEF rows, cols, code
<1>8. CASE code = OutOfIcons
  <2>1. LayoutFB' = old /\ DisplayFB' = DisplayFB /\ screen' = screen /\ left' = left /\ cgram' = cgram
    BY <1>8 DEF DrawIcon, code, rows, cols
  <2> HIDE DEF old
  <2>2. LayoutFB' \in [NewCells -> Byte]
    BY <1>7, <2>1, BlankType
  <2>3. ScreenShowsLayout'
    <3>1. \A c \in Display : c \in OldCells /\ c \in NewCells
      BY <1>6, <1>7
    <3>2. \A c \in Display : LayoutFB'[c] = LayoutFB[c]
      BY <1>7, <2>1, <3>1
    <3> QED
      BY <1>2, <2>1, <3>2 DEF LayoutInv, ScreenShowsLayout, Display
  <2>4. LayoutInv'
    BY <1>2, <1>6, <2>1, <2>2, <2>3 DEF LayoutInv, OldCells, NewCells, Display
  <2>5. IconDrawn(i, icon, cell)
    BY <1>3, <1>7, <1>8, <2>1 DEF IconDrawn, code
  <2> QED
    BY <1>4, <1>6, <2>4, <2>5 DEF BaseInv
<1>9. CASE code # OutOfIcons
  <2>1. /\ LayoutFB' = lay
        /\ Blit(lay, disp, cgram', left, cell[1], cell[2], 1, 1)
        /\ icons' = [icons EXCEPT ![i] =
             [icon EXCEPT !.ascii = code,
                          !.prvmap = IF Redefined(icon) THEN icon.curmap ELSE @]]
    BY <1>9 DEF DrawIcon, Redefined, code, rows, cols
  <2>2. icons'[i].ascii = code
    BY <1>2, <2>1 DEF Drawn, IconState, IconsInv
  <2>3. cell \in NewCells /\ ch \in Byte
    BY <1>4, <1>6, <1>7, <1>9, BlankType
  <2> HIDE DEF old, ch
  <2>4. /\ DOMAIN lay = NewCells
        /\ \A c \in NewCells :
             lay[c] = IF c = cell THEN ch ELSE IF c \in OldCells THEN LayoutFB[c] ELSE Blank
    BY <1>7, <2>3
  <2>5. lay \in [NewCells -> Byte]
    <3>1. lay = [c \in NewCells |-> lay[c]]
      BY <1>7
    <3> HIDE DEF lay
    <3> QED
      BY <1>7, <2>3, <2>4, <3>1, BlankType
  <2>6. /\ DOMAIN disp = Display
        /\ \A c \in Display : disp[c] = IF c = cell /\ again THEN Complement(ch) ELSE DisplayFB[c]
    BY <1>2 DEF LayoutInv
  <2>7. Complement(ch) # ch
    BY <2>3, ComplementDiffers
  <2> HIDE DEF lay, disp, again
  <2>8. InWindow(cell, cell[1], cell[2], 1, 1)
    BY DisplayCell DEF InWindow
  <2>9. Display \subseteq NewCells
    BY <1>6, <1>7
  <2>10. Drawing(lay, disp, cell[1], cell[2], 1, 1)
    <3>1. ASSUME NEW c \in Display
          PROVE  /\ lay[c] \in Byte
                 /\ InWindow(c, cell[1], cell[2], 1, 1) \/ lay[c] = LayoutFB[c]
                 /\ \/ disp[c] = DisplayFB[c]
                    \/ InWindow(c, cell[1], cell[2], 1, 1) /\ disp[c] # lay[c]
      BY <1>7, <2>4, <2>5, <2>6, <2>7, <2>8, <2>9
    <3> QED
      BY <2>4, <2>6, <2>9, <3>1 DEF Drawing
  <2>11. /\ \A c \in Display : CellSent(c, lay, cgram') \/ CellKept(c, lay, disp, left)
         /\ DOMAIN screen' = Display /\ DisplayFB' \in [Display -> Byte]
         /\ left' \subseteq left /\ ScreenShowsLayout'
    BY <1>2, <2>1, <2>10, BlitCells DEF LayoutInv
  <2>12. LayoutInv'
    BY <1>2, <1>6, <2>1, <2>5, <2>11 DEF LayoutInv, OldCells, NewCells, Display
  <2>13. ~(CellKept(cell, lay, disp, left) /\ again)
    BY <1>7, <2>3, <2>4, <2>6, <2>7 DEF CellKept
  <2>14. IconDrawn(i, icon, cell)
    BY <1>3, <1>9, <2>1, <2>2, <2>4, <2>11, <2>13 DEF IconDrawn, code, ch, again
  <2> QED
    BY <1>4, <1>6, <2>12, <2>14 DEF BaseInv
<1> QED
  BY <1>8, <1>9

-----------------------------------------------------------------------------
(***************************************************************************)
(* Bars                                                                    *)
(***************************************************************************)
\* The code of a segment is one of the font or of the bars' characters.
LEMMA CodeType ==
  ASSUME NEW seg, TableOK(seg), CharsOK(seg), NEW i \in 1..Len(seg)
  PROVE  /\ i <= fSegment => CodeOf(seg, i) = seg[i].ascii /\ CodeOf(seg, i) \in Byte \ UserChars
         /\ i > fSegment => IF seg[i].ascii = Undefined THEN CodeOf(seg, i) = Undefined
                            ELSE /\ CodeOf(seg, i) = CHAR0 + seg[i].ascii
                                 /\ CodeOf(seg, i) \in BarChars
         /\ CodeOf(seg, i) # Undefined => CodeOf(seg, i) \in Byte \ IconChars
<1>1. fSegment \in Nat /\ Len(seg) \in Nat
  BY FixedLength DEF TableOK
<1>2. CASE i <= fSegment
  <2>1. i \in 1..fSegment /\ ~(i > fSegment)
    BY <1>1, <1>2
  <2>2. seg[i] = [FixedSegments[i] EXCEPT !.used = seg[i].used]
    BY <2>1 DEF TableOK
  <2>3. FixedSegments[i] \in BarSegment /\ FixedSegments[i].ascii \in Byte \ UserChars
    BY <2>1, FixedLength, SegmentsAssumption DEF fSegment
  <2>4. seg[i].ascii \in Byte \ UserChars
    BY <2>2, <2>3 DEF BarSegment
  <2>5. CodeOf(seg, i) = seg[i].ascii
    BY <2>1 DEF CodeOf
  <2> QED
    BY <2>1, <2>4, <2>5, CharsType
<1>3. CASE ~(i <= fSegment)
  <2>1. i > fSegment /\ i \in (fSegment + 1)..Len(seg)
    BY <1>1, <1>3
  <2>2. seg[i].ascii \in {Undefined} \cup 0..(Room - 1)
    BY <2>1 DEF CharsOK
  <2>3. CASE seg[i].ascii = Undefined
    BY <1>3, <2>1, <2>3 DEF CodeOf
  <2>4. CASE seg[i].ascii # Undefined
    <3>1. CodeOf(seg, i) = CHAR0 + seg[i].ascii /\ seg[i].ascii \in 0..(Room - 1)
      BY <2>1, <2>2, <2>4 DEF CodeOf
    <3>2. CodeOf(seg, i) \in BarChars
      BY <3>1, CharsType
    <3> QED
      BY <1>3, <2>4, <3>1, <3>2, CharsType
  <2> QED
    BY <2>3, <2>4
<1> QED
  BY <1>2, <1>3

\* What a bar draw does.
BarDrawn(w, v1, v2) ==
  /\ icons' = icons
  /\ BarFB' = BarsAfter(w, v1, v2).fb /\ Segment' = BarsAfter(w, v1, v2).seg
  /\ nSegment' = BarsAfter(w, v1, v2).n /\ cgram' = BarsAfter(w, v1, v2).cgram
  /\ \A c \in NewCells :
       LET code == CodeOf(Segment', BarFB'[c].segment)
       IN  LayoutFB'[c] = IF BarFB'[c].dir # {} /\ code # Undefined THEN code
                          ELSE IF c \in OldCells THEN LayoutFB[c] ELSE Blank
  /\ \A c \in Display :
       \/ CellSent(c, LayoutFB', cgram')
       \/ /\ \E disp : CellKept(c, LayoutFB', disp,
                                left \cup {d \in Display : BarFB'[d].segment > nSegment'})
          /\ INVALIDATE => BarFB'[c].segment \notin BarsAfter(w, v1, v2).defined

\* A bar draw keeps layout, segments and icons.
LEMMA BarDraws ==
  ASSUME BaseInv, NEW w \in DOMAIN Bars, NEW v1 \in Int, NEW v2 \in Int, DrawBar(w, v1, v2)
  PROVE  /\ BaseInv' /\ NewCells = CellsWith(w)
         /\ OldCells \subseteq NewCells
         /\ BarDrawn(w, v1, v2)
<1> DEFINE new == BarsAfter(w, v1, v2)
           lay == BarLayout(w, new)
           old == Grown(LayoutFB, BarRows(w), BarCols(w), Blank)
           stale == {c \in Display : INVALIDATE /\ new.fb[c].segment \in new.defined}
           disp == [c \in Display |-> IF c \in stale THEN Complement(lay[c]) ELSE DisplayFB[c]]
           lost == left \cup {c \in Display : new.fb[c].segment > new.n}
           dom == CellsWith(w)
           R == RowsWith(w)
           C == ColsWith(w)
<1>1. LayoutInv /\ SegmentsInv /\ IconsInv /\ IsMemory(cgram) /\ SizeOK
  BY DEF BaseInv, LayoutInv, SegmentsInv
<1>2. /\ Resize(BarRows(w), BarCols(w))
      /\ BarFB' = new.fb /\ Segment' = new.seg /\ nSegment' = new.n
      /\ cgram' = new.cgram /\ LayoutFB' = lay /\ icons' = icons
      /\ Blit(lay, disp, new.cgram, lost, 0, 0, R, C)
  BY DEF DrawBar, RowsWith, ColsWith
<1>3. /\ new.n \in 0..Len(new.seg) /\ new.n <= fSegment + Room
      /\ TableOK(new.seg) /\ CharsOK(new.seg) /\ OwnOK(new.seg, new.n, new.cgram)
      /\ \A i \in (fSegment + 1)..new.n : new.seg[i].ascii # Undefined
      /\ IsMemory(new.cgram) /\ DOMAIN cgram \subseteq DOMAIN new.cgram
      /\ new.defined \subseteq (fSegment + 1)..new.n
      /\ \A code \in Byte :
           (\A i \in new.defined : code # CHAR0 + new.seg[i].ascii) =>
             Glyph(new.cgram, code) = Glyph(cgram, code)
      /\ BarCellsOK(new.fb, dom)
      /\ \A c \in dom :
           /\ Values(new.fb[c]) = Values(Created(w, v1, v2)[c])
           /\ new.fb[c].dir # {} => new.fb[c].segment \in 1..Len(new.seg)
  BY <1>1, BarsAreProcessed
<1>4. /\ NewCells = dom /\ LROWS' = R /\ LCOLS' = C
  BY <1>2 DEF NewCells, OldCells, Layout, CellsWith, RowsWith, ColsWith, Resize
<1>5. DOMAIN BarFB = OldCells /\ DOMAIN LayoutFB = OldCells
  BY <1>1 DEF SegmentsInv, BarCellsOK, LayoutInv, OldCells
<1>6. /\ BarRows(w) \in Int /\ BarCols(w) \in Int
      /\ R \in Nat /\ C \in Nat \ {0} /\ R >= LROWS /\ C >= LCOLS
      /\ Display \subseteq OldCells /\ OldCells \subseteq dom
      /\ \A c \in OldCells : GrownBars(w)[c] = BarFB[c]
      /\ \A c \in dom \ OldCells : GrownBars(w)[c] = ClearedBar
  BY <1>1, <1>5, BarSize DEF OldCells
<1>7. SizeOK'
  BY <1>1, <1>4, <1>6, DisplayAssumption DEF SizeOK
<1>8. old = [c \in dom |-> IF c \in OldCells THEN LayoutFB[c] ELSE Blank]
  BY <1>5 DEF Grown, CellsWith, RowsWith, ColsWith
<1> HIDE DEF new, dom, R, C
<1>9. DOMAIN lay = dom /\ lay = [c \in dom |-> lay[c]]
  BY <1>8 DEF BarLayout
<1>10. ASSUME NEW c \in dom
       PROVE  lay[c] = IF new.fb[c].dir # {} /\ CodeOf(new.seg, new.fb[c].segment) # Undefined
                       THEN CodeOf(new.seg, new.fb[c].segment)
                       ELSE IF c \in OldCells THEN LayoutFB[c] ELSE Blank
  <2>1. /\ new.fb[c].dir = {} => new.fb[c].segment = 0
        /\ new.fb[c].dir # {} => new.fb[c].segment # 0
    BY <1>3 DEF BarCellsOK
  <2>2. old[c] = IF c \in OldCells THEN LayoutFB[c] ELSE Blank
    BY <1>8
  <2>3. c \in DOMAIN old
    BY <1>8
  <2> HIDE DEF old
  <2> DEFINE code(d) == IF new.fb[d].segment = 0 THEN Undefined
                        ELSE CodeOf(new.seg, new.fb[d].segment)
  <2>4. lay = [d \in DOMAIN old |-> IF code(d) = Undefined THEN old[d] ELSE code(d)]
    BY DEF BarLayout, old
  <2>5. lay[c] = IF code(c) = Undefined THEN old[c] ELSE code(c)
    BY <2>3, <2>4
  <2> QED
    BY <2>1, <2>2, <2>5
<1> HIDE DEF lay, old
<1>11. lay \in [dom -> Byte]
  <2>1. ASSUME NEW c \in dom PROVE lay[c] \in Byte
    <3>1. c \in OldCells => LayoutFB[c] \in Byte
      BY <1>1 DEF LayoutInv, OldCells
    <3>2. new.fb[c].dir # {} /\ CodeOf(new.seg, new.fb[c].segment) # Undefined =>
            CodeOf(new.seg, new.fb[c].segment) \in Byte
      BY <1>3, CodeType
    <3> QED
      BY <1>10, <3>1, <3>2, BlankType
  <2> QED
    BY <1>9, <2>1
<1>12. \A c \in Display : c \in dom /\ lay[c] \in Byte /\ InWindow(c, 0, 0, R, C)
  <2>1. \A c \in Display : c \in dom
    BY <1>6
  <2>2. ASSUME NEW c \in Display PROVE InWindow(c, 0, 0, R, C)
    <3>1. DROWS <= R /\ DCOLS <= C /\ DROWS \in Nat /\ DCOLS \in Nat
      BY <1>1, <1>6, DisplayAssumption DEF SizeOK
    <3> QED
      BY <1>6, <3>1, DisplayCell DEF InWindow
  <2> QED
    BY <1>11, <2>1, <2>2
<1>13. \A c \in Display : disp[c] = IF c \in stale THEN Complement(lay[c]) ELSE DisplayFB[c]
  OBVIOUS
<1>14. \A c \in stale : disp[c] # lay[c]
  BY <1>12, <1>13, ComplementDiffers
<1>15. Drawing(lay, disp, 0, 0, R, C)
  <2>1. Display \subseteq DOMAIN lay /\ DOMAIN disp = Display
    BY <1>6, <1>9
  <2> HIDE DEF disp
  <2> QED
    BY <1>12, <1>13, <1>14, <2>1 DEF Drawing
<1> HIDE DEF disp, lost
<1>16. /\ \A c \in Display : CellSent(c, lay, new.cgram) \/ CellKept(c, lay, disp, lost)
       /\ DOMAIN screen' = Display /\ DisplayFB' \in [Display -> Byte]
       /\ left' \subseteq lost /\ ScreenShowsLayout'
  BY <1>1, <1>2, <1>15, BlitCells DEF LayoutInv
<1>17. LayoutInv'
  <2>1. lost \subseteq Display
    BY <1>1 DEF LayoutInv, lost
  <2>2. LayoutFB' \in [NewCells -> Byte]
    BY <1>2, <1>4, <1>11
  <2> QED
    BY <1>7, <1>16, <2>1, <2>2 DEF LayoutInv, NewCells, OldCells, Display
<1>18. SegmentsInv'
  <2>1. ASSUME NEW c \in dom, new.fb[c].dir # {}
        PROVE  \E v \in DOMAIN Bars : c \in BarCells(v)
    <3>1. CASE c \in BarCells(w)
      BY <3>1
    <3>2. CASE c \notin BarCells(w)
      <4> DEFINE cell == Created(w, v1, v2)[c]
      <4>1. BarCellsOK(BarFB, OldCells)
        BY <1>1 DEF SegmentsInv, OldCells
      <4>2. cell = GrownBars(w)[c] /\ cell \in Bar
        BY <1>1, <3>2, <4>1, BarIsDrawn DEF OldCells, BarCellsOK, dom
      <4>3. new.fb[c] \in Bar /\ Values(new.fb[c]) = Values(cell)
        BY <1>3 DEF BarCellsOK
      <4> HIDE DEF cell
      <4>4. cell.dir # {}
        BY <2>1, <4>2, <4>3, MatchesValues
      <4>5. c \in OldCells /\ BarFB[c].dir # {}
        BY <1>6, <4>2, <4>4 DEF ClearedBar
      <4> QED
        BY <1>1, <4>5 DEF SegmentsInv, OldCells
    <3> QED
      BY <3>1, <3>2
  <2>2. NewCells = Layout(LROWS, LCOLS)'
    BY DEF NewCells, OldCells
  <2> QED
    BY <1>2, <1>3, <1>4, <2>1, <2>2 DEF SegmentsInv
<1>19. \A k \in IconChars : k \in DOMAIN cgram => k \in DOMAIN cgram' /\ cgram'[k] = cgram[k]
  <2> SUFFICES ASSUME NEW k \in IconChars, k \in DOMAIN cgram
               PROVE  k \in DOMAIN cgram' /\ cgram'[k] = cgram[k]
    OBVIOUS
  <2>1. ASSUME NEW i \in new.defined PROVE k # CHAR0 + new.seg[i].ascii
    <3>1. i \in (fSegment + 1)..new.n
      BY <1>3
    <3>2. HasChar(new.seg[i], new.cgram)
      BY <1>3, <3>1 DEF OwnOK
    <3>3. CHAR0 + new.seg[i].ascii \in BarChars
      BY <3>2, CharsType DEF HasChar
    <3> QED
      BY <3>3, CharsType
  <2>2. k \in Byte
    BY CharsType
  <2>3. Glyph(new.cgram, k) = Glyph(cgram, k) /\ k \in DOMAIN new.cgram
    BY <1>3, <2>1, <2>2
  <2> QED
    BY <1>2, <2>3 DEF Glyph
<1>20. IconsInv'
  <2>1. DOMAIN cgram \subseteq Byte
    BY <1>1 DEF IsMemory
  <2> QED
    BY <1>1, <1>2, <1>19, <2>1, IconsStay
<1>21. BarDrawn(w, v1, v2)
  <2>1. ASSUME NEW c \in Display
        PROVE  \/ CellSent(c, LayoutFB', cgram')
               \/ /\ \E d : CellKept(c, LayoutFB', d, lost)
                  /\ INVALIDATE => BarFB'[c].segment \notin new.defined
    <3>1. CASE CellSent(c, lay, new.cgram)
      BY <1>2, <3>1
    <3>2. CASE CellKept(c, lay, disp, lost)
      <4>1. c \notin stale
        BY <1>14, <3>2 DEF CellKept
      <4>2. \E d : CellKept(c, LayoutFB', d, lost)
        BY <1>2, <3>2
      <4> QED
        BY <1>2, <4>1, <4>2
    <3> QED
      BY <1>16, <3>1, <3>2
  <2>2. lost = left \cup {d \in Display : BarFB'[d].segment > nSegment'}
    BY <1>2 DEF lost
  <2>3. \A c \in NewCells :
          LET code == CodeOf(Segment', BarFB'[c].segment)
          IN  LayoutFB'[c] = IF BarFB'[c].dir # {} /\ code # Undefined THEN code
                             ELSE IF c \in OldCells THEN LayoutFB[c] ELSE Blank
    BY <1>2, <1>4, <1>10
  <2> QED
    BY <1>2, <2>1, <2>2, <2>3 DEF BarDrawn, new
<1> QED
  BY <1>4, <1>6, <1>17, <1>18, <1>20, <1>21 DEF BaseInv, dom

-----------------------------------------------------------------------------
(***************************************************************************)
(* The display shows the layout                                            *)
(***************************************************************************)
LEMMA BaseInit == Init => BaseInv
<1> SUFFICES ASSUME Init PROVE BaseInv
  OBVIOUS
<1>1. /\ DROWS \in Nat /\ DCOLS \in Nat /\ Display = Layout(DROWS, DCOLS)
      /\ fSegment \in Nat /\ Room \in Nat /\ Len(FixedSegments) = fSegment
      /\ FixedSegments \in Seq(BarSegment)
  BY DisplayAssumption, FixedLength, RoomType DEF Display, Layout, fSegment
<1>2. LROWS = DROWS /\ LCOLS = DCOLS /\ Layout(LROWS, LCOLS) = Display /\ SizeOK
  BY <1>1 DEF Init, SizeOK
<1>3. LayoutInv
  BY <1>1, <1>2, BlankType DEF Init, LayoutInv, ScreenShowsLayout
<1>4. SegmentsInv
  <2>1. ClearedBar \in Bar /\ ClearedBar.dir = {} /\ ClearedBar.segment = 0
    BY DEF ClearedBar, Bar
  <2>2. BarCellsOK(BarFB, Layout(LROWS, LCOLS)) /\ \A c \in Layout(LROWS, LCOLS) : BarFB[c].dir = {}
    BY <1>2, <2>1 DEF Init, BarCellsOK
  <2>3. Segment = FixedSegments /\ nSegment = fSegment
    BY DEF Init
  <2>4. /\ \A i \in 1..fSegment : FixedSegments[i]
             = [FixedSegments[i] EXCEPT !.used = FixedSegments[i].used]
    <3>1. \A s \in BarSegment : s = [s EXCEPT !.used = s.used]
      BY DEF BarSegment
    <3>2. \A i \in 1..fSegment : FixedSegments[i] \in BarSegment
      BY <1>1
    <3> QED
      BY <3>1, <3>2
  <2>5. TableOK(Segment)
    BY <1>1, <2>3, <2>4 DEF TableOK
  <2>6. (fSegment + 1)..fSegment = {}
    BY <1>1
  <2>7. IsMemory(cgram)
    BY DEF Init, IsMemory
  <2> QED
    BY <1>1, <2>2, <2>3, <2>5, <2>6, <2>7 DEF SegmentsInv, CharsOK, OwnOK
<1>5. IconsInv
  <2>1. icons = [i \in DOMAIN Icons |->
                  [ascii |-> NotAssigned, curmap |-> 0, prvmap |-> NoMap, visible |-> FALSE]]
    BY DEF Init
  <2>2. icons \in [DOMAIN Icons -> IconState]
    BY <2>1 DEF IconState
  <2>3. \A i \in DOMAIN Icons : ~(icons[i].ascii >= 0)
    BY <2>1 DEF NotAssigned
  <2>4. IconsAssigned = 0
    <3>1. {i \in DOMAIN Icons : icons[i].ascii >= 0} = {}
      BY <2>3
    <3> QED
      BY <3>1, FS_EmptySet DEF IconsAssigned
  <2>5. ASSUME NEW i \in DOMAIN Icons PROVE IconOK(i)
    <3>1. Icons[i].maps \in Nat
      BY WidgetsAssumption
    <3> QED
      BY <2>1, <2>3, <3>1 DEF IconOK
  <2> QED
    BY <2>2, <2>3, <2>4, <2>5, CharsType DEF IconsInv
<1> QED
  BY <1>3, <1>4, <1>5 DEF BaseInv

\* The two ways to draw an icon hand icon_draw() an icon in order.
LEMMA UpdatesDraw ==
  ASSUME IconsInv, NEW i \in DOMAIN Icons
  PROVE  /\ \A frame \in Frames, visible \in BOOLEAN : UpdateIcon(i, frame, visible) =>
              /\ Icons[i].cell \in Display
              /\ \E icon : /\ Drawn(i, icon) /\ DrawIcon(i, icon, Icons[i].cell)
         /\ \A cell \in Icons[i].copies : UpdateCopy(i, cell) =>
              /\ cell \in Display /\ icons[i].ascii # NotAssigned
              /\ Drawn(i, icons[i]) /\ DrawIcon(i, icons[i], cell)
<1>1. /\ icons[i] \in IconState /\ icons[i].curmap \in 0..Icons[i].maps
      /\ Icons[i].maps \in Nat /\ IconCells(i) \subseteq Display
  BY WidgetsAssumption, DisplayAssumption DEF IconsInv, IconOK
<1>2. ASSUME NEW frame \in Frames, NEW visible \in BOOLEAN, UpdateIcon(i, frame, visible)
      PROVE  /\ Icons[i].cell \in Display
             /\ \E icon : /\ Drawn(i, icon) /\ DrawIcon(i, icon, Icons[i].cell)
  <2> DEFINE next == IF icons[i].curmap + 1 >= Icons[i].maps THEN 0 ELSE icons[i].curmap + 1
             map == IF frame \in 0..Icons[i].maps THEN frame ELSE next
             icon == [icons[i] EXCEPT !.visible = visible, !.curmap = map]
  <2>1. map \in 0..Icons[i].maps /\ map \in Nat
    BY <1>1
  <2>2. DrawIcon(i, icon, Icons[i].cell)
    BY <1>2 DEF UpdateIcon
  <2> HIDE DEF map
  <2>3. Drawn(i, icon)
    BY <1>1, <2>1 DEF Drawn, IconState
  <2>4. Icons[i].cell \in Display
    BY <1>1 DEF IconCells
  <2> HIDE DEF icon
  <2> QED
    BY <2>2, <2>3, <2>4
<1>3. ASSUME NEW cell \in Icons[i].copies, UpdateCopy(i, cell)
      PROVE  /\ cell \in Display /\ icons[i].ascii # NotAssigned
             /\ Drawn(i, icons[i]) /\ DrawIcon(i, icons[i], cell)
  BY <1>1, <1>3 DEF UpdateCopy, Drawn, IconCells
<1> QED
  BY <1>2, <1>3

\* Every draw keeps BaseInv.
LEMMA BaseNext == BaseInv /\ [Next]_vars => BaseInv'
<1> SUFFICES ASSUME BaseInv, [Next]_vars PROVE BaseInv'
  OBVIOUS
<1>0. LayoutInv /\ SegmentsInv /\ IconsInv
  BY DEF BaseInv
<1>1. ASSUME NEW w \in DOMAIN Texts, NEW txt \in Strings, DrawText(w, txt)
      PROVE  BaseInv'
  <2>1. LayoutInv' /\ SegmentsInv' /\ TextDrawn(w, txt)
    BY <1>0, <1>1, TextDraws
  <2>2. icons' = icons /\ cgram' = cgram /\ DOMAIN cgram \subseteq Byte
    BY <1>0, <2>1 DEF TextDrawn, SegmentsInv, IsMemory
  <2>3. IconsInv'
    BY <1>0, <2>2, IconsStay
  <2> QED
    BY <2>1, <2>3 DEF BaseInv
<1>2. ASSUME NEW i \in DOMAIN Icons, NEW frame \in Frames, NEW visible \in BOOLEAN,
             UpdateIcon(i, frame, visible)
      PROVE  BaseInv'
  <2>1. PICK icon : Drawn(i, icon) /\ DrawIcon(i, icon, Icons[i].cell)
    BY <1>0, <1>2, UpdatesDraw
  <2>2. Icons[i].cell \in Display
    BY <1>0, <1>2, UpdatesDraw
  <2> QED
    BY <2>1, <2>2, IconDraws
<1>3. ASSUME NEW i \in DOMAIN Icons, NEW cell \in Icons[i].copies, UpdateCopy(i, cell)
      PROVE  BaseInv'
  BY <1>0, <1>3, UpdatesDraw, IconDraws
<1>4. ASSUME NEW w \in DOMAIN Bars, NEW v \in BarValues, DrawBar(w, v[1], v[2])
      PROVE  BaseInv'
  <2>1. v[1] \in Int /\ v[2] \in Int
    BY WidgetsAssumption
  <2> QED
    BY <1>4, <2>1, BarDraws
<1>5. CASE UNCHANGED vars
  <2>1. LayoutInv'
    BY <1>0, <1>5 DEF vars, LayoutInv, SizeOK, ScreenShowsLayout, Layout, Display
  <2>2. SegmentsInv'
    BY <1>0, <1>5 DEF vars, SegmentsInv, Layout
  <2>3. IconsInv'
    BY <1>0, <1>5 DEF vars, IconsInv, IconOK, IconsAssigned
  <2> QED
    BY <2>1, <2>2, <2>3 DEF BaseInv
<1> QED
  BY <1>1, <1>2, <1>3, <1>4, <1>5 DEF Next

\* So it holds always.
LEMMA BaseAlways == Spec => []BaseInv
  BY BaseInit, BaseNext, PTL DEF Spec

\* After every draw the display shows the layout: what differs is found and sent
\* by every draw, and what is skipped was right before.
THEOREM ScreenCorrect == Spec => []ScreenShowsLayout
<1>1. BaseInv => ScreenShowsLayout
  BY DEF BaseInv, LayoutInv
<1> QED
  BY BaseAlways, <1>1, PTL

\* The type invariant.
THEOREM TypesCorrect == Spec => []TextTypeOK
<1>1. BaseInv => TextTypeOK
  <2> SUFFICES ASSUME BaseInv PROVE TextTypeOK
    OBVIOUS
  <2>1. LayoutInv /\ SegmentsInv /\ IconsInv
    BY DEF BaseInv
  <2>2. /\ TableOK(Segment) /\ Len(Segment) \in Nat /\ Segment \in Seq(BarSegment)
        /\ nSegment \in Nat /\ nSegment <= Len(Segment) /\ fSegment <= Len(Segment)
        /\ DOMAIN Segment = 1..Len(Segment)
    BY <2>1 DEF SegmentsInv, TableOK
  <2>3. \A c \in Layout(LROWS, LCOLS) : BarFB[c] \in Bar /\ BarFB[c].segment <= Len(Segment)
    BY <2>1, <2>2 DEF SegmentsInv, BarCellsOK
  <2>4. \A i \in DOMAIN Segment : Segment[i] \in BarSegment
    BY <2>2
  <2>5. DOMAIN BarFB = Layout(LROWS, LCOLS) /\ DOMAIN cgram \subseteq Byte
    BY <2>1 DEF SegmentsInv, BarCellsOK, IsMemory
  <2>6. \A i \in DOMAIN Icons :
       /\ icons[i].ascii \in Byte \cup {NotAssigned, OutOfIcons}
       /\ icons[i].curmap \in 0..Icons[i].maps
       /\ icons[i].prvmap \in {NoMap} \cup 0..Icons[i].maps
       /\ icons[i].visible \in BOOLEAN
    BY <2>1 DEF IconsInv, IconOK, IconState
  <2> QED
    BY <2>1, <2>2, <2>3, <2>4, <2>5, <2>6 DEF TextTypeOK, LayoutInv, SizeOK
<1> QED
  BY BaseAlways, <1>1, PTL

\* Bars never take the character of an icon.
THEOREM IconsCorrect == Spec => []IconsKept
<1>1. BaseInv => IconsKept
  BY DEF BaseInv, IconsInv, IconOK, IconsKept
<1> QED
  BY BaseAlways, <1>1, PTL

-----------------------------------------------------------------------------
(***************************************************************************)
(* What the codes in the layout stand for                                  *)
(***************************************************************************)
\* What the layout holds: a settled bar cell the character of its segment, other
\* cells no character of the bars, and a cell with an icon's character is that icon's.
CodeOK(c) ==
  /\ BarFB[c].dir # {} /\ Settled(c) => LayoutFB[c] = CodeOf(Segment, BarFB[c].segment)
  /\ BarFB[c].dir = {} => LayoutFB[c] \notin BarChars
  /\ LayoutFB[c] \in IconChars =>
       \E i \in DOMAIN Icons : c \in IconCells(i) /\ icons[i].ascii = LayoutFB[c]
CodesInv == \A c \in OldCells : CodeOK(c)

\* A blank cell shows no user-defined character.
LEMMA BlankIsNoUserChar == Blank \notin BarChars /\ Blank \notin IconChars
  BY ApartAssumption, CharsType

\* No icon has a cell of a bar.
LEMMA NoBarInIcons ==
  ASSUME SegmentsInv, NEW c \in OldCells, NEW i \in DOMAIN Icons, c \in IconCells(i)
  PROVE  BarFB[c].dir = {}
  BY ApartAssumption DEF SegmentsInv, OldCells

\* No text is written over a bar.
LEMMA NoBarInTexts ==
  ASSUME SegmentsInv, NEW c \in OldCells, NEW t \in DOMAIN Texts, NEW txt \in Strings,
         c \in TextCells(t, txt)
  PROVE  BarFB[c].dir = {}
  BY ApartAssumption DEF SegmentsInv, OldCells

\* Initially all cells are blank and belong to no bar.
LEMMA CodesInit == Init => CodesInv
<1> SUFFICES ASSUME Init, NEW c \in OldCells PROVE CodeOK(c)
  BY DEF CodesInv
<1>1. BaseInv
  BY BaseInit
<1>2. c \in Display
  BY DEF Init, OldCells, Layout, Display
<1>3. LayoutFB[c] = Blank /\ BarFB[c].dir = {}
  BY <1>2 DEF Init, ClearedBar
<1> QED
  BY <1>3, BlankIsNoUserChar DEF CodeOK

\* A text brings no user-defined character.
LEMMA TextKeepsCodes ==
  ASSUME BaseInv, CodesInv, NEW w \in DOMAIN Texts, NEW txt \in Strings, DrawText(w, txt)
  PROVE  CodesInv'
<1>1. /\ OldCells \subseteq NewCells
      /\ \A c \in OldCells : BarFB'[c] = BarFB[c]
      /\ \A c \in NewCells \ OldCells : BarFB'[c].dir = {}
      /\ TextDrawn(w, txt) /\ SegmentsInv
  BY TextDraws DEF BaseInv
<1>2. ASSUME NEW c \in NewCells PROVE CodeOK(c)'
  <2>1. CASE c \in TextCells(w, txt) /\ \E k \in 1..Len(txt) : LayoutFB'[c] = txt[k]
    <3>1. LayoutFB'[c] \notin UserChars
      BY <2>1, ApartAssumption
    <3>2. BarFB'[c].dir = {}
      BY <1>1, <2>1, NoBarInTexts
    <3> QED
      BY <3>1, <3>2, CharsType DEF CodeOK
  <2>2. CASE c \in OldCells /\ LayoutFB'[c] = LayoutFB[c]
    BY <1>1, <2>2 DEF CodesInv, CodeOK, Settled, TextDrawn
  <2>3. CASE c \notin OldCells /\ LayoutFB'[c] = Blank
    BY <1>1, <2>3, BlankIsNoUserChar DEF CodeOK
  <2> QED
    BY <1>1, <2>1, <2>2, <2>3 DEF TextDrawn
<1> QED
  BY <1>2 DEF CodesInv, NewCells

\* An icon keeps the character it has.
LEMMA IconKeepsChars ==
  ASSUME IconsInv, NEW i \in DOMAIN Icons, NEW icon, Drawn(i, icon),
         NEW cell, DrawIcon(i, icon, cell), NEW j \in DOMAIN Icons, icons[j].ascii \in IconChars
  PROVE  icons'[j].ascii = icons[j].ascii
<1>1. icons \in [DOMAIN Icons -> IconState] /\ icon \in IconState /\ icon.ascii = icons[i].ascii
  BY DEF IconsInv, Drawn
<1>2. \E new : icons' = [icons EXCEPT ![i] = new]
  <2>1. CASE IconChar(icon) = OutOfIcons
    BY <2>1 DEF DrawIcon
  <2>2. CASE IconChar(icon) # OutOfIcons
    BY <2>2 DEF DrawIcon
  <2> QED
    BY <2>1, <2>2
<1>3. CASE j # i
  BY <1>1, <1>2, <1>3
<1>4. CASE j = i
  <2> DEFINE map == IF Redefined(icon) THEN icon.curmap ELSE icon.prvmap
  <2>1. icon.ascii >= 0
    <3>1. icons[j].ascii \in Byte
      BY CharsType
    <3> QED
      BY <1>1, <1>4, <3>1 DEF Byte
  <2>2. IconChar(icon) = icon.ascii /\ icon.ascii # OutOfIcons
    BY <2>1 DEF IconChar, NotAssigned, OutOfIcons
  <2>3. icons' = [icons EXCEPT ![i] = [icon EXCEPT !.ascii = icon.ascii, !.prvmap = map]]
    BY <2>2 DEF DrawIcon, Redefined
  <2> HIDE DEF map
  <2>4. icons'[i].ascii = icon.ascii
    BY <1>1, <2>3 DEF IconState
  <2> QED
    BY <1>1, <1>4, <2>4
<1> QED
  BY <1>3, <1>4

\* An icon brings its own character only, to a cell of its own.
LEMMA IconKeepsCodes ==
  ASSUME BaseInv, CodesInv, NEW i \in DOMAIN Icons, NEW icon, Drawn(i, icon),
         NEW cell \in IconCells(i), DrawIcon(i, icon, cell)
  PROVE  CodesInv'
<1>1. cell \in Display /\ SegmentsInv /\ IconsInv /\ Display \subseteq OldCells
  <2>1. DOMAIN BarFB = Layout(LROWS, LCOLS) /\ SizeOK
    BY DEF BaseInv, LayoutInv, SegmentsInv, BarCellsOK
  <2>2. Display \subseteq OldCells
    BY <2>1, GrownKeeps DEF OldCells
  <2> QED
    BY <2>2, DisplayAssumption DEF BaseInv
<1>2. /\ OldCells \subseteq NewCells
      /\ \A c \in OldCells : BarFB'[c] = BarFB[c]
      /\ \A c \in NewCells \ OldCells : BarFB'[c].dir = {}
      /\ IconDrawn(i, icon, cell)
  BY <1>1, IconDraws
<1>3. \A j \in DOMAIN Icons : icons[j].ascii \in IconChars => icons'[j].ascii = icons[j].ascii
  BY <1>1, IconKeepsChars
<1>4. ASSUME NEW c \in NewCells PROVE CodeOK(c)'
  <2>1. CASE c \in OldCells /\ LayoutFB'[c] = LayoutFB[c]
    <3>1. CodeOK(c) /\ BarFB'[c] = BarFB[c] /\ Segment' = Segment /\ nSegment' = nSegment
      BY <1>2, <2>1 DEF CodesInv, IconDrawn
    <3>2. LayoutFB[c] \in IconChars =>
            \E j \in DOMAIN Icons : c \in IconCells(j) /\ icons'[j].ascii = LayoutFB[c]
      BY <1>3, <3>1 DEF CodeOK
    <3> QED
      BY <2>1, <3>1, <3>2 DEF CodeOK, Settled, IconCells
  <2>2. CASE c \notin OldCells /\ LayoutFB'[c] = Blank
    BY <1>2, <2>2, BlankIsNoUserChar DEF CodeOK
  <2>3. CASE /\ c = cell /\ IconChar(icon) # OutOfIcons
             /\ LayoutFB'[c] = IF icon.visible THEN IconChar(icon) ELSE Blank
    <3>1. IconChar(icon) \in IconChars
      BY <1>1, <2>3, IconCharIsFree DEF Drawn
    <3>2. BarFB'[c].dir = {}
      BY <1>1, <1>2, <2>3, NoBarInIcons
    <3>3. LayoutFB'[c] \notin BarChars
      BY <2>3, <3>1, BlankIsNoUserChar, CharsType
    <3>4. LayoutFB'[c] \in IconChars => c \in IconCells(i) /\ icons'[i].ascii = LayoutFB'[c]
      BY <1>2, <2>3, BlankIsNoUserChar DEF IconDrawn
    <3> QED
      BY <3>2, <3>3, <3>4 DEF CodeOK, IconCells
  <2> QED
    BY <1>2, <2>1, <2>2, <2>3 DEF IconDrawn
<1> QED
  BY <1>4 DEF CodesInv, NewCells

-----------------------------------------------------------------------------
(***************************************************************************)
(* The values of bars                                                      *)
(***************************************************************************)
\* A bar draw gives the cells of its bar their pixels; the values of the others stay.
LEMMA BarDrawsValues ==
  ASSUME BaseInv, NEW w \in DOMAIN Bars, NEW v1 \in Int, NEW v2 \in Int, DrawBar(w, v1, v2)
  PROVE  /\ \A c \in NewCells \ BarCells(w) :
              LET old == IF c \in OldCells THEN BarFB[c] ELSE ClearedBar
              IN  /\ BarFB'[c].dir = old.dir
                  /\ BarFB'[c].val1 = old.val1 /\ BarFB'[c].val2 = old.val2
         /\ \A k \in 0..(Bars[w].len - 1) :
              /\ CellOf(w, k) \in NewCells
              /\ BarFB'[CellOf(w, k)].dir = Bars[w].dir
              /\ BarFB'[CellOf(w, k)].val1
                   = Pixels(FirstValue(w, v1), k, Bars[w].len, Bars[w].dir)
              /\ BarFB'[CellOf(w, k)].val2
                   = Pixels(SecondValue(w, v1, v2), k, Bars[w].len, Bars[w].dir)
<1> DEFINE new == BarsAfter(w, v1, v2)
           dom == CellsWith(w)
           made == Created(w, v1, v2)
<1>1. SizeOK /\ SegmentsInv /\ BarCellsOK(BarFB, Layout(LROWS, LCOLS))
  BY DEF BaseInv, LayoutInv, SegmentsInv
<1>2. NewCells = dom /\ BarFB' = new.fb
  BY BarDraws DEF BarDrawn
<1>3. BarCellsOK(new.fb, dom) /\ \A c \in dom : Values(new.fb[c]) = Values(made[c])
  BY <1>1, BarsAreProcessed
<1>4. /\ BarCellsOK(made, dom)
      /\ \A c \in dom \ BarCells(w) : made[c] = GrownBars(w)[c]
      /\ \A k \in 0..(Bars[w].len - 1) :
           /\ CellOf(w, k) \in dom
           /\ made[CellOf(w, k)].dir = Bars[w].dir
           /\ made[CellOf(w, k)].val1
                = Pixels(FirstValue(w, v1), k, Bars[w].len, Bars[w].dir)
           /\ made[CellOf(w, k)].val2
                = Pixels(SecondValue(w, v1, v2), k, Bars[w].len, Bars[w].dir)
  BY <1>1, BarIsDrawn
<1>5. \A c \in dom : GrownBars(w)[c] = IF c \in OldCells THEN BarFB[c] ELSE ClearedBar
  <2>1. DOMAIN BarFB = Layout(LROWS, LCOLS)
    BY <1>1 DEF BarCellsOK
  <2> QED
    BY <1>1, <2>1, BarSize DEF OldCells
<1> HIDE DEF new, dom, made
<1>6. \A c \in dom : /\ new.fb[c].dir = made[c].dir
                     /\ new.fb[c].val1 = made[c].val1 /\ new.fb[c].val2 = made[c].val2
  <2>1. \A c \in dom : new.fb[c] \in Bar /\ made[c] \in Bar
    BY <1>3, <1>4 DEF BarCellsOK
  <2> QED
    BY <1>3, <2>1, MatchesValues
<1> QED
  BY <1>2, <1>4, <1>5, <1>6

\* A bar draw writes the characters of the segments to their cells, and no other.
LEMMA BarKeepsCodes ==
  ASSUME BaseInv, CodesInv, NEW w \in DOMAIN Bars, NEW v1 \in Int, NEW v2 \in Int,
         DrawBar(w, v1, v2)
  PROVE  CodesInv'
<1>1. BaseInv' /\ BarDrawn(w, v1, v2)
  BY BarDraws
<1>2. SegmentsInv'
  BY <1>1 DEF BaseInv
<1>3. ASSUME NEW c \in NewCells PROVE CodeOK(c)'
  <2> DEFINE s == BarFB'[c].segment
             code == CodeOf(Segment', s)
  <2>1. LayoutFB'[c] = IF BarFB'[c].dir # {} /\ code # Undefined THEN code
                       ELSE IF c \in OldCells THEN LayoutFB[c] ELSE Blank
    BY <1>1 DEF BarDrawn
  <2>2. BarFB'[c].dir # {} => s \in 1..Len(Segment')
    BY <1>2 DEF SegmentsInv, NewCells, OldCells
  <2>3. TableOK(Segment') /\ CharsOK(Segment') /\ nSegment' \in Nat
    BY <1>2 DEF SegmentsInv
  <2>4. BarFB'[c].dir # {} /\ code # Undefined => code \in Byte \ IconChars
    BY <2>2, <2>3, CodeType
  <2>5. BarFB'[c].dir # {} /\ s <= nSegment' => code # Undefined
    <3> SUFFICES ASSUME BarFB'[c].dir # {}, s <= nSegment' PROVE code # Undefined
      OBVIOUS
    <3>1. s \in 1..Len(Segment') /\ fSegment \in Nat /\ s \in Int
      BY <2>2, FixedLength
    <3>2. CASE s <= fSegment
      <4>1. code \in Byte
        BY <2>3, <3>1, <3>2, CodeType
      <4> QED
        BY <4>1 DEF Byte, Undefined
    <3>3. CASE s > fSegment
      <4>1. s \in (fSegment + 1)..nSegment'
        BY <2>3, <3>1, <3>3
      <4>2. Segment'[s].ascii # Undefined
        BY <1>2, <4>1 DEF SegmentsInv
      <4>3. code \in BarChars
        BY <2>3, <3>1, <3>3, <4>2, CodeType
      <4> QED
        BY <4>3, CharsType DEF Byte, Undefined
    <3> HIDE DEF s
    <3> QED
      BY <3>1, <3>2, <3>3
  <2> HIDE DEF code
  <2>6. BarFB'[c].dir = {} => LayoutFB'[c] \notin BarChars
    <3> SUFFICES ASSUME BarFB'[c].dir = {} PROVE LayoutFB'[c] \notin BarChars
      OBVIOUS
    <3>1. c \notin BarCells(w)
      BY BarTypes, BarDrawsValues
    <3>2. c \in OldCells => BarFB[c].dir = {}
      BY <3>1, BarDrawsValues
    <3>3. c \in OldCells => LayoutFB[c] \notin BarChars
      BY <3>2 DEF CodesInv, CodeOK
    <3> QED
      BY <2>1, <3>3, BlankIsNoUserChar
  <2>7. LayoutFB'[c] \in IconChars =>
          \E i \in DOMAIN Icons : c \in IconCells(i) /\ icons'[i].ascii = LayoutFB'[c]
    <3> SUFFICES ASSUME LayoutFB'[c] \in IconChars
                 PROVE  \E i \in DOMAIN Icons : c \in IconCells(i) /\ icons'[i].ascii = LayoutFB'[c]
      OBVIOUS
    <3>1. c \in OldCells /\ LayoutFB'[c] = LayoutFB[c]
      BY <2>1, <2>4, BlankIsNoUserChar
    <3>2. icons' = icons
      BY <1>1 DEF BarDrawn
    <3> QED
      BY <3>1, <3>2 DEF CodesInv, CodeOK
  <2> QED
    BY <2>1, <2>5, <2>6, <2>7 DEF CodeOK, Settled, code, IconCells
<1> QED
  BY <1>3 DEF CodesInv, NewCells

\* The cells of bar w show the values v1 and v2.
Shows(w, v1, v2) ==
  \A k \in 0..(Bars[w].len - 1) :
    /\ BarFB[CellOf(w, k)].val1 = Pixels(FirstValue(w, v1), k, Bars[w].len, Bars[w].dir)
    /\ BarFB[CellOf(w, k)].val2 = Pixels(SecondValue(w, v1, v2), k, Bars[w].len, Bars[w].dir)
BarsInv == \A w \in DOMAIN Bars :
  BarFB[CellOf(w, 0)].dir # {} => \E v \in BarValues : Shows(w, v[1], v[2])

\* Counting pixels: what bar_create_bar() computes is what the value lights.
LEMMA ShownIsFilled == BarsInv => BarsFilledFromTheirEnd
<1> SUFFICES ASSUME BarsInv, NEW w \in DOMAIN Bars, BarFB[CellOf(w, 0)].dir # {}
             PROVE  LET bar == Bars[w]
                        res == Res(bar.dir)
                        max == bar.len * res
                        lit(val) == IF bar.dir \cap {"west", "north"} = {} THEN 0..(val - 1)
                                    ELSE (max - val)..(max - 1)
                        filled(val, k) == Cardinality(lit(Clamp(val, max))
                                            \cap (k * res)..(k * res + res - 1))
                        cell(k) == BarFB[BarCell(bar.row, bar.col, bar.dir, k)]
                    IN  \E v \in BarValues : \A k \in 0..(bar.len - 1) :
                          /\ cell(k).val1 = filled(v[1], k)
                          /\ cell(k).val2 = filled(v[IF Single_Segments THEN 1 ELSE 2], k)
  BY DEF BarsFilledFromTheirEnd, CellOf
<1> DEFINE len == Bars[w].len
           dir == Bars[w].dir
           res == Res(dir)
           max == len * res
           filled(val, k) == Cardinality(Lit(Clamp(val, max), max, dir)
                               \cap (k * res)..(k * res + res - 1))
<1>1. PICK v \in BarValues : Shows(w, v[1], v[2])
  BY DEF BarsInv
<1>2. v[1] \in Int /\ v[2] \in Int
  BY WidgetsAssumption
<1>3. len \in Nat \ {0} /\ res \in Nat \ {0}
  BY BarTypes, ResType
<1>4. max \in Nat \ {0}
  <2> HIDE DEF len, res
  <2> QED
    BY <1>3
<1>5. ASSUME NEW k \in 0..(len - 1), NEW val \in Int
      PROVE  Pixels(Clamp(val, max), k, len, dir) = filled(val, k)
  <2>1. Clamp(val, max) \in 0..max
    <3> HIDE DEF max
    <3> QED
      BY <1>4, ClampType
  <2> DEFINE x == Clamp(val, max)
  <2>2. x \in 0..(len * Res(dir)) /\ len \in Nat
    BY <1>3, <2>1
  <2> HIDE DEF x, len, dir
  <2>3. Pixels(x, k, len, dir)
          = Cardinality(Lit(x, len * Res(dir), dir)
                          \cap (k * Res(dir))..(k * Res(dir) + Res(dir) - 1))
    BY <2>2, PixelsCount
  <2> QED
    BY <2>3 DEF x
<1>6. /\ FirstValue(w, v[1]) = Clamp(v[1], max)
      /\ SecondValue(w, v[1], v[2]) = Clamp(v[IF Single_Segments THEN 1 ELSE 2], max)
  BY DEF FirstValue, SecondValue
<1> HIDE DEF filled
<1>7. ASSUME NEW k \in 0..(len - 1)
      PROVE  /\ BarFB[CellOf(w, k)].val1 = filled(v[1], k)
             /\ BarFB[CellOf(w, k)].val2 = filled(v[IF Single_Segments THEN 1 ELSE 2], k)
  <2>1. v[IF Single_Segments THEN 1 ELSE 2] \in Int
    BY <1>2
  <2>2. /\ BarFB[CellOf(w, k)].val1 = Pixels(FirstValue(w, v[1]), k, len, dir)
        /\ BarFB[CellOf(w, k)].val2 = Pixels(SecondValue(w, v[1], v[2]), k, len, dir)
    BY <1>1 DEF Shows
  <2> HIDE DEF len, dir, max
  <2> QED
    BY <1>2, <1>5, <1>6, <2>1, <2>2
<1> QED
  BY <1>7 DEF filled, Lit, CellOf

\* Initially no bar is drawn.
LEMMA BarsInit == Init => BarsInv
<1> SUFFICES ASSUME Init, NEW w \in DOMAIN Bars PROVE BarFB[CellOf(w, 0)].dir = {}
  BY DEF BarsInv
<1>1. 0 \in 0..(Bars[w].len - 1)
  BY BarTypes
<1>2. CellOf(w, 0) \in Display
  BY <1>1, BarTypes
<1> QED
  BY <1>2 DEF Init, ClearedBar

\* Draws that keep the values of a bar's cells.
LEMMA BarStays ==
  ASSUME NEW w \in DOMAIN Bars,
         \A k \in 0..(Bars[w].len - 1) :
           /\ BarFB'[CellOf(w, k)].dir = BarFB[CellOf(w, k)].dir
           /\ BarFB'[CellOf(w, k)].val1 = BarFB[CellOf(w, k)].val1
           /\ BarFB'[CellOf(w, k)].val2 = BarFB[CellOf(w, k)].val2,
         BarsInv, BarFB'[CellOf(w, 0)].dir # {}
  PROVE  \E v \in BarValues : Shows(w, v[1], v[2])'
<1>1. 0 \in 0..(Bars[w].len - 1)
  BY BarTypes
<1>2. PICK v \in BarValues : Shows(w, v[1], v[2])
  BY <1>1 DEF BarsInv
<1>3. Shows(w, v[1], v[2])'
  BY <1>2 DEF Shows, CellOf, FirstValue, SecondValue
<1> QED
  BY <1>3

\* A draw that leaves the cells as they are.
LEMMA BarsStay ==
  ASSUME BaseInv, BarsInv, \A c \in OldCells : BarFB'[c] = BarFB[c]
  PROVE  BarsInv'
<1> SUFFICES ASSUME NEW w \in DOMAIN Bars, BarFB'[CellOf(w, 0)].dir # {}
             PROVE  \E v \in BarValues : Shows(w, v[1], v[2])'
  BY DEF BarsInv, CellOf
<1>1. Display \subseteq OldCells
  <2>1. SizeOK /\ DOMAIN BarFB = Layout(LROWS, LCOLS)
    BY DEF BaseInv, LayoutInv, SegmentsInv, BarCellsOK
  <2> QED
    BY <2>1, GrownKeeps DEF OldCells
<1>2. \A k \in 0..(Bars[w].len - 1) : BarFB'[CellOf(w, k)] = BarFB[CellOf(w, k)]
  BY <1>1, BarTypes
<1> QED
  BY <1>2, BarStays

\* A bar draw shows its values, and other bars keep theirs.
LEMMA BarKeepsBars ==
  ASSUME BaseInv, BarsInv, NEW w \in DOMAIN Bars, NEW v \in BarValues,
         DrawBar(w, v[1], v[2])
  PROVE  BarsInv'
<1> SUFFICES ASSUME NEW u \in DOMAIN Bars, BarFB'[CellOf(u, 0)].dir # {}
             PROVE  \E x \in BarValues : Shows(u, x[1], x[2])'
  BY DEF BarsInv, CellOf
<1>1. v[1] \in Int /\ v[2] \in Int
  BY WidgetsAssumption
<1>2. CASE u = w
  <2>1. Shows(w, v[1], v[2])'
    BY <1>1, BarDrawsValues DEF Shows, CellOf, FirstValue, SecondValue
  <2> QED
    BY <1>2, <2>1
<1>3. CASE u # w
  <2>1. Display \subseteq OldCells /\ OldCells \subseteq NewCells
    <3>1. SizeOK /\ DOMAIN BarFB = Layout(LROWS, LCOLS)
      BY DEF BaseInv, LayoutInv, SegmentsInv, BarCellsOK
    <3>2. OldCells \subseteq NewCells
      BY <1>1, BarDraws
    <3> QED
      BY <3>1, <3>2, GrownKeeps DEF OldCells
  <2>2. ASSUME NEW k \in 0..(Bars[u].len - 1)
        PROVE  /\ BarFB'[CellOf(u, k)].dir = BarFB[CellOf(u, k)].dir
               /\ BarFB'[CellOf(u, k)].val1 = BarFB[CellOf(u, k)].val1
               /\ BarFB'[CellOf(u, k)].val2 = BarFB[CellOf(u, k)].val2
    <3>1. CellOf(u, k) \in BarCells(u) /\ CellOf(u, k) \in Display
      BY BarTypes
    <3>2. CellOf(u, k) \notin BarCells(w)
      BY <1>3, <3>1, ApartAssumption
    <3> QED
      BY <1>1, <2>1, <3>1, <3>2, BarDrawsValues
  <2> QED
    BY <2>2, BarStays
<1> QED
  BY <1>2, <1>3

-----------------------------------------------------------------------------
(***************************************************************************)
(* The bitmaps of the display                                              *)
(***************************************************************************)
Copies == UNION {Icons[i].copies : i \in DOMAIN Icons}

\* What GlyphFresh says of one cell.
FreshCell(c) == c \notin left => screen[c].glyph = Glyph(cgram, screen[c].ch)

\* GlyphFresh, cell by cell.
LEMMA CellsAreFresh ==
  /\ GlyphFresh <=> (INVALIDATE => \A c \in Display \ Copies : FreshCell(c))
  /\ GlyphFresh' <=> (INVALIDATE => \A c \in Display \ Copies : FreshCell(c)')
  BY DEF GlyphFresh, MayBeOld, FreshCell, Copies, Display

\* A cell that is sent gets the bitmap of now; one that is kept may keep its
\* bitmap if its character did.
LEMMA FreshAfter ==
  ASSUME NEW c \in Display, FreshCell(c), ScreenShowsLayout, NEW lost, left \subseteq lost,
         \/ CellSent(c, LayoutFB', cgram')
         \/ /\ \E disp : CellKept(c, LayoutFB', disp, lost)
            /\ c \notin lost => Glyph(cgram', LayoutFB[c]) = Glyph(cgram, LayoutFB[c])
  PROVE  FreshCell(c)'
<1>1. CASE CellSent(c, LayoutFB', cgram')
  BY <1>1 DEF CellSent, FreshCell
<1>2. CASE /\ \E disp : CellKept(c, LayoutFB', disp, lost)
           /\ c \notin lost => Glyph(cgram', LayoutFB[c]) = Glyph(cgram, LayoutFB[c])
  <2>1. screen'[c] = screen[c] /\ (c \in lost => c \in left')
    BY <1>2 DEF CellKept
  <2>2. screen[c].ch = LayoutFB[c]
    BY DEF ScreenShowsLayout
  <2> QED
    BY <1>2, <2>1, <2>2 DEF FreshCell
<1> QED
  BY <1>1, <1>2

\* A text draw defines no character.
LEMMA TextKeepsGlyphs ==
  ASSUME BaseInv, GlyphFresh, NEW w \in DOMAIN Texts, NEW txt \in Strings, DrawText(w, txt)
  PROVE  GlyphFresh'
<1> SUFFICES ASSUME INVALIDATE, NEW c \in Display \ Copies PROVE FreshCell(c)'
  BY CellsAreFresh
<1>1. FreshCell(c) /\ ScreenShowsLayout
  BY CellsAreFresh DEF BaseInv, LayoutInv
<1>2. TextDrawn(w, txt)
  BY TextDraws DEF BaseInv
<1>3. /\ cgram' = cgram
      /\ CellSent(c, LayoutFB', cgram') \/ \E disp : CellKept(c, LayoutFB', disp, left)
  BY <1>2 DEF TextDrawn
<1> QED
  BY <1>1, <1>3, FreshAfter

\* The bitmap of an icon only changes when the icon's own cell is drawn, which
\* is invalidated then.
LEMMA IconKeepsGlyphs ==
  ASSUME BaseInv, CodesInv, GlyphFresh, NEW i \in DOMAIN Icons, NEW icon, Drawn(i, icon),
         NEW cell \in IconCells(i), DrawIcon(i, icon, cell),
         cell = Icons[i].cell \/ IconChar(icon) = OutOfIcons \/ ~Redefined(icon)
  PROVE  GlyphFresh'
<1> SUFFICES ASSUME INVALIDATE, NEW c \in Display \ Copies PROVE FreshCell(c)'
  BY CellsAreFresh
<1>1. FreshCell(c) /\ ScreenShowsLayout /\ IconsInv /\ IsMemory(cgram)
  BY CellsAreFresh DEF BaseInv, LayoutInv, SegmentsInv
<1>2. IconDrawn(i, icon, cell) /\ c \in OldCells
  <2>1. cell \in Display
    BY DisplayAssumption
  <2>2. SizeOK /\ DOMAIN BarFB = Layout(LROWS, LCOLS)
    BY DEF BaseInv, LayoutInv, SegmentsInv, BarCellsOK
  <2>3. Display \subseteq OldCells
    BY <2>2, GrownKeeps DEF OldCells
  <2> QED
    BY <2>1, <2>3, IconDraws
<1>3. CASE IconChar(icon) = OutOfIcons
  BY <1>1, <1>2, <1>3 DEF IconDrawn, FreshCell
<1>4. CASE IconChar(icon) # OutOfIcons
  <2>1. \/ CellSent(c, LayoutFB', cgram')
        \/ /\ \E disp : CellKept(c, LayoutFB', disp, left)
           /\ c = cell => ~Redefined(icon)
    BY <1>2, <1>4 DEF IconDrawn
  <2> DEFINE code == IconChar(icon)
  <2>2. code \in IconChars /\ \A j \in DOMAIN Icons : j # i => icons[j].ascii # code
    BY <1>1, <1>4, IconCharIsFree DEF Drawn
  <2>3. /\ ~Redefined(icon) => cgram' = cgram
        /\ \A k : k # code => Glyph(cgram', k) = Glyph(cgram, k)
    <3>1. code \in Byte \cup {OutOfIcons}
      <4> HIDE DEF code
      <4> QED
        BY <2>2, CharsType
    <3> QED
      BY <1>1, <3>1, IconChangesOwnBitmap
  <2>4. LayoutFB[c] = code /\ Redefined(icon) => c = cell
    <3> SUFFICES ASSUME LayoutFB[c] = code, Redefined(icon) PROVE c = cell
      OBVIOUS
    <3>1. PICK j \in DOMAIN Icons : c \in IconCells(j) /\ icons[j].ascii = code
      BY <1>2, <2>2 DEF CodesInv, CodeOK
    <3>2. j = i
      BY <2>2, <3>1
    <3>3. c = Icons[i].cell
      BY <3>1, <3>2 DEF IconCells, Copies
    <3> QED
      BY <1>4, <3>3
  <2> HIDE DEF code
  <2>5. \/ CellSent(c, LayoutFB', cgram')
        \/ /\ \E disp : CellKept(c, LayoutFB', disp, left)
           /\ Glyph(cgram', LayoutFB[c]) = Glyph(cgram, LayoutFB[c])
    BY <2>1, <2>3, <2>4
  <2> QED
    BY <1>1, <2>5, FreshAfter
<1> QED
  BY <1>3, <1>4

\* A widget that shows a copy of an icon never changes its bitmap.
LEMMA CopyRedefinesNothing ==
  ASSUME IconsInv, NEW i \in DOMAIN Icons, icons[i].ascii # NotAssigned
  PROVE  IconChar(icons[i]) = OutOfIcons \/ ~Redefined(icons[i])
<1>1. icons[i].ascii \in Byte \cup {NotAssigned, OutOfIcons} /\ IconOK(i)
  BY DEF IconsInv, IconState
<1>2. IconChar(icons[i]) = icons[i].ascii
  BY DEF IconChar
<1>3. CASE icons[i].ascii \in Byte
  BY <1>1, <1>3 DEF IconOK, Redefined, Byte
<1> QED
  BY <1>1, <1>2, <1>3

\* Two segments never share a character, so that a cell that keeps its code
\* has a character that was not defined anew.
LEMMA BarKeepsGlyphs ==
  ASSUME BaseInv, CodesInv, GlyphFresh, NEW w \in DOMAIN Bars, NEW v1 \in Int, NEW v2 \in Int,
         DrawBar(w, v1, v2)
  PROVE  GlyphFresh'
<1> SUFFICES ASSUME INVALIDATE, NEW c \in Display \ Copies PROVE FreshCell(c)'
  BY CellsAreFresh
<1> DEFINE new == BarsAfter(w, v1, v2)
           lost == left \cup {d \in Display : BarFB'[d].segment > nSegment'}
           s == BarFB'[c].segment
<1>1. FreshCell(c) /\ ScreenShowsLayout /\ SizeOK /\ SegmentsInv
  BY CellsAreFresh DEF BaseInv, LayoutInv
<1>2. BaseInv' /\ BarDrawn(w, v1, v2) /\ CodesInv' /\ OldCells \subseteq NewCells
  BY BarDraws, BarKeepsCodes
<1>3. /\ new.defined \subseteq (fSegment + 1)..nSegment'
      /\ \A code \in Byte :
           (\A i \in new.defined : code # CHAR0 + Segment'[i].ascii) =>
             Glyph(cgram', code) = Glyph(cgram, code)
  <2>1. Segment' = new.seg /\ nSegment' = new.n /\ cgram' = new.cgram
    BY <1>2 DEF BarDrawn
  <2>2. /\ new.defined \subseteq (fSegment + 1)..new.n
        /\ \A code \in Byte :
             (\A i \in new.defined : code # CHAR0 + new.seg[i].ascii) =>
               Glyph(new.cgram, code) = Glyph(cgram, code)
    BY <1>1, BarsAreProcessed
  <2> HIDE DEF new
  <2> QED
    BY <2>1, <2>2
<1>4. \/ CellSent(c, LayoutFB', cgram')
      \/ (\E disp : CellKept(c, LayoutFB', disp, lost)) /\ s \notin new.defined
  BY <1>2 DEF BarDrawn
<1>5. /\ SegmentsInv' /\ TableOK(Segment') /\ CharsOK(Segment')
      /\ OwnOK(Segment', nSegment', cgram') /\ nSegment' \in Nat
      /\ \A i \in (fSegment + 1)..nSegment' : Segment'[i].ascii # Undefined
  BY <1>2 DEF BaseInv, SegmentsInv
<1>6. c \in OldCells /\ c \in NewCells /\ LayoutFB[c] \in Byte
  <2>1. SizeOK /\ DOMAIN BarFB = Layout(LROWS, LCOLS)
    BY <1>1 DEF SegmentsInv, BarCellsOK
  <2>2. Display \subseteq OldCells
    BY <2>1, GrownKeeps DEF OldCells
  <2> QED
    BY <1>2, <2>2 DEF BaseInv, LayoutInv, OldCells
<1>7. ASSUME NEW disp, CellKept(c, LayoutFB', disp, lost), s \notin new.defined, c \notin lost,
             NEW i \in new.defined
      PROVE  LayoutFB[c] # CHAR0 + Segment'[i].ascii
  <2>1. LayoutFB'[c] = LayoutFB[c] /\ ~(s > nSegment')
    BY <1>7 DEF CellKept
  <2>2. CodeOK(c)'
    BY <1>2, <1>6 DEF CodesInv, NewCells
  <2>3. /\ i \in (fSegment + 1)..nSegment' /\ HasChar(Segment'[i], cgram')
        /\ Segment'[i].ascii # Undefined
    BY <1>3, <1>5 DEF OwnOK
  <2>4. CHAR0 + Segment'[i].ascii \in BarChars /\ Segment'[i].ascii \in Int
    BY <2>3, CharsType DEF HasChar
  <2>5. CASE BarFB'[c].dir = {}
    BY <2>1, <2>2, <2>4, <2>5 DEF CodeOK
  <2>6. CASE BarFB'[c].dir # {}
    <3>1. s \in 1..Len(Segment') /\ s \in Nat /\ fSegment \in Nat
      <4>1. s \in 1..Len(Segment')
        BY <1>5, <1>6, <2>6 DEF SegmentsInv, NewCells, OldCells
      <4> QED
        BY <4>1, FixedLength
    <3>2. s <= nSegment'
      BY <1>5, <2>1, <3>1
    <3>3. LayoutFB[c] = CodeOf(Segment', s)
      BY <2>1, <2>2, <2>6, <3>2 DEF CodeOK, Settled
    <3>4. CASE s <= fSegment
      BY <1>5, <2>4, <3>1, <3>3, <3>4, CodeType, CharsType
    <3>5. CASE s > fSegment
      <4>1. s \in (fSegment + 1)..nSegment' /\ s # i
        BY <1>5, <1>7, <3>1, <3>2, <3>5
      <4>2. /\ Segment'[s].ascii # Undefined /\ HasChar(Segment'[s], cgram')
            /\ Segment'[s].ascii # Segment'[i].ascii
        BY <1>5, <2>3, <4>1 DEF OwnOK
      <4>3. LayoutFB[c] = CHAR0 + Segment'[s].ascii /\ Segment'[s].ascii \in Int
        BY <1>5, <3>1, <3>3, <3>5, <4>2, CodeType DEF HasChar
      <4> QED
        BY <2>4, <4>2, <4>3, CharsType
    <3> HIDE DEF s
    <3> QED
      BY <3>1, <3>4, <3>5
  <2> QED
    BY <2>5, <2>6
<1> HIDE DEF new, s
<1>8. \/ CellSent(c, LayoutFB', cgram')
      \/ /\ \E disp : CellKept(c, LayoutFB', disp, lost)
         /\ c \notin lost => Glyph(cgram', LayoutFB[c]) = Glyph(cgram, LayoutFB[c])
  BY <1>3, <1>4, <1>6, <1>7
<1>9. left \subseteq lost
  OBVIOUS
<1> HIDE DEF lost
<1> QED
  BY <1>1, <1>8, <1>9, FreshAfter

\* Initially the display shows characters of the font.
LEMMA GlyphsInit == Init => GlyphFresh
  BY DEF Init, GlyphFresh, Glyph

-----------------------------------------------------------------------------
(***************************************************************************)
(* The characters show what they are for                                   *)
(***************************************************************************)
\* A bar cell shows its segment: the character it was sent is the segment's, and
\* has the segment's bitmap.
LEMMA SegmentsAreShown ==
  ASSUME BaseInv, CodesInv, GlyphFresh
  PROVE  BarShown
<1> SUFFICES ASSUME NEW c \in Display, BarFB[c].segment # 0, Settled(c), ~MayBeOld(c)
             PROVE  Seen(c) = SegmentGlyph(BarFB[c].segment)
  BY DEF BarShown
<1> DEFINE s == BarFB[c].segment
<1>1. SegmentsInv /\ ScreenShowsLayout /\ BarCellsOK(BarFB, OldCells) /\ c \in OldCells
  <2>1. SizeOK /\ BarCellsOK(BarFB, OldCells) /\ DOMAIN BarFB = OldCells
    BY DEF BaseInv, LayoutInv, SegmentsInv, BarCellsOK, OldCells
  <2>2. c \in OldCells
    BY <2>1, GrownKeeps DEF OldCells
  <2> QED
    BY <2>1, <2>2 DEF BaseInv, LayoutInv
<1>2. BarFB[c].dir # {}
  BY <1>1 DEF BarCellsOK
<1>3. /\ s \in 1..Len(Segment) /\ \E w \in DOMAIN Bars : c \in BarCells(w)
      /\ TableOK(Segment) /\ CharsOK(Segment) /\ OwnOK(Segment, nSegment, cgram)
      /\ \A i \in (fSegment + 1)..nSegment : Segment[i].ascii # Undefined
      /\ nSegment \in Nat
  BY <1>1, <1>2 DEF SegmentsInv, OldCells
<1>4. s <= nSegment /\ s \in Nat /\ fSegment \in Nat
  <2>1. s <= nSegment
    BY DEF Settled
  <2> QED
    BY <1>3, <2>1, FixedLength
<1>5. screen[c].ch = CodeOf(Segment, s)
  BY <1>1, <1>2 DEF CodesInv, CodeOK, ScreenShowsLayout
<1>6. Seen(c) = Glyph(cgram, screen[c].ch)
  <2>1. c \notin Copies
    BY <1>3, ApartAssumption DEF Copies, IconCells
  <2> QED
    BY <2>1 DEF GlyphFresh, Seen, Copies
<1> HIDE DEF s
<1>7. CASE s <= fSegment
  <2>1. CodeOf(Segment, s) = Segment[s].ascii
    BY <1>3, <1>7, CodeType
  <2> QED
    BY <1>5, <1>6, <1>7, <2>1 DEF SegmentGlyph, s
<1>8. CASE s > fSegment
  <2>1. s \in (fSegment + 1)..nSegment /\ ~(s <= fSegment)
    BY <1>3, <1>4, <1>8
  <2>2. HasChar(Segment[s], cgram)
    BY <1>3, <2>1 DEF OwnOK
  <2>3. CodeOf(Segment, s) = CHAR0 + Segment[s].ascii
    BY <1>3, <1>8, <2>1, CodeType
  <2>4. Glyph(cgram, CHAR0 + Segment[s].ascii) = Bitmap(Segment[s])
    BY <2>2 DEF HasChar, Glyph
  <2> QED
    BY <1>5, <1>6, <2>1, <2>3, <2>4 DEF SegmentGlyph, s
<1> QED
  BY <1>4, <1>7, <1>8

CharInv == BaseInv /\ CodesInv /\ GlyphFresh /\ BarsInv

\* The invariant holds initially.
LEMMA CharInit == Init => CharInv
  BY BaseInit, CodesInit, GlyphsInit, BarsInit DEF CharInv

\* Every draw keeps the invariant.
LEMMA CharNext == CharInv /\ [Next]_vars => CharInv'
<1> SUFFICES ASSUME CharInv, [Next]_vars PROVE CharInv'
  OBVIOUS
<1>1. BaseInv /\ CodesInv /\ GlyphFresh /\ BarsInv /\ IconsInv /\ BaseInv'
  BY BaseNext DEF CharInv, BaseInv
<1>2. ASSUME NEW w \in DOMAIN Texts, NEW txt \in Strings, DrawText(w, txt)
      PROVE  CharInv'
  <2>1. \A c \in OldCells : BarFB'[c] = BarFB[c]
    BY <1>1, <1>2, TextDraws DEF BaseInv
  <2> QED
    BY <1>1, <1>2, <2>1, TextKeepsCodes, TextKeepsGlyphs, BarsStay DEF CharInv
<1>3. ASSUME NEW i \in DOMAIN Icons, NEW icon, Drawn(i, icon), NEW cell \in IconCells(i),
             DrawIcon(i, icon, cell),
             cell = Icons[i].cell \/ IconChar(icon) = OutOfIcons \/ ~Redefined(icon)
      PROVE  CharInv'
  <2>1. cell \in Display
    BY DisplayAssumption
  <2>2. \A c \in OldCells : BarFB'[c] = BarFB[c]
    BY <1>1, <1>3, <2>1, IconDraws
  <2> QED
    BY <1>1, <1>3, <2>2, IconKeepsCodes, IconKeepsGlyphs, BarsStay DEF CharInv
<1>4. ASSUME NEW i \in DOMAIN Icons, NEW frame \in Frames, NEW visible \in BOOLEAN,
             UpdateIcon(i, frame, visible)
      PROVE  CharInv'
  <2>1. PICK icon : Drawn(i, icon) /\ DrawIcon(i, icon, Icons[i].cell)
    BY <1>1, <1>4, UpdatesDraw
  <2>2. Icons[i].cell \in IconCells(i)
    BY DEF IconCells
  <2> QED
    BY <1>3, <2>1, <2>2
<1>5. ASSUME NEW i \in DOMAIN Icons, NEW cell \in Icons[i].copies, UpdateCopy(i, cell)
      PROVE  CharInv'
  <2>1. icons[i].ascii # NotAssigned /\ Drawn(i, icons[i]) /\ DrawIcon(i, icons[i], cell)
    BY <1>1, <1>5, UpdatesDraw
  <2>2. IconChar(icons[i]) = OutOfIcons \/ ~Redefined(icons[i])
    BY <1>1, <2>1, CopyRedefinesNothing
  <2>3. cell \in IconCells(i)
    BY DEF IconCells
  <2> QED
    BY <1>3, <2>1, <2>2, <2>3
<1>6. ASSUME NEW w \in DOMAIN Bars, NEW v \in BarValues, DrawBar(w, v[1], v[2])
      PROVE  CharInv'
  <2>1. v[1] \in Int /\ v[2] \in Int
    BY WidgetsAssumption
  <2> QED
    BY <1>1, <1>6, <2>1, BarKeepsCodes, BarKeepsGlyphs, BarKeepsBars DEF CharInv
<1>7. CASE UNCHANGED vars
  <2>1. CodesInv'
    BY <1>1, <1>7 DEF vars, CodesInv, CodeOK, OldCells, Layout, Settled, IconCells
  <2>2. GlyphFresh'
    BY <1>1, <1>7 DEF vars, GlyphFresh, MayBeOld, Display
  <2>3. BarsInv'
    BY <1>1, <1>7 DEF vars, BarsInv, Shows, CellOf, FirstValue, SecondValue
  <2> QED
    BY <1>1, <2>1, <2>2, <2>3 DEF CharInv
<1> QED
  BY <1>2, <1>4, <1>5, <1>6, <1>7 DEF Next

\* So it holds always.
LEMMA CharAlways == Spec => []CharInv
  BY CharInit, CharNext, PTL DEF Spec

\* User-defined characters show what they were defined for: no bar takes a character
\* of an icon (bar_define_chars() counts from the first one up, icon_draw() from the
\* last one down), no cell keeps an old bitmap, and a bar shows its own segments,
\* filled from the end it starts at.
THEOREM CharactersCorrect == Spec => []CharactersKept
<1>1. CharInv => GlyphFresh /\ BarShown /\ BarsFilledFromTheirEnd
  BY SegmentsAreShown, ShownIsFilled DEF CharInv
<1>2. TextTypeOK /\ IconsKept /\ GlyphFresh /\ BarShown /\ BarsFilledFromTheirEnd
        => CharactersKept
  BY DEF CharactersKept
<1> QED
  BY CharAlways, TypesCorrect, IconsCorrect, <1>1, <1>2, PTL

-----------------------------------------------------------------------------
(***************************************************************************)
(* Merging                                                                 *)
(***************************************************************************)
\* The cells that no segment of the first table or of its kept part matches, as
\* values: each new segment was made for another of them.
LEMMA NewSegmentsAreFew ==
  ASSUME NEW dom, NEW fb, BarCellsOK(fb, dom), NEW kept \in Seq(BarSegment),
         NEW st, Given(st, kept, fb, dom), NEW unmet, IsFiniteSet(unmet),
         \A c \in dom : fb[c].dir # {} /\ (\A j \in 1..Len(kept) : ~Matches(kept[j], fb[c]))
                          => Values(fb[c]) \in unmet
  PROVE  Len(st.seg) - Len(kept) <= Cardinality(unmet)
<1> DEFINE K == Len(kept)
           N == Len(st.seg)
           made(i, c) == /\ c \in dom /\ fb[c].dir # {}
                         /\ st.seg[i] = NewSegment(fb[c])
                         /\ \A j \in 1..(i - 1) : ~Matches(st.seg[j], fb[c])
           cell == [i \in (K + 1)..N |-> CHOOSE c : made(i, c)]
           f == [i \in (K + 1)..N |-> Values(fb[cell[i]])]
<1>1. /\ K \in Nat /\ N \in Nat /\ N >= K
      /\ \A i \in 1..K : st.seg[i] = kept[i]
      /\ \A i \in (K + 1)..N : \E c : made(i, c)
  BY DEF Given
<1> HIDE DEF K, N
<1>2. \A i \in (K + 1)..N : made(i, cell[i])
  <2> HIDE DEF made
  <2> QED
    BY <1>1
<1> HIDE DEF cell
<1>3. ASSUME NEW i \in (K + 1)..N PROVE f[i] \in unmet
  <2>1. ASSUME NEW j \in 1..K PROVE ~Matches(kept[j], fb[cell[i]])
    <3>1. j \in 1..(i - 1)
      BY <1>1
    <3> QED
      BY <1>1, <1>2, <3>1
  <2> QED
    BY <1>2, <2>1 DEF K
<1>4. ASSUME NEW i \in (K + 1)..N, NEW j \in (K + 1)..N, i < j PROVE f[i] # f[j]
  <2> SUFFICES ASSUME f[i] = f[j] PROVE FALSE
    OBVIOUS
  <2>1. /\ fb[cell[i]] \in Bar /\ fb[cell[j]] \in Bar
        /\ Values(fb[cell[i]]) = Values(fb[cell[j]])
    BY <1>2 DEF BarCellsOK
  <2>2. NewSegment(fb[cell[i]]) = NewSegment(fb[cell[j]])
    BY <2>1, MatchesValues
  <2>3. Matches(NewSegment(fb[cell[j]]), fb[cell[j]])
    BY <1>2, <2>1, NewSegmentMatches DEF BarCellsOK
  <2>4. i \in 1..(j - 1)
    BY <1>1, <1>4
  <2>5. ~Matches(st.seg[i], fb[cell[j]]) /\ st.seg[i] = NewSegment(fb[cell[i]])
    BY <1>2, <2>4
  <2> QED
    BY <2>2, <2>3, <2>5
<1>5. f \in Injection((K + 1)..N, unmet)
  <2>1. f \in [(K + 1)..N -> unmet]
    BY <1>3
  <2>2. \A i, j \in (K + 1)..N : i # j => i < j \/ j < i
    BY <1>1
  <2>3. \A i, j \in (K + 1)..N : f[i] = f[j] => i = j
    <3> HIDE DEF f
    <3> QED
      BY <1>4, <2>2
  <2> HIDE DEF f
  <2> QED
    BY <2>1, <2>3 DEF Injection, IsInjective
<1>6. Cardinality((K + 1)..N) <= Cardinality(unmet)
  <2> HIDE DEF f
  <2> QED
    BY <1>5, FS_Injection
<1>7. Cardinality((K + 1)..N) = N - K
  <2>1. K + 1 \in Int /\ N \in Int
    BY <1>1
  <2>2. Cardinality((K + 1)..N) = IF K + 1 > N THEN 0 ELSE N - (K + 1) + 1
    BY <2>1, FS_Interval
  <2> QED
    BY <1>1, <2>2
<1> QED
  BY <1>6, <1>7 DEF K, N

\* The values of finitely many cells are finitely many.
LEMMA FiniteValues ==
  ASSUME NEW cells, IsFiniteSet(cells), NEW fb
  PROVE  IsFiniteSet({Values(fb[c]) : c \in cells})
<1> DEFINE values == {Values(fb[c]) : c \in cells}
           f == [c \in cells |-> Values(fb[c])]
<1>1. f \in Surjection(cells, values)
  BY DEF Surjection
<1> HIDE DEF f, values
<1> QED
  BY <1>1, FS_Surjection DEF values

\* A layout has finitely many cells.
LEMMA FiniteCells ==
  ASSUME NEW rows \in Nat, NEW cols \in Nat
  PROVE  IsFiniteSet(Layout(rows, cols))
<1>1. 0 \in Int /\ rows - 1 \in Int /\ cols - 1 \in Int
  OBVIOUS
<1>2. IsFiniteSet(0..(rows - 1)) /\ IsFiniteSet(0..(cols - 1))
  BY <1>1, FS_Interval
<1> QED
  BY <1>2, FS_Product DEF Layout

\* A bar draw distorts no bar while there are enough characters.
LEMMA BarIsExactWhileRoom ==
  ASSUME BaseInv, NEW w \in DOMAIN Bars, NEW v1 \in Int, NEW v2 \in Int, DrawBar(w, v1, v2)
  PROVE  ExactWhileRoom
<1> DEFINE dom == CellsWith(w)
           made == Created(w, v1, v2)
           needed == Needed(w, v1, v2)
           kept == DropUnused(Segment, nSegment)
           L == Len(needed.seg)
           unmetCells == {d \in DOMAIN BarFB' :
                            /\ BarFB'[d].dir # {}
                            /\ \A i \in StillUsed \cup 1..fSegment :
                                 ~Matches(Segment[i], BarFB'[d])}
           unmet == {[BarFB'[c] EXCEPT !.segment = 0] : c \in unmetCells}
<1> SUFFICES ASSUME Cardinality(StillUsed) + Cardinality(unmet) <= Room
             PROVE  \A c \in DOMAIN BarFB' : BarFB'[c].dir # {} => Exact(BarFB', Segment', c)
  BY DEF ExactWhileRoom
<1>1. /\ SizeOK /\ SegmentsInv /\ TableOK(Segment) /\ Len(Segment) \in Nat
      /\ nSegment \in Nat /\ nSegment <= Len(Segment) /\ OwnOK(Segment, nSegment, cgram)
      /\ DOMAIN BarFB = Layout(LROWS, LCOLS)
  <2>1. SizeOK /\ SegmentsInv
    BY DEF BaseInv, LayoutInv
  <2>2. TableOK(Segment) /\ nSegment \in 0..Len(Segment)
    BY <2>1 DEF SegmentsInv
  <2>3. Len(Segment) \in Nat
    BY <2>2 DEF TableOK
  <2> QED
    BY <2>1, <2>2, <2>3 DEF SegmentsInv, BarCellsOK
<1>2. StillUsed = InUse(Segment, nSegment)
  BY <1>1 DEF StillUsed, InUse, AtMost
<1>3. /\ TableOK(kept) /\ IsFiniteSet(StillUsed)
      /\ Len(kept) = fSegment + Cardinality(StillUsed)
      /\ \A j \in 1..Len(kept) : \E i \in StillUsed \cup 1..fSegment : kept[j] = Segment[i]
      /\ \A i \in 1..fSegment : kept[i] = Segment[i]
      /\ \A i \in StillUsed : \E j \in (fSegment + 1)..Len(kept) : kept[j] = Segment[i]
  <2>1. /\ TableOK(kept) /\ IsFiniteSet(StillUsed)
        /\ Len(kept) = fSegment + Cardinality(StillUsed)
        /\ \A i \in 1..fSegment : kept[i] = Segment[i]
        /\ \A j \in (fSegment + 1)..Len(kept) : \E i \in StillUsed : kept[j] = Segment[i]
        /\ \A i \in StillUsed : \E j \in (fSegment + 1)..Len(kept) : kept[j] = Segment[i]
    BY <1>1, <1>2, UnusedAreDropped
  <2>2. fSegment \in Nat /\ Len(kept) \in Nat
    BY <2>1, FixedLength DEF TableOK
  <2> HIDE DEF kept
  <2>3. \A j \in 1..Len(kept) : j \in 1..fSegment \/ j \in (fSegment + 1)..Len(kept)
    BY <2>2
  <2> QED
    BY <2>1, <2>3
<1>4. BarCellsOK(made, dom)
  BY <1>1, BarIsDrawn DEF SegmentsInv
<1>5. Given(needed, kept, made, dom) /\ TableOK(needed.seg)
  BY <1>1, SegmentsAreNeeded
<1>6. /\ BarFB' = BarsAfter(w, v1, v2).fb /\ Segment' = BarsAfter(w, v1, v2).seg
  BY BarDraws DEF BarDrawn
<1>7. /\ BarCellsOK(BarFB', dom)
      /\ \A c \in dom : Values(BarFB'[c]) = Values(made[c])
      /\ L <= fSegment + Room =>
           \A c \in dom : BarFB'[c].dir # {} => Exact(BarFB', Segment', c)
  BY <1>1, <1>6, BarsAreProcessed
<1> HIDE DEF made, needed, kept, dom
<1>8. DOMAIN BarFB' = dom
  BY <1>7 DEF BarCellsOK
<1>9. IsFiniteSet(unmet)
  <2>1. IsFiniteSet(dom)
    <3>1. RowsWith(w) \in Nat /\ ColsWith(w) \in Nat
      BY <1>1, BarSize
    <3> QED
      BY <3>1, FiniteCells DEF CellsWith, dom
  <2>2. IsFiniteSet(unmetCells)
    <3>1. unmetCells \in SUBSET dom
      BY <1>8
    <3> HIDE DEF unmetCells
    <3> QED
      BY <2>1, <3>1, FS_Subset
  <2>3. unmet = {Values(BarFB'[c]) : c \in unmetCells}
    BY DEF Values
  <2> HIDE DEF unmet, unmetCells
  <2> QED
    BY <2>2, <2>3, FiniteValues
<1>10. ASSUME NEW c \in dom, made[c].dir # {},
              \A j \in 1..Len(kept) : ~Matches(kept[j], made[c])
       PROVE  Values(made[c]) \in unmet
  <2>1. /\ BarFB'[c] \in Bar /\ made[c] \in Bar /\ Values(BarFB'[c]) = Values(made[c])
    BY <1>4, <1>7 DEF BarCellsOK
  <2>2. BarFB'[c].dir # {} /\ \A s : Matches(s, BarFB'[c]) = Matches(s, made[c])
    BY <1>10, <2>1, MatchesValues
  <2>3. ASSUME NEW i \in StillUsed \cup 1..fSegment PROVE ~Matches(Segment[i], BarFB'[c])
    <3>1. \E j \in 1..Len(kept) : kept[j] = Segment[i]
      <4>1. fSegment \in Nat /\ Len(kept) \in Nat /\ Len(kept) >= fSegment
        BY <1>3, FixedLength DEF TableOK
      <4>2. CASE i \in 1..fSegment
        BY <1>3, <4>1, <4>2
      <4>3. CASE i \in StillUsed
        BY <1>3, <4>1, <4>3
      <4> QED
        BY <4>2, <4>3
    <3> QED
      BY <1>10, <2>2, <3>1
  <2>4. c \in unmetCells
    BY <1>8, <2>2, <2>3
  <2> HIDE DEF unmetCells
  <2> QED
    BY <2>1, <2>4 DEF Values
<1>11. kept \in Seq(BarSegment)
  BY <1>3 DEF TableOK
<1> HIDE DEF unmet
<1>12. L - Len(kept) <= Cardinality(unmet)
  BY <1>4, <1>5, <1>9, <1>10, <1>11, NewSegmentsAreFew
<1>13. L <= fSegment + Room
  <2>1. L \in Nat /\ fSegment \in Nat /\ Room \in Nat
    BY <1>5, FixedLength, RoomType DEF TableOK
  <2>2. Cardinality(StillUsed) \in Nat /\ Cardinality(unmet) \in Nat
    BY <1>3, <1>9, FS_CardinalityType
  <2> HIDE DEF L
  <2> QED
    BY <1>3, <1>12, <2>1, <2>2
<1> QED
  BY <1>7, <1>8, <1>13

\* Draws of texts and icons process no bars.
LEMMA OthersKeepBars ==
  ASSUME BaseInv, Segment' = Segment, \A c \in OldCells : BarFB'[c] = BarFB[c]
  PROVE  ~BarsProcessed
<1>1. SizeOK /\ DOMAIN BarFB = Layout(LROWS, LCOLS)
  BY DEF BaseInv, LayoutInv, SegmentsInv, BarCellsOK
<1>2. Display \subseteq OldCells
  BY <1>1, GrownKeeps DEF OldCells
<1> QED
  BY <1>2 DEF BarsProcessed

\* Segments are merged only when the display has too few characters for those in
\* use and those that are needed.
THEOREM MergesAreNeeded == Spec => NoNeedlessMerge
<1>1. BaseInv /\ [Next]_vars => [BarsProcessed => ExactWhileRoom]_vars
  <2> SUFFICES ASSUME BaseInv, Next, BarsProcessed PROVE ExactWhileRoom
    OBVIOUS
  <2>1. SegmentsInv /\ LayoutInv /\ IconsInv
    BY DEF BaseInv
  <2>2. ASSUME NEW w \in DOMAIN Texts, NEW txt \in Strings, DrawText(w, txt) PROVE FALSE
    <3>1. Segment' = Segment /\ \A c \in OldCells : BarFB'[c] = BarFB[c]
      BY <2>1, <2>2, TextDraws DEF TextDrawn
    <3> QED
      BY <3>1, OthersKeepBars
  <2>3. ASSUME NEW i \in DOMAIN Icons, NEW icon, Drawn(i, icon), NEW cell \in Display,
               DrawIcon(i, icon, cell)
        PROVE  FALSE
    <3>1. Segment' = Segment /\ \A c \in OldCells : BarFB'[c] = BarFB[c]
      BY <2>3, IconDraws DEF IconDrawn
    <3> QED
      BY <3>1, OthersKeepBars
  <2>4. ASSUME NEW i \in DOMAIN Icons, NEW frame \in Frames, NEW visible \in BOOLEAN,
               UpdateIcon(i, frame, visible)
        PROVE  FALSE
    BY <2>1, <2>3, <2>4, UpdatesDraw
  <2>5. ASSUME NEW i \in DOMAIN Icons, NEW cell \in Icons[i].copies, UpdateCopy(i, cell)
        PROVE  FALSE
    BY <2>1, <2>3, <2>5, UpdatesDraw
  <2>6. ASSUME NEW w \in DOMAIN Bars, NEW v \in BarValues, DrawBar(w, v[1], v[2])
        PROVE  ExactWhileRoom
    <3>1. v[1] \in Int /\ v[2] \in Int
      BY WidgetsAssumption
    <3> QED
      BY <2>6, <3>1, BarIsExactWhileRoom
  <2> QED
    BY <2>2, <2>4, <2>5, <2>6 DEF Next
<1> QED
  BY BaseAlways, <1>1, PTL DEF Spec, NoNeedlessMerge
=============================================================================
