----------------------------- MODULE TextDevices -----------------------------
(* The text displays on the far side of the drivers, as far as the drivers use
   them: memories with an address counter that advances, commands that move it,
   glyphs, and settings.  Displays that are written to as a stream of bytes
   tell commands from text by the bytes themselves. *)
EXTENDS Integers, Sequences, SequencesExt

Junk == -1              \* content of a display before it is cleared
Space == 32

\* A display that was just switched on.  n controllers, each with a counter
\* that addresses the text ("dd") or the glyphs ("cg").
PowerOn(kind, n, rows, cols) ==
    [kind |-> kind, rows |-> rows, cols |-> cols, fill |-> IF kind = "Lines" THEN Space ELSE Junk,
     mem |-> <<>>, cg |-> <<>>, out |-> <<>>, pend |-> <<>>, faults |-> 0, broken |-> "refused", wait |-> 0,
     cur |-> [k \in 1 .. n |-> [ram |-> "dd", addr |-> 0]]]

AllOf(d) == DOMAIN d.cur
Moved(d, C, ram, addr) == [d EXCEPT !.cur = [k \in C |-> [ram |-> ram, addr |-> addr]] @@ @]
At(d, row, col) == Moved(d, {1}, "dd", 256 * row + col)
Erased(d) == Moved([d EXCEPT !.mem = <<>>, !.fill = Space], AllOf(d), "dd", 0)
Output(d, name, num, val) == [d EXCEPT !.out = (<<name, num>> :> val) @@ @]
Set(d, name, val) == Output(d, name, 0, val)

\* The elements of seq one after the other.
Feed(op(_, _), base, seq) ==
    LET after[i \in 0 .. Len(seq)] == IF i = 0 THEN base ELSE op(after[i - 1], seq[i]) IN after[Len(seq)]

\* Data for the controllers C.
PutAll(d, C, data) ==
    LET here(ram) == {<<k, d.cur[k].addr + i - 1>> : k \in {j \in C : d.cur[j].ram = ram}, i \in DOMAIN data}
        datum(p) == data[p[2] - d.cur[p[1]].addr + 1]
    IN [d EXCEPT !.mem = [p \in here("dd") |-> datum(p)] @@ @,
                 !.cg = [p \in here("cg") |-> datum(p) % 256] @@ @,
                 !.cur = [k \in C |-> [d.cur[k] EXCEPT !.addr = @ + Len(data)]] @@ @]
Put(d, C, b) == PutAll(d, C, <<b>>)
Glyph(d, n, rows) == [d EXCEPT !.cg = [p \in {<<1, 8 * n + i - 1>> : i \in DOMAIN rows} |-> rows[p[2] - 8 * n + 1]] @@ @]

\* An instruction of a HD44780.
Instr(d, C, b) ==
    CASE b >= 128 -> Moved(d, C, "dd", b - 128)
      [] b \in 64 .. 127 -> Moved(d, C, "cg", b - 64)
      [] b = 1 -> Erased(d)
      [] b \in 2 .. 3 -> Moved(d, C, "dd", 0)
      [] OTHER -> d

-----------------------------------------------------------------------------
(* Streams of bytes.  A command is recognised by its head and has a number of
   arguments. *)
Cmd(head, args, does) == [head |-> head, args |-> args, does |-> does]
Esc(head, args, does) == Cmd(<<27>> \o head, args, does)
Language ==
  [LCDTerm |-> {Cmd(<<3>>, 0, "clear"), Cmd(<<18>>, 1, "instr"), Cmd(<<20>>, 1, "data")},
   Milford |-> {Cmd(<<254>>, 1, "instr")},
   Pertelian |-> {Cmd(<<254>>, 1, "instr or backlight")},
   USBLCD |-> {Cmd(<<0>>, 1, "instr or zero")},
   FW8888 |-> {Cmd(<<16>>, 1, "instr"), Cmd(<<18>>, 1, "data")},
   MatrixOrbital |->
      {Cmd(<<12>>, 0, "clear"), Cmd(<<254, 88>>, 0, "clear"), Cmd(<<254, 71>>, 2, "x y from 1"), Cmd(<<254, 78>>, 9, "glyph"),
       Cmd(<<254, 80>>, 1, "contrast"), Cmd(<<254, 66>>, 1, "backlight"), Cmd(<<254, 70>>, 0, "no backlight"),
       Cmd(<<254, 86>>, 1, "no output"), Cmd(<<254, 87>>, 1, "full output"), Cmd(<<254, 192>>, 2, "output from 1")},
   Crystalfontz |->
      {Cmd(<<12>>, 0, "clear"), Cmd(<<1>>, 0, "home"), Cmd(<<17>>, 2, "x y"), Cmd(<<25>>, 9, "glyph"),
       Cmd(<<15>>, 1, "contrast"), Cmd(<<14>>, 1, "backlight")},
   Cwlinux |->
      {Cmd(<<254, 88>>, 1, "clear"), Cmd(<<254, 71>>, 3, "x y"), Cmd(<<254, 78>>, 10, "glyph"),
       Cmd(<<254, 65>>, 2, "brightness"), Cmd(<<254, 70>>, 1, "no brightness"), Cmd(<<254, 66>>, 1, "full brightness")},
   Cwlinux12232 |->
      {Cmd(<<254, 88>>, 1, "clear"), Cmd(<<254, 71>>, 3, "x y"), Cmd(<<254, 78>>, 8, "glyph in columns"),
       Cmd(<<254, 65>>, 2, "brightness"), Cmd(<<254, 70>>, 1, "no brightness"), Cmd(<<254, 66>>, 1, "full brightness")},
   LW_ABP |-> {Cmd(<<12>>, 0, "clear")},
   BeckmannMT |->
      {Esc(<<38, 35>>, 0, "clear"), Esc(<<91>>, 4, "y ; x H"), Esc(<<38, 84>>, 19, "glyph in pairs")},
   BeckmannCT |->
      {Esc(<<76, 76>>, 0, "clear"), Esc(<<76, 67>>, 3, "y x from 1"), Esc(<<76, 90>>, 10, "glyph twice"),
       Esc(<<76, 75>>, 1, "contrast"), Esc(<<76, 66>>, 1, "backlight"), Esc(<<80>>, 2, "output"), Esc(<<65>>, 2, "pwm")},
   Newhaven |->
      {Cmd(<<254, 81>>, 0, "clear"), Cmd(<<254, 69>>, 1, "address"), Cmd(<<254, 84>>, 9, "glyph"),
       Cmd(<<254, 82>>, 1, "contrast"), Cmd(<<254, 83>>, 1, "brightness")},
   PHAnderson |->
      {Cmd(<<63, 102>>, 0, "clear"), Cmd(<<63, 121>>, 1, "row digit"), Cmd(<<63, 120>>, 2, "column digits"),
       Cmd(<<63, 68>>, 17, "glyph in digits"), Cmd(<<63, 66>>, 2, "backlight digits")}
      \union {Cmd(<<63, 48 + i>>, 0, "own character") : i \in 0 .. 7},
   VT100 |-> {Esc(<<91, 50, 74>>, 0, "clear"), Esc(<<91>>, 5, "r ; cc H")},
   Lines |-> {Cmd(<<13>>, 0, "return"), Cmd(<<10>>, 0, "line feed")},
   Futaba |-> {Cmd(<<31>>, 0, "clear"), Cmd(<<17>>, 0, "mode"), Cmd(<<20>>, 0, "mode"), Cmd(<<16>>, 1, "cell"),
               Cmd(<<4>>, 1, "brightness")},
   EFN |-> {Cmd(<<255>>, 2, "module")},
   Sample |-> {Cmd(<<1>>, 0, "clear"), Cmd(<<2>>, 2, "y x"), Cmd(<<3>>, 9, "glyph"), Cmd(<<4>>, 1, "contrast"),
               Cmd(<<66>>, 2, "output")}]

\* Pixel of a byte.
Pixel(byte, bit) == (byte \div 2 ^ bit) % 2
Digit(b) == IF b >= 65 THEN b - 55 ELSE b - 48
Addressed(d, a) ==
    LET row == IF a >= 64 THEN (IF a >= 84 THEN 3 ELSE 1) ELSE (IF a >= 20 THEN 2 ELSE 0)
    IN At(d, row, a - <<0, 64, 20, 84>>[row + 1])
\* The whole screen moves up when a line is fed at its foot.
Fed(d) ==
    LET a == d.cur[1].addr
        up(p) == <<1, p[2] + 256>>
    IN IF a \div 256 < d.rows - 1 THEN Moved(d, {1}, "dd", a + 256)
       ELSE [d EXCEPT !.mem = [p \in {<<1, q[2] - 256>> : q \in {r \in DOMAIN d.mem : r[2] >= 256}} |-> d.mem[up(p)]]]

\* What a command does: h is the last byte of its head, a its arguments.
Exec(d, does, h, a) ==
    CASE does = "clear" -> Erased(d)
      [] does = "home" -> At(d, 0, 0)
      [] does = "instr" -> Instr(d, AllOf(d), a[1])
      [] does = "data" -> PutAll(d, AllOf(d), a)
      [] does = "instr or backlight" -> IF a[1] \in 2 .. 3 THEN Set(d, "backlight", a[1] - 2) ELSE Instr(d, AllOf(d), a[1])
      [] does = "instr or zero" -> IF a[1] = 0 THEN Put(d, AllOf(d), 0) ELSE Instr(d, AllOf(d), a[1])
      [] does = "x y" -> At(d, a[2], a[1])
      [] does = "y x" -> At(d, a[1], a[2])
      [] does = "x y from 1" -> At(d, a[2] - 1, a[1] - 1)
      [] does = "y x from 1" -> At(d, a[1] - 1, a[2] - 1)
      [] does = "y ; x H" -> At(d, a[1], a[3])
      [] does = "r ; cc H" -> At(d, Digit(a[1]) - 1, 10 * Digit(a[3]) + Digit(a[4]) - 1)
      [] does = "row digit" -> At(d, Digit(a[1]), d.cur[1].addr % 256)
      [] does = "column digits" -> At(d, d.cur[1].addr \div 256, 10 * Digit(a[1]) + Digit(a[2]))
      [] does = "address" -> Addressed(d, a[1])
      [] does = "cell" -> At(d, a[1] \div d.cols, a[1] % d.cols)
      [] does = "module" -> LET n == d.rows * d.cols - a[1] IN Put(At(d, n \div d.cols, n % d.cols), {1}, a[2])
      [] does = "return" -> Moved(d, {1}, "dd", 256 * (d.cur[1].addr \div 256))
      [] does = "line feed" -> Fed(d)
      [] does = "mode" -> d
      [] does = "own character" -> Put(d, {1}, h - 48)
      [] does = "glyph" -> Glyph(d, a[1], SubSeq(a, 2, 9))
      [] does = "glyph twice" -> Glyph(d, a[1], SubSeq(a, 3, 10))
      [] does = "glyph in pairs" -> Glyph(d, (a[2] - 64) \div 8, [i \in 1 .. 8 |-> a[2 * i + 2]])
      [] does = "glyph in columns" ->
            Glyph(d, a[1], [j \in 1 .. 8 |-> Feed(+, 0, [i \in 1 .. 6 |-> Pixel(a[i + 1], j - 1) * 2 ^ (6 - i)])])
      [] does = "glyph in digits" -> Glyph(d, Digit(a[1]), [i \in 1 .. 8 |-> 16 * Digit(a[2 * i]) + Digit(a[2 * i + 1])])
      [] does = "backlight digits" -> Set(d, "backlight", 16 * Digit(a[1]) + Digit(a[2]))
      [] does \in {"contrast", "backlight", "brightness"} -> Set(d, does, a[1])
      [] does = "no backlight" -> Set(d, "backlight", 0)
      [] does = "no brightness" -> Set(d, "brightness", 0)
      [] does = "full brightness" -> Set(d, "brightness", 8)
      [] does = "no output" -> Output(d, "output", a[1] - 1, 0)
      [] does = "full output" -> Output(d, "output", a[1] - 1, 255)
      [] does = "output from 1" -> Output(d, "output", a[1] - 1, a[2])
      [] does = "output" -> Output(d, "output", a[1], a[2])
      [] does = "pwm" -> Set(d, "pwm", IF a[2] = 1 THEN 0 ELSE a[1])

\* One byte of a stream: text, or the next one of a command.
Obeyed(d, p, c) == Exec([d EXCEPT !.pend = <<>>], c.does, Last(c.head), SubSeq(p, Len(c.head) + 1, Len(p)))
Longest(commands) == CHOOSE c \in commands : \A e \in commands : Len(e.head) <= Len(c.head)
Taken(d, p, complete, open) ==
    CASE complete # {} -> Obeyed(d, p, Longest(complete))
      [] complete = {} /\ open -> [d EXCEPT !.pend = p]
      [] OTHER -> Put([d EXCEPT !.pend = <<>>], AllOf(d), Last(p))
Understood(d, p, language) ==
    Taken(d, p, {c \in language : IsPrefix(c.head, p) /\ Len(p) = Len(c.head) + c.args},
          \E c \in language : \/ IsPrefix(c.head, p) /\ Len(p) < Len(c.head) + c.args
                              \/ IsStrictPrefix(p, c.head))
Byte(d, b) == Understood(d, Append(d.pend, b), Language[d.kind])
Stream(d, bytes) == Feed(Byte, d, bytes)

\* A transfer that may fail before anything of it arrives.
Fails(d) == d.faults > 0
Failed(d) == [d EXCEPT !.faults = @ - 1]
=============================================================================
