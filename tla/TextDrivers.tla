----------------------------- MODULE TextDrivers -----------------------------
(* A text display between the shared text code and its device.  The driver is
   started, greets, and then texts, glyphs, settings and outputs arrive in any
   order; transfers may fail.  What the calls asked for is compared with what
   the device shows: at an address that only its wiring determines. *)
EXTENDS TextDriverTable, FiniteSets, Functions

CONSTANTS Cases,        \* configurations of displays, see MCTextDrivers
          STEPS         \* bound on the number of calls

VARIABLES case, phase, s, text, glyphs, told, gpo, step
vars == <<case, phase, s, text, glyphs, told, gpo, step>>

Cells == {<<r, k>> : r \in 0 .. case.rows - 1, k \in 0 .. case.cols - 1}
Drawn(t, row, col, data) == [p \in Cells |-> IF p[1] = row /\ p[2] - col + 1 \in DOMAIN data THEN data[p[2] - col + 1] ELSE t[p]]
Registers == drv_init(case)
HasOutputs == "gpo" \in Registers.widgets


\* drv_CF_start() is the only one that does not clear the display.
Start(c) ==
    /\ case = c /\ phase = "greeting"
    /\ s = drv_start(c, [dev |-> PowerOn(c.kind, c.controllers, c.rows, c.cols), own |-> c.own, over |-> FALSE])
    /\ text = [p \in {<<r, k>> : r \in 0 .. c.rows - 1, k \in 0 .. c.cols - 1} |-> IF c.driver # "Crystalfontz" THEN Space ELSE Junk]
    /\ glyphs = <<>> /\ told = <<>> /\ gpo = <<>> /\ step = 0
Init == \E c \in Cases : Start(c)

\* Unless it is told to be quiet the program says hello for three seconds,
\* and clears the display if a line of it did fit.  Then the outputs are switched off.
GpoInit(t) ==
    /\ s' = IF HasOutputs THEN gpio_clear(case, t) ELSE t
    /\ gpo' = [n \in 0 .. (IF HasOutputs THEN case.gpos ELSE 0) - 1 |-> 0]
GreetingFits == \E n \in Range(GreetLengths(case, case.msgs[1], case.msgs[2])) : n > 0
ClearedIf(fits, t) == IF fits THEN drv_clear(case, t) ELSE t
Greet ==
    /\ phase = "greeting" /\ ~case.quiet /\ case.driver # "EFN"
    /\ GpoInit(ClearedIf(GreetingFits, drv_generic_text_greet(case, s, case.msgs[1], case.msgs[2])))
    /\ text' = IF GreetingFits THEN [p \in Cells |-> Space] ELSE text
    /\ phase' = "running"
    /\ UNCHANGED <<case, glyphs, told, step>>
Quiet ==
    /\ phase = "greeting" /\ (case.quiet \/ case.driver = "EFN")
    /\ GpoInit(s)
    /\ phase' = "running"
    /\ UNCHANGED <<case, text, glyphs, told, step>>

Call ==
    /\ phase = "running" /\ step < STEPS
    /\ step' = step + 1
    /\ UNCHANGED <<case, phase>>

\* What a transfer that met a fault comes to: one that could not be sent leaves the
\* cells as they were and its glyph in parts, and one that was obeyed twice, its first
\* answer lost, may run on over the rest of its row and over the glyphs behind its own.
Met(kind, t) == s.dev.broken = kind /\ t.dev.faults # s.dev.faults
DrawnBy(t, row, col, data) ==
    CASE Met("unsent", t) -> text
      [] Met("lost", t) -> [p \in Cells |-> IF p[1] = row /\ p[2] >= col + Len(data) THEN Junk ELSE Drawn(text, row, col, data)[p]]
      [] OTHER -> Drawn(text, row, col, data)
DefinedBy(t, ascii, matrix) ==
    CASE Met("unsent", t) -> Restrict(glyphs, DOMAIN glyphs \ {ascii})
      [] Met("lost", t) -> Restrict(glyphs, {n \in DOMAIN glyphs : n < ascii})
      [] OTHER -> (ascii :> matrix) @@ glyphs
ToldBy(t, name, v) == IF Met("unsent", t) THEN Restrict(told, DOMAIN told \ {name}) ELSE (name :> v) @@ told

Write ==
    /\ Call
    /\ \E w \in case.writes :
        /\ s' = real_write(case, s, w[1], w[2], w[3])
        /\ text' = DrawnBy(s', w[1], w[2], w[3])
    /\ UNCHANGED <<glyphs, told, gpo>>

Defchar ==
    /\ Call
    /\ \E g \in case.glyphs :
        /\ g[1] \in Registers.char0 .. Registers.char0 + Registers.chars - 1
        /\ s' = real_defchar(case, s, g[1], g[2])
        /\ glyphs' = DefinedBy(s', g[1], g[2])
    /\ UNCHANGED <<text, told, gpo>>

\* A plugin sets a value, or asks for it with -1 where there is a copy of it.
Plugin ==
    /\ Call
    /\ \E p \in case.settings :
        LET r == plugin(case, s, p[1], p[2]) IN
        /\ s' = r.s
        /\ told' = ToldBy(r.s, p[1], r.v)
    /\ UNCHANGED <<text, glyphs, gpo>>

\* drv_generic_gpio_draw() and plugin GPO(): nothing is sent when the value is
\* the one that the driver returned last.
SetOutput ==
    /\ Call /\ HasOutputs
    /\ \E num \in 0 .. case.gpos - 1, val \in case.levels :
        LET r == real_set(case, s, num, val) IN
        /\ gpo[num] # val
        /\ s' = r.s
        /\ gpo' = [gpo EXCEPT ![num] = r.v]
    /\ UNCHANGED <<text, glyphs, told>>
\* BeckmannEgle has outputs but no widget for them.
BuE_gpo ==
    /\ Call /\ case.driver = "BeckmannEgle" /\ case.protocol = 2
    /\ \E num \in 0 .. case.gpos - 1, val \in case.levels \union {-1} :
        LET r == real_set(case, s, num, val) IN
        /\ s' = r.s
        /\ gpo' = (num :> r.v) @@ gpo
    /\ UNCHANGED <<text, glyphs, told>>

\* The device does not answer for a while, or not to a later transfer.
Glitch ==
    /\ phase = "running" /\ step < STEPS
    /\ \E g \in case.glitches :
        /\ s.dev.faults < g[3]
        /\ s' = [s EXCEPT !.dev.broken = g[1], !.dev.wait = g[2], !.dev.faults = g[3]]
    /\ UNCHANGED <<case, phase, text, glyphs, told, gpo, step>>

Quit ==
    /\ phase = "running"
    /\ s' = drv_quit(case, s)
    /\ phase' = "ended"
    /\ UNCHANGED <<case, text, glyphs, told, gpo, step>>

Next == Greet \/ Quiet \/ Write \/ Defchar \/ Plugin \/ SetOutput \/ BuE_gpo \/ Glitch \/ Quit
Spec == Init /\ [][Next]_vars

-----------------------------------------------------------------------------
(* The wiring: which controller shows a cell, and where in its memory. *)
Wired(row, col) ==
    CASE case.view = "terminal" -> <<1, 256 * row + col>>
      [] case.view = "one" -> <<1, <<0, 64, IF case.cols = 16 THEN 16 ELSE 20, IF case.cols = 16 THEN 80 ELSE 84>>[row + 1] + col>>
      [] case.view = "two" -> <<1 + (row \div 2), 64 * (row % 2) + col>>
      [] case.view = "halves" -> <<1, IF col < 8 THEN col ELSE 64 + col - 8>>
      [] case.view = "lines of 32" -> <<1, 32 * row + col>>
      [] case.view = "duty" -> LET line == case.ddram \div 2 ^ case.duty
                                IN <<1, line * (row % 4) + (line \div 2) * (row \div 4) + col>>
      [] case.view = "folded" -> <<1, IF row >= 2 THEN 256 * (row - 2) + col + case.cols ELSE 256 * row + col>>
Shown(row, col) == LET a == Wired(row, col) IN IF a \in DOMAIN s.dev.mem THEN s.dev.mem[a] ELSE s.dev.fill

\* The display has not been given up.
Working == phase = "running" /\ ~s.over

\* Bytes that are not on the device yet.
Waiting == case.driver = "LCD2USB" /\ s.own.type # "none"

TextDriversTypeOK ==
    /\ phase \in {"greeting", "running", "ended"} /\ step \in 0 .. STEPS
    /\ DOMAIN text = Cells
    /\ \A a \in DOMAIN s.dev.mem : a[1] \in AllOf(s.dev) /\ s.dev.mem[a] \in 0 .. 255
    /\ \A a \in DOMAIN s.dev.cg : s.dev.cg[a] \in 0 .. 255
    /\ s.dev.faults >= 0 /\ (s.dev.faults > 0 => \E g \in case.glitches : s.dev.broken = g[1] /\ s.dev.wait <= g[2] /\ s.dev.faults <= g[3])

\* Every cell shows what was written to it last, whatever the driver merges,
\* splits, escapes, queues, keeps a copy of, or repeats: no write reaches the
\* cells of another one, and the greeting leaves nothing behind.
TextShown ==
    Working /\ ~Waiting =>
        \A p \in Cells : text[p] # Junk => Shown(p[1], p[2]) = text[p]

\* Each glyph has the bitmap it was given last, on all controllers, also when
\* texts were written in between; no glyph takes the code of a fixed character.
GlyphAddress(n) ==
    CASE case.view = "duty" -> case.ddram + 8 * (n - 248)
      [] case.kind \in {"Crystalfontz", "BeckmannCT"} -> 8 * (n - Registers.char0)
      [] case.kind = "terminal" \/ case.kind \in DOMAIN Language \ {"LCDTerm", "Milford", "Pertelian", "USBLCD"} -> 8 * n
      [] OTHER -> (8 * n) % 64
GlyphsKept ==
    Working => \A n \in DOMAIN glyphs :
        /\ n \notin Registers.fixed
        /\ \A k \in AllOf(s.dev), i \in 1 .. (IF case.view = "duty" THEN 7 ELSE 8) :
            LET a == <<k, GlyphAddress(n) + i - 1>>
                mem == IF case.view = "duty" THEN s.dev.mem ELSE s.dev.cg
            IN a \in DOMAIN mem /\ mem[a] % 2 ^ case.xres = glyphs[n][i] % 2 ^ case.xres

\* What a plugin answers is what the display does, as often as it is asked and
\* whatever is written in between.
Scaled(name, v) ==
    CASE case.driver = "Pertelian" -> v - 2
      [] case.driver = "FutabaVFD" -> IF v < 3 THEN 32 * (v + 1) ELSE 255
      [] OTHER -> v
SettingsShown ==
    Working =>
        \A name \in DOMAIN told : <<name, 0>> \in DOMAIN s.dev.out => s.dev.out[<<name, 0>>] = Scaled(name, told[name])

\* Each output is what was asked for: those that share a word or a packet with
\* it, with a setting or with a text do not change it.
OutputsShown ==
    Working => \A num \in DOMAIN gpo : gpo[num] = -1 \/ s.dev.out[<<"output", num>>] = gpo[num]

\* A setting is changed by its own plugin only, until the program ends.
OnlyAsked ==
    [][Working /\ Working' =>
        \A w \in DOMAIN s.dev.out : s'.dev.out[w] # s.dev.out[w] => (told' # told \/ gpo' # gpo)]_vars

\* A program that is told to be quiet leaves an empty display.  (The clear of
\* LCD2USB stays in its queue.)
ClearedAtEnd ==
    phase = "ended" /\ s.dev.broken # "unsent" /\ case.quiet /\ case.driver # "LCD2USB" /\ ~(case.driver = "LW_ABP" /\ case.scheduled) =>
        \A p \in Cells : Shown(p[1], p[2]) = Space

\* When the program ends the outputs are off, and the light of those displays
\* that switch it off.  (drv_pL_quit() does not end the outputs.)
DarkAtEnd ==
    phase = "ended" /\ s.dev.broken # "unsent" =>
        /\ HasOutputs /\ case.driver # "picoLCD" => \A num \in 0 .. case.gpos - 1 : s.dev.out[<<"output", num>>] = 0
        /\ case.driver \in {"ASTUSB", "Pertelian", "ula200"} => s.dev.out[<<"backlight", 0>>] = 0

\* While the program runs the display does what it was told by texts, glyphs,
\* plugins and outputs, and nothing else.
AsAsked == [](TextDriversTypeOK /\ TextShown /\ GlyphsKept /\ SettingsShown /\ OutputsShown) /\ OnlyAsked

\* What drv_quit() leaves behind.
LeftAtEnd == ClearedAtEnd /\ DarkAtEnd
=============================================================================
