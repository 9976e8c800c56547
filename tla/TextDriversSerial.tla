-------------------------- MODULE TextDriversSerial --------------------------
(* Drivers of the displays that have a controller of their own: text is put
   at a cell, glyphs and settings have their own commands. *)
EXTENDS TextDriversHD

TRIES == 10             \* attempts to write to a port that is not ready
drv_generic_serial_write(s, bytes) ==
    LET refused == IF s.dev.faults > TRIES THEN TRIES ELSE s.dev.faults
        d == [s.dev EXCEPT !.faults = @ - refused]
    IN On(s, IF refused = TRIES THEN d ELSE Stream(d, bytes))
Write2(s, cmd, data) == drv_generic_serial_write(drv_generic_serial_write(s, cmd), data)
Own(s, name, val) == [s EXCEPT !.own[name] = val]
Over(line, col, data) == [i \in DOMAIN line |-> IF i - col \in DOMAIN data THEN data[i - col] ELSE line[i]]
Blanks(n) == [i \in 1 .. n |-> Space]
Numbers(lit) == [w \in {<<"output", n>> : n \in 0 .. 7} |-> IF w[2] \in lit THEN 1 ELSE 0]

-----------------------------------------------------------------------------
(* MatrixOrbital.  With protocols 3 and 4 lines are sent as a whole. *)
WholeLines(c) == c.protocol \in {3, 4}
drv_MO_write(c, s, row, col, data) ==
    LET t == Own(s, "disp", [s.own.disp EXCEPT ![row + 1] = Over(@, col, data)])
    IN IF WholeLines(c) THEN Write2(t, <<254, 71, 1, row + 1>>, t.own.disp[row + 1])
       ELSE Write2(s, <<254, 71, col + 1, row + 1>>, data)
drv_MO_clear(c, s) ==
    CASE c.protocol = 1 -> drv_generic_serial_write(s, <<12>>)
      [] c.protocol = 2 -> drv_generic_serial_write(s, <<254, 88>>)
      [] OTHER ->
           Feed(LAMBDA t, i : drv_MO_write(c, Own(t, "disp", [t.own.disp EXCEPT ![i] = Blanks(c.cols)]), 1, i, Blanks(c.cols)),
                    s, [i \in 1 .. c.rows |-> i])
drv_MO_defchar(c, s, ascii, matrix) == drv_generic_serial_write(s, <<254, 78, ascii>> \o Low(matrix, 5))
\* Mutant: the copy is not updated.
X_drv_MO_contrast_Bug(s, v) ==
    IF v = -1 THEN Result(s, s.own.contrast)
    ELSE Result(drv_generic_serial_write(s, <<254, 80, Clamp(v, 0, 255)>>), Clamp(v, 0, 255))
drv_MO_contrast(s, v) ==
    LET t == Own(s, "contrast", Clamp(v, 0, 255))
    IN IF v = -1 THEN Result(s, s.own.contrast)
       ELSE Result(drv_generic_serial_write(t, <<254, 80, t.own.contrast>>), t.own.contrast)
drv_MO_backlight(s, v) ==
    LET t == Own(s, "backlight", Clamp(v, 0, 255))
    IN IF v = -1 THEN Result(s, s.own.backlight)
       ELSE Result(drv_generic_serial_write(t, IF v <= 0 THEN <<254, 70>> ELSE <<254, 66, t.own.backlight>>), t.own.backlight)
drv_MO_GPO(c, s, num, val) ==
    CASE c.protocol = 2 /\ val <= 0 -> Result(drv_generic_serial_write(s, <<254, 86, num + 1>>), 0)
      [] c.protocol = 2 /\ val >= 255 -> Result(drv_generic_serial_write(s, <<254, 87, num + 1>>), 255)
      [] c.protocol = 2 /\ val \in 1 .. 254 -> Result(drv_generic_serial_write(s, <<254, 192, num + 1, val>>), val)
      [] OTHER -> Result(s, 0)
drv_MO_start(c, s) ==
    LET shown == drv_generic_serial_write(drv_MO_clear(c, s), <<254, 66, 0>>)
    IN Configured(c, "backlight", Configured(c, "contrast", shown, drv_MO_contrast), drv_MO_backlight)

-----------------------------------------------------------------------------
(* Crystalfontz: commands in the text (1), packets (2, 3); protocol 2 sends
   the whole line from a buffer. *)
CFPacket(d, cmd, data) ==
    CASE cmd = 6 -> Erased(d)
      [] cmd \in 7 .. 8 -> PutAll(At(d, cmd - 7, 0), {1}, data)
      [] cmd = 31 -> PutAll(At(d, data[2], data[1]), {1}, SubSeq(data, 3, Len(data)))
      [] cmd = 9 -> Glyph(d, data[1], Tail(data))
      [] cmd = 13 -> Set(d, "contrast", data[1])
      [] cmd = 14 -> Set(d, "backlight", data[1])
      [] cmd = 17 -> [d EXCEPT !.out = [w \in {<<"output", n>> : n \in 0 .. 3} |-> data[w[2] + 1]] @@ @]
      [] cmd = 34 -> Output(d, "output", data[1] - 1, data[2])
drv_CF_send(c, s, cmd, data) == IF Len(data) > c.payload THEN s ELSE On(s, CFPacket(s.dev, cmd, data))
\* Codes of the second character generator; codes that are in both are left alone.
convertToCgrom2(b) ==
    LET code == 93 :> 252 @@ 91 :> 250 @@ 36 :> 162 @@ 64 :> 160 @@ 92 :> 251 @@ 123 :> 253 @@ 125 :> 255 @@ 124 :> 254
                @@ 96 :> 39 @@ 180 :> 39 @@ 232 :> 164 @@ 233 :> 165 @@ 200 :> 197 @@ 201 :> 207 @@ 228 :> 123 @@ 196 :> 91
                @@ 246 :> 124 @@ 214 :> 92 @@ 252 :> 126 @@ 220 :> 94 @@ 94 :> 253 @@ 95 :> 254
    IN IF b \in DOMAIN code THEN code[b] ELSE b
drv_CF_write1(c, s, row, col, data) ==
    Write2(s, IF row = 0 /\ col = 0 THEN <<1>> ELSE <<17, col, row>>,
           IF c.cgrom2 THEN [i \in DOMAIN data |-> convertToCgrom2(data[i])] ELSE data)
Upto(data, n) == SubSeq(data, 1, IF Len(data) > n THEN (IF n < 0 THEN 0 ELSE n) ELSE Len(data))
drv_CF_write2(c, s, row, col, data) ==
    LET t == Own(s, "line", [s.own.line EXCEPT ![row + 1] = Over(@, col, Upto(data, 16 - col))])
    IN IF row >= 2 \/ col > 16 THEN s ELSE drv_CF_send(c, t, 7 + row, t.own.line[row + 1])
drv_CF_write3(c, s, row, col, data) ==
    IF row >= c.rows \/ col > c.cols THEN s ELSE drv_CF_send(c, s, 31, <<col, row>> \o Upto(data, c.cols - col))
drv_CF_defchar1(c, s, ascii, matrix) == drv_generic_serial_write(s, <<25, ascii - 128>> \o Low(matrix, 6))
drv_CF_defchar23(c, s, ascii, matrix) == drv_CF_send(c, s, 9, <<ascii>> \o Low(matrix, 6))
drv_CF_contrast(c, s, v) ==
    LET val == Clamp(v, 0, CASE c.protocol = 1 -> 100 [] c.protocol = 2 -> 50 [] c.protocol = 3 -> 255)
        t == Own(s, "contrast", val)
    IN IF v = -1 THEN Result(s, s.own.contrast)
       ELSE Result(IF c.protocol = 1 THEN drv_generic_serial_write(t, <<15, val>>) ELSE drv_CF_send(c, t, 13, <<val>>), val)
drv_CF_backlight(c, s, v) ==
    LET val == Clamp(v, 0, 100)
        t == Own(s, "backlight", val)
    IN IF v = -1 THEN Result(s, s.own.backlight)
       ELSE Result(IF c.protocol = 1 THEN drv_generic_serial_write(t, <<14, val>>) ELSE drv_CF_send(c, t, 14, <<val>>), val)
drv_CF_GPO(c, s, num, val) ==
    LET v == Clamp(val, 0, 100)
        t == Own(s, "pwm", [s.own.pwm EXCEPT ![num + 1] = v])
    IN CASE c.protocol = 1 -> Result(s, v)
         [] c.protocol = 2 -> Result(drv_CF_send(c, t, 17, t.own.pwm), v)
         [] c.protocol = 3 -> Result(drv_CF_send(c, s, 34, <<num + 1, v>>), v)
drv_CF_clear(c, s) == IF c.protocol = 1 THEN drv_generic_serial_write(s, <<12>>) ELSE drv_CF_send(c, s, 6, <<>>)
\* Nothing is cleared here, but for the line buffer.
drv_CF_start(c, s) ==
    Configured(c, "backlight",
        Configured(c, "contrast", Own(s, "line", [r \in 1 .. 2 |-> Blanks(16)]), LAMBDA t, v : drv_CF_contrast(c, t, v)),
        LAMBDA t, v : drv_CF_backlight(c, t, v))

-----------------------------------------------------------------------------
(* Cwlinux *)
drv_CW_send(s, bytes) == drv_generic_serial_write(s, bytes)
drv_CW_write(c, s, row, col, data) == drv_CW_send(drv_CW_send(s, <<254, 71, col, row, 253>>), data)
drv_CW1602_defchar(c, s, ascii, matrix) == drv_CW_send(s, <<254, 78, ascii>> \o Low(matrix, 5) \o <<253>>)
\* Bit j of byte i is pixel i of line j, from the left.
drv_CW12232_defchar(c, s, ascii, matrix) ==
    LET column(i) == Feed(+, 0, [j \in 1 .. 8 |-> Pixel(matrix[j], 6 - i) * 2 ^ (j - 1)])
    IN drv_CW_send(s, <<254, 78, ascii>> \o [i \in 1 .. 6 |-> column(i)] \o <<253>>)
drv_CW_clear(c, s) == drv_CW_send(s, <<254, 88, 253>>)
drv_CW_brightness(s, v) ==
    LET val == Clamp(v, 0, 8)
        t == Own(s, "brightness", val)
    IN IF v = -1 THEN Result(s, s.own.brightness)
       ELSE Result(drv_CW_send(t, CASE val = 0 -> <<254, 70, 253>> [] val = 8 -> <<254, 66, 253>>
                                    [] OTHER -> <<254, 65, val, 253>>), val)
drv_CW_start(c, s) == Configured(c, "brightness", drv_CW_send(drv_CW_clear(c, s), <<254, 66, 253>>), drv_CW_brightness)

(* BeckmannEgle: MT (protocol 1) and CT (2) terminals. *)
drv_BuE_clear(c, s) == drv_generic_serial_write(s, IF c.protocol = 1 THEN <<27, 38, 35>> ELSE <<27, 76, 76>>)
drv_BuE_MT_write(c, s, row, col, data) == Write2(s, <<27, 91, row, 59, col, 72>>, data)
drv_BuE_MT_defchar(c, s, ascii, matrix) ==
    drv_generic_serial_write(s, <<27, 38, 84, 0, 64 + 8 * ascii>>
        \o Feed(LAMBDA seq, b : seq \o <<1, b>>, <<>>, Low(matrix, 5)) \o <<255>>)
drv_BuE_CT_write(c, s, row, col, data) == Write2(s, <<27, 76, 67, row + 1, col + 1, 1>>, data)
drv_BuE_CT_defchar(c, s, ascii, matrix) == drv_generic_serial_write(s, <<27, 76, 90, ascii - 128, ascii>> \o Low(matrix, 5))
drv_BuE_CT_contrast(s, v) ==
    LET t == Own(s, "contrast", Clamp(v, 0, 15))
    IN IF v = -1 THEN Result(s, s.own.contrast)
       ELSE Result(drv_generic_serial_write(t, <<27, 76, 75, t.own.contrast>>), t.own.contrast)
drv_BuE_CT_backlight(s, v) ==
    LET t == Own(s, "backlight", Clamp(v, 0, 1))
    IN IF v = -1 THEN Result(s, s.own.backlight)
       ELSE Result(drv_generic_serial_write(t, <<27, 76, 66, t.own.backlight>>), t.own.backlight)
drv_BuE_CT_gpo(s, num0, val) ==
    LET num == Clamp(num0, 0, 7)
        t == Own(s, "gpo", [s.own.gpo EXCEPT ![num + 1] = Clamp(val, 0, 255)])
    IN IF val = -1 THEN Result(s, s.own.gpo[num + 1])
       ELSE Result(drv_generic_serial_write(t, <<27, 80, num, t.own.gpo[num + 1]>>), t.own.gpo[num + 1])
drv_BuE_CT_pwm(s, val) ==
    LET t == Own(s, "pwm", Clamp(val, 0, 255))
    IN IF val = -1 THEN Result(s, s.own.pwm)
       ELSE Result(drv_generic_serial_write(t, <<27, 65, t.own.pwm, IF t.own.pwm = 0 THEN 1 ELSE 2>>), t.own.pwm)
drv_BuE_start(c, s) ==
    drv_BuE_clear(c, IF c.protocol = 1 THEN s
                     ELSE Configured(c, "backlight", Configured(c, "contrast", s, drv_BuE_CT_contrast), drv_BuE_CT_backlight))

(* Newhaven, on an I2C bus that is not asked whether a byte arrived *)
drv_Newhaven_sendCommand(s, cmd, data) == On(s, Stream(s.dev, <<254, cmd>> \o data))
drv_Newhaven_clear(c, s) == drv_Newhaven_sendCommand(s, 81, <<>>)
drv_Newhaven_write(c, s, row, col, data) ==
    LET t == drv_Newhaven_sendCommand(s, 69, <<<<0, 64, 20, 84>>[row + 1] + col>>)
    IN IF row > 3 THEN s ELSE On(t, Stream(t.dev, data))
drv_Newhaven_defchar(c, s, ascii, matrix) == drv_Newhaven_sendCommand(s, 84, <<ascii>> \o matrix)
drv_Newhaven_contrast(s, v) == Result(drv_Newhaven_sendCommand(s, 82, <<Clamp(v, 1, 50)>>), Clamp(v, 1, 50))
drv_Newhaven_brightness(s, v) == Result(drv_Newhaven_sendCommand(s, 83, <<Clamp(v, 1, 8)>>), Clamp(v, 1, 8))
drv_Newhaven_start(c, s) ==
    drv_Newhaven_clear(c, Configured(c, "brightness", Configured(c, "contrast", s, drv_Newhaven_contrast), drv_Newhaven_brightness))

(* Noritake GU311: four lines of 22 cells in one memory. *)
drv_GU311_make_text_string(s, row, col, data) ==
    LET start == 22 * row + col
    IN IF start > 87 \/ Len(data) > 87 THEN s ELSE On(s, PutAll(At(s.dev, start \div 22, start % 22), {1}, data))
drv_GU311_clear(c, s) == On(s, Erased(s.dev))
drv_GU311_write(c, s, row, col, data) == drv_GU311_make_text_string(s, row, col, data)
drv_GU311_start(c, s) == drv_GU311_clear(c, s)

(* PHAnderson: the characters 0 to 7, and all beyond 127, become an escape. *)
drv_PHAnderson_send(s, data) ==
    On(s, Stream(s.dev, Feed(LAMBDA seq, b : seq \o (IF b < 8 \/ b > 127 THEN <<63, (48 + b) % 256>> ELSE <<b>>), <<>>, data)))
HexDigit(b) == IF b < 10 THEN b + 48 ELSE b + 55
drv_PHAnderson_clear(c, s) == drv_PHAnderson_send(s, <<63, 102>>)
drv_PHAnderson_write(c, s, row, col, data) ==
    drv_PHAnderson_send(drv_PHAnderson_send(s, <<63, 121, row + 48, 63, 120, (col \div 10) + 48, (col % 10) + 48>>), data)
drv_PHAnderson_defchar(c, s, ascii, matrix) ==
    drv_PHAnderson_send(s, <<63, 68, ascii + 48>>
        \o Feed(LAMBDA seq, b : seq \o <<((b \div 16) % 2) + 48, HexDigit(b % 16)>>, <<>>, matrix))
drv_PHAnderson_blacklight(s, v0) ==
    LET v == Clamp(v0, 0, 255) IN Result(drv_PHAnderson_send(s, <<63, 66, HexDigit(v \div 16), HexDigit(v % 16)>>), v)
drv_PHAnderson_start(c, s) == drv_PHAnderson_clear(c, Configured(c, "backlight", s, drv_PHAnderson_blacklight))

-----------------------------------------------------------------------------
(* SimpleLCD: a VT100, or a printer of lines that needs a copy of its screen. *)
drv_SL_vt100_clear(s) == drv_generic_serial_write(s, <<27, 91, 50, 74>>)
drv_SL_simple_clear(c, s) ==
    Own(Feed(LAMBDA t, i : drv_generic_serial_write(t, <<13, 10>>), s, Blanks(c.rows)), "back", [r \in 1 .. c.rows |-> Blanks(c.cols)])
drv_SL_clear(c, s) == IF c.vt100 THEN drv_SL_vt100_clear(s) ELSE drv_SL_simple_clear(c, s)
drv_SL_commit(c, s, full) ==
    IF full THEN Feed(LAMBDA t, line : Write2(t, <<13, 10>>, line), s, s.own.back) ELSE Write2(s, <<13>>, s.own.back[c.rows])
drv_SL_simple_write(c, s, row, col, data) ==
    drv_SL_commit(c, Own(s, "back", [s.own.back EXCEPT ![row + 1] = Over(@, col, data)]), row # c.rows - 1)
drv_SL_vt100_write(c, s, row, col, data) ==
    Write2(s, <<27, 91, row + 49, 59, (col \div 10) + 48, (col % 10) + 49, 72>>, data)
drv_SL_start(c, s) == drv_SL_clear(c, s)

(* WincorNixdorf *)
drv_WN_clear(c, s) == drv_generic_serial_write(s, <<27, 91, 50, 74>>)
drv_WN_write(c, s, row, col, data) == Write2(s, <<27, 91, 49 + row, 59, 48 + (col \div 10), 49 + (col % 10), 72>>, data)
drv_WN_start(c, s) == drv_WN_clear(c, s)

(* picoLCD: one packet per command. *)
drv_pL_clear(c, s) == On(s, Erased(s.dev))
drv_pL_write(c, s, row, col, data) == On(s, PutAll(At(s.dev, row, col), {1}, data))
drv_pL_defchar(c, s, ascii, matrix) == On(s, Glyph(s.dev, ascii, Low(matrix, 5)))
drv_pL_contrast(s, v) == Result(On(s, Set(s.dev, "contrast", Clamp(v, 0, 255))), Clamp(v, 0, 255))
drv_pL_backlight(s, v) == Result(On(s, Set(s.dev, "backlight", Clamp(v, 0, 1))), Clamp(v, 0, 1))
drv_pL_gpo(s, num0, val0) ==
    LET num == Clamp(num0, 0, 7)
        val == Clamp(val0, 0, 1)
        t == Own(s, "lit", IF val = 1 THEN s.own.lit \union {num} ELSE s.own.lit \ {num})
    IN Result(On(t, [t.dev EXCEPT !.out = Numbers(t.own.lit) @@ @]), val)
drv_pL_start(c, s) ==
    drv_pL_clear(c, Configured(c, "backlight", Configured(c, "contrast", s, drv_pL_contrast), drv_pL_backlight))

(* LCDLinux: a device file, with a cell for each byte. *)
\* Mutant: there is one attempt less.
X_drv_LL_send_Bug(s, data) ==
    LET refused == IF s.dev.faults > TRIES - 1 THEN TRIES - 1 ELSE s.dev.faults
        d == [s.dev EXCEPT !.faults = @ - refused]
    IN On(s, IF refused = TRIES - 1 THEN d ELSE PutAll(d, {1}, data))
drv_LL_send(s, data) ==
    LET refused == IF s.dev.faults > TRIES THEN TRIES ELSE s.dev.faults
        d == [s.dev EXCEPT !.faults = @ - refused]
    IN On(s, IF refused = TRIES THEN d ELSE PutAll(d, {1}, data))
drv_LL_clear(c, s) == On(s, Erased(s.dev))
drv_LL_write(c, s, row, col, data) ==
    LET pos == row * c.cols + col
    IN drv_LL_send(On(s, At(s.dev, pos \div c.cols, pos % c.cols)), data)
drv_LL_defchar(c, s, ascii, matrix) == On(s, Glyph(s.dev, ascii, Low(matrix, 5)))
drv_LL_start(c, s) == drv_LL_clear(c, s)

(* LW_ABP: commands are lines of text. *)
drv_LW_ABP_clear(c, s) == drv_generic_serial_write(s, <<12>>)
drv_LW_ABP_write(c, s, row, col, data) ==
    LET at == IF col > 0 THEN <<row + 1, col + 1>> ELSE <<row + 1, 1>>
    IN On(s, PutAll(At(s.dev, at[1] - 1, at[2] - 1), {1}, data))
drv_LW_ABP_background(c, s, colour) ==
    LET t == Own(s, "background", colour)
    IN IF colour \in c.colours THEN Result(On(t, Set(s.dev, "background", colour)), colour) ELSE Result(s, s.own.background)
drv_LW_ABP_start(c, s) ==
    drv_LW_ABP_clear(c, Configured(c, "background", s, LAMBDA t, v : drv_LW_ABP_background(c, t, v)))

(* EFN: one module per character, the last cell has address 1; all is sent twice. *)
drv_EFN_send(s, bytes) == On(s, Stream(s.dev, bytes))
Doubly(s, bytes) == drv_EFN_send(drv_EFN_send(s, bytes), bytes)
drv_EFN_clear(c, s) ==
    Doubly(s, Feed(LAMBDA seq, k : seq \o <<255, k, Space>>, <<>>, [k \in 1 .. c.rows * c.cols |-> k]))
drv_EFN_write(c, s, row, col, data) ==
    LET first == c.rows * c.cols - (row * c.cols + col)
        n == IF Len(data) < first THEN Len(data) ELSE first
    IN Doubly(s, Feed(LAMBDA seq, k : seq \o <<255, first + 1 - k, data[k]>>, <<>>, [k \in 1 .. n |-> k]))
drv_EFN_start(c, s) == drv_EFN_clear(c, s)

(* FutabaVFD: the cursor goes back to where it was. *)
drv_FutabaVFD_send(s, bytes) == On(s, Stream(s.dev, bytes))
drv_FutabaVFD_goto(s, pos) == Own(drv_FutabaVFD_send(s, <<16, pos>>), "pos", pos)
drv_FutabaVFD_clear(c, s) == drv_FutabaVFD_send(s, <<31, 17, 20>>)
drv_FutabaVFD_write(c, s, row, col, data) ==
    drv_FutabaVFD_goto(drv_FutabaVFD_send(drv_FutabaVFD_goto(s, row * c.cols + col), data), s.own.pos)
drv_FutabaVFD_brightness(s, v) ==
    LET t == Own(s, "dim", Clamp(v, 0, 3))
    IN Result(drv_FutabaVFD_send(t, <<4, IF t.own.dim < 3 THEN (1 + t.own.dim) * 32 ELSE 255>>), t.own.dim)
drv_FutabaVFD_start(c, s) == drv_FutabaVFD_clear(c, Configured(c, "brightness", s, drv_FutabaVFD_brightness))

(* ShuttleVFD: the whole line goes out in packets of at most PIECE characters. *)
PIECE == 7
ShuttlePacket(d, kind, data) ==
    CASE kind = "clear" -> Erased(d)
      [] kind = "home" -> At(d, 0, 0)
      [] kind = "text" -> PutAll(d, {1}, data)
      [] kind = "icons" -> [d EXCEPT !.out = Numbers(data) @@ @]
drv_ShuttleVFD_send(s, kind, data) == On(s, ShuttlePacket(s.dev, kind, data))
drv_ShuttleVFD_clear(c, s) == drv_ShuttleVFD_send(Own(s, "fb", Blanks(c.cols)), "clear", <<>>)
drv_ShuttleVFD_write(c, s, row, col, data) ==
    LET fb == Over(s.own.fb, row * c.cols + col, data)
        pieces == [i \in 1 .. (c.cols + PIECE - 1) \div PIECE |-> SubSeq(fb, PIECE * (i - 1) + 1, IF PIECE * i > c.cols THEN c.cols ELSE PIECE * i)]
    IN Feed(LAMBDA t, piece : drv_ShuttleVFD_send(t, "text", piece), drv_ShuttleVFD_send(Own(s, "fb", fb), "home", <<>>), pieces)
\* The icon that was set or cleared is sent, not those that are on.
drv_ShuttleVFD_icons_set(s, num, val) ==
    LET t == Own(s, "lit", IF val > 0 THEN s.own.lit \union {num} ELSE s.own.lit \ {num})
    IN Result(drv_ShuttleVFD_send(t, "icons", {num}), 0)
drv_ShuttleVFD_start(c, s) == drv_ShuttleVFD_clear(c, s)

(* Curses: a window, text ends at a line break. *)
drv_Curs_clear(c, s) == On(s, Erased(s.dev))
drv_Curs_write(c, s, row, col, data) ==
    LET text == Upto(data, c.cols - col)
        stop == {i \in DOMAIN text : text[i] \in {10, 13, 0}}
        n == IF stop = {} THEN Len(text) ELSE (CHOOSE i \in stop : \A j \in stop : i <= j) - 1
    IN IF col >= c.cols THEN s ELSE On(s, PutAll(At(s.dev, row, col), {1}, SubSeq(text, 1, n)))
drv_Curs_start(c, s) == drv_Curs_clear(c, s)

(* Sample, the driver new ones are made from. *)
drv_Sample_send(s, bytes) == drv_generic_serial_write(s, bytes)
drv_Sample_clear(c, s) == drv_Sample_send(s, <<1>>)
drv_Sample_write(c, s, row, col, data) == drv_Sample_send(drv_Sample_send(s, <<2, row, col>>), data)
drv_Sample_defchar(c, s, ascii, matrix) == drv_Sample_send(s, <<3, ascii>> \o matrix)
drv_Sample_GPO(s, num, val) == Result(drv_Sample_send(s, <<66, num, IF val > 0 THEN 1 ELSE 0>>), 0)
drv_Sample_contrast(s, v) == Result(drv_Sample_send(s, <<4, Clamp(v, 0, 255)>>), Clamp(v, 0, 255))
drv_Sample_start(c, s) == drv_Sample_clear(c, Configured(c, "contrast", s, drv_Sample_contrast))

(* LCDTerm, Milford Instruments, Pertelian, FW8888: a HD44780 behind a port. *)
drv_LT_send(s, request, data) == Feed(LAMBDA t, b : drv_generic_serial_write(t, <<request, b>>), s, data)
drv_LT_clear(c, s) == drv_generic_serial_write(s, <<3>>)
drv_LT_write(c, s, row, col, data) == drv_LT_send(drv_LT_send(s, 18, <<128 + Pos(c, row, col)>>), 20, data)
drv_LT_defchar(c, s, ascii, matrix) == drv_LT_send(drv_LT_send(s, 18, <<64 + 8 * ascii>>), 20, Low(matrix, 5))
drv_LT_start(c, s) == drv_LT_clear(c, drv_LT_send(s, 18, <<41, 8, 12, 6>>))
drv_MI_clear(c, s) == drv_generic_serial_write(s, <<254, 1>>)
drv_MI_write(c, s, row, col, data) ==
    Write2(s, <<254, 128 + 64 * (row % 2) + (IF row \div 2 % 2 = 1 THEN 20 ELSE 0) + col>>, data)
drv_MI_defchar(c, s, ascii, matrix) ==
    IF ascii < 8 THEN drv_generic_serial_write(s, <<254, 64 + 8 * ascii>> \o Low(matrix, 5)) ELSE s
drv_MI_start(c, s) == drv_MI_clear(c, s)
rowoffset == <<128, 192, 148, 212>>
drv_Pertelian_send(s, bytes) == Feed(LAMBDA t, b : drv_generic_serial_write(t, <<b>>), s, bytes)
drv_Pertelian_clear(c, s) == drv_Pertelian_send(s, <<254, 1>>)
drv_Pertelian_write(c, s, row, col, data) == drv_Pertelian_send(drv_Pertelian_send(s, <<254, rowoffset[row + 1] + col>>), data)
drv_Pertelian_defchar(c, s, ascii, matrix) == drv_Pertelian_send(s, <<254, 64 + 8 * ascii>> \o Low(matrix, 5))
drv_Pertelian_backlight(s, v) ==
    LET code == IF v <= 0 THEN 2 ELSE 3 IN Result(drv_Pertelian_send(s, <<254, code>>), code)
drv_Pertelian_start(c, s) ==
    drv_Pertelian_clear(c, Configured(c, "backlight", drv_Pertelian_send(s, <<254, 56, 254, 6, 254, 16, 254, 12>>), drv_Pertelian_backlight))
drv_FW8888_send_cmd(s, b) == drv_generic_serial_write(s, <<16, b>>)
drv_FW8888_send_text(s, data) == Feed(LAMBDA t, b : drv_generic_serial_write(t, <<18, b>>), s, data)
drv_FW8888_clear(c, s) == drv_FW8888_send_cmd(s, 1)
drv_FW8888_set_cursor(s, row, col) ==
    CASE row = 0 -> drv_FW8888_send_cmd(s, 128 + col) [] row = 1 -> drv_FW8888_send_cmd(s, 192 + col) [] OTHER -> s
drv_FW8888_write(c, s, row, col, data) == drv_FW8888_send_text(drv_FW8888_set_cursor(s, row, col), data)
drv_FW8888_start(c, s) == drv_FW8888_clear(c, s)
=============================================================================
