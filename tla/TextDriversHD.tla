---------------------------- MODULE TextDriversHD ----------------------------
(* Drivers of displays with a HD44780 or one of its relatives.  s.dev is the
   display, s.own what the driver keeps in its static variables; c holds the
   size of the display and the other options. *)
EXTENDS TextDevices

Clamp(v, lo, hi) == IF v < lo THEN lo ELSE IF v > hi THEN hi ELSE v
Low(matrix, bits) == [i \in DOMAIN matrix |-> matrix[i] % 2 ^ bits]
On(s, dev) == [s EXCEPT !.dev = dev]
Result(s, val) == [s |-> s, v |-> val]
\* The setting of the configuration file, if there is one.
Configured(c, name, s, Setting(_, _)) == IF name \in DOMAIN c.cfg THEN Setting(s, c.cfg[name]).s ELSE s

Instruct(s, C, b) == On(s, Instr(s.dev, C, b))
Send(s, C, data) == On(s, PutAll(s.dev, C, data))
Both(s) == AllOf(s.dev)
\* Where most of these drivers look for a cell.
Pos(c, row, col) == (row % 2) * 64 + (row \div 2) * (IF c.cols = 16 /\ c.rows = 4 THEN 16 ELSE 20) + col

\* A transfer that is not repeated, and one that is repeated once after the device
\* was opened again: if that fails, too, the program ends after this pass.
Once(s, Do(_)) == On(s, IF Fails(s.dev) THEN Failed(s.dev) ELSE Do(s.dev))
Again(s, Do(_)) == [Once(s, Do) EXCEPT !.over = @ \/ Fails(s.dev)]
Reopened(s, Do(_)) == IF Fails(s.dev) THEN Again(On(s, Failed(s.dev)), Do) ELSE On(s, Do(s.dev))

-----------------------------------------------------------------------------
(* ASTUSB: the index of the controller never reaches the interface. *)
drv_AST_HW_data(s, data) == Reopened(s, LAMBDA d : PutAll(d, {1}, data))
drv_AST_HW_cmd(s, b) == Once(s, LAMBDA d : Instr(d, {1}, b))
drv_AST_LCD_BL(s, v) == Result(On(s, Set(s.dev, "backlight", Clamp(v, 0, 1))), Clamp(v, 0, 1))
drv_AST_clear(c, s) == drv_AST_HW_cmd(drv_AST_HW_cmd(s, 1), 3)
drv_AST_write(c, s, row, col, data) ==
    LET second == c.rows > 2 /\ c.cols > 20 /\ row > 1
    IN drv_AST_HW_data(drv_AST_HW_cmd(s, 128 + Pos(c, IF second THEN row - 2 ELSE row, col)), data)
drv_AST_defchar(c, s, ascii, matrix) == drv_AST_HW_data(drv_AST_HW_cmd(s, 64 + 8 * ascii), Low(matrix, 5))
drv_AST_start(c, s) == drv_AST_clear(c, Configured(c, "backlight", s, drv_AST_LCD_BL))

(* BWCT: bytes are sent one by one, nothing is repeated. *)
drv_BW_command(s, b) == Once(s, LAMBDA d : Instr(d, {1}, b))
drv_BW_send(s, data) == Feed(LAMBDA t, b : Once(t, LAMBDA d : Put(d, {1}, b)), s, data)
drv_BW_contrast(s, v) == Result(On(s, Set(s.dev, "contrast", Clamp(v, 0, 255))), Clamp(v, 0, 255))
drv_BW_clear(c, s) == drv_BW_command(drv_BW_command(s, 1), 3)
drv_BW_write(c, s, row, col, data) == drv_BW_send(drv_BW_command(s, 128 + Pos(c, row, col)), data)
drv_BW_defchar(c, s, ascii, matrix) == drv_BW_send(drv_BW_command(s, 64 + 8 * ascii), Low(matrix, 5))
drv_BW_start(c, s) == drv_BW_clear(c, Configured(c, "contrast", s, drv_BW_contrast))

(* IRLCD *)
drv_IRLCD_send(s, request, buffer) ==
    LET message(d) == IF request = "instr" THEN Instr(d, {1}, buffer[1]) ELSE PutAll(d, {1}, buffer)
    IN Reopened(s, message)
drv_IRLCD_cmd(s, b) == drv_IRLCD_send(s, "instr", <<b>>)
drv_IRLCD_clear(c, s) == drv_IRLCD_cmd(drv_IRLCD_cmd(s, 1), 3)
drv_IRLCD_write(c, s, row, col, data) ==
    drv_IRLCD_send(drv_IRLCD_cmd(s, 128 + (row % 2) * 64 + (row \div 2) * 20 + col), "data", data)
drv_IRLCD_defchar(c, s, ascii, matrix) ==
    drv_IRLCD_send(drv_IRLCD_cmd(s, 64 + 8 * ascii), "data", Low(matrix, 5))
drv_IRLCD_start(c, s) == drv_IRLCD_clear(c, s)

(* LCD2USB: up to QUEUE bytes for the same controllers go out in one request. *)
QUEUE == 4
drv_L2U_send(s, request) ==
    LET message(d) ==
            CASE request.type = "cmd" -> Feed(LAMBDA e, b : Instr(e, request.to, b), d, request.buffer)
              [] request.type = "data" -> PutAll(d, request.to, request.buffer)
              [] OTHER -> Set(d, request.type, request.buffer[1])
    IN Reopened(s, message)
drv_L2U_set(s, type, v) == drv_L2U_send(s, [type |-> type, to |-> {}, buffer |-> <<v>>])
Empty == [type |-> "none", to |-> {}, buffer |-> <<>>]
drv_L2U_flush(s) ==
    IF s.own.type = "none" THEN s ELSE [drv_L2U_send(s, s.own) EXCEPT !.own = Empty]
drv_L2U_enqueue(s, type, to, b) ==
    LET t == IF s.own.type = "none" \/ (s.own.type = type /\ s.own.to = to) THEN s ELSE drv_L2U_flush(s)
        u == [t EXCEPT !.own = [type |-> type, to |-> to, buffer |-> Append(t.own.buffer, b)]]
    IN IF Len(u.own.buffer) = QUEUE THEN drv_L2U_flush(u) ELSE u
\* Data never stays in the queue, and commands in front of it go out first.
drv_L2U_data(s, to, data) ==
    LET pieces == [i \in 1 .. (Len(data) + QUEUE - 1) \div QUEUE |->
                     SubSeq(data, QUEUE * (i - 1) + 1, IF QUEUE * i > Len(data) THEN Len(data) ELSE QUEUE * i)]
    IN Feed(LAMBDA t, piece : drv_L2U_flush([t EXCEPT !.own = [type |-> "data", to |-> to, buffer |-> piece]]),
            drv_L2U_flush(s), pieces)
drv_L2U_clear(c, s) == drv_L2U_enqueue(drv_L2U_enqueue(s, "cmd", Both(s), 1), "cmd", Both(s), 3)
drv_L2U_write(c, s, row, col, data) ==
    LET second == c.rows > 2 /\ c.cols > 20 /\ row > 1
        to == {IF second THEN 2 ELSE 1} \intersect Both(s)
    IN drv_L2U_data(drv_L2U_enqueue(s, "cmd", to, 128 + Pos(c, IF second THEN row - 2 ELSE row, col)), to, data)
drv_L2U_defchar(c, s, ascii, matrix) ==
    drv_L2U_data(drv_L2U_enqueue(s, "cmd", Both(s), 64 + 8 * ascii), Both(s), Low(matrix, 5))
drv_L2U_contrast(s, v) ==
    Result(drv_L2U_set(s, "contrast", Clamp(v, 0, 255)), Clamp(v, 0, 255))
drv_L2U_brightness(s, v) ==
    Result(drv_L2U_set(s, "brightness", Clamp(v, 0, 255)), Clamp(v, 0, 255))
drv_L2U_start(c, s) ==
    drv_L2U_clear(c, Configured(c, "brightness", Configured(c, "contrast", s, drv_L2U_contrast), drv_L2U_brightness))

(* RouterBoard: each word on the bus carries the backlight and the outputs. *)
drv_RB_outw(s) ==
    LET words == [w \in {<<"backlight", 0>>} \union {<<"output", n>> : n \in 0 .. 3} |->
                    IF w[1] = "backlight" THEN (IF "backlight" \in s.own.leds THEN 1 ELSE 0)
                    ELSE IF w[2] \in s.own.lit THEN 1 ELSE 0]
    IN On(s, [s.dev EXCEPT !.out = words])
drv_RB_backlight(s, v) ==
    LET set == drv_RB_outw([s EXCEPT !.own.leds = IF v > 0 THEN {"backlight"} ELSE {}])
    IN IF v = -1 THEN Result(s, IF "backlight" \in s.own.leds THEN 1 ELSE 0) ELSE Result(set, IF v > 0 THEN 1 ELSE 0)
drv_RB_command(s, b) == Instruct(drv_RB_outw(s), {1}, b)
\* Mutant: the words of the data carry no outputs.
X_drv_RB_data_Bug(s, data) == [Send(drv_RB_outw([s EXCEPT !.own.lit = {}]), {1}, data) EXCEPT !.own.lit = s.own.lit]
drv_RB_data(s, data) == Send(drv_RB_outw(s), {1}, data)
drv_RB_clear(c, s) == drv_RB_command(s, 1)
drv_RB_goto(c, s, row0, col0) ==
    LET split == c.cols = 16 /\ c.rows = 1 /\ col0 > 7
        row == IF split THEN row0 + 1 ELSE row0
        col == IF split THEN col0 - 8 ELSE col0
    IN drv_RB_command(s, 128 + (IF c.hd66712 THEN row * 32 + col ELSE Pos(c, row, col)))
drv_RB_write(c, s, row, col, data) == drv_RB_data(drv_RB_goto(c, s, row, col), data)
drv_RB_defchar(c, s, ascii, matrix) == drv_RB_data(drv_RB_command(s, 64 + 8 * ascii), Low(matrix, 5))
\* Mutant: setting an output forgets the others.
X_drv_RB_GPO_Bug(s, num, val) ==
    Result(drv_RB_outw([s EXCEPT !.own.lit = IF val > 0 THEN {num} ELSE {}]), IF val > 0 THEN 1 ELSE 0)
drv_RB_GPO(s, num, val) ==
    Result(drv_RB_outw([s EXCEPT !.own.lit = IF val > 0 THEN @ \union {num} ELSE @ \ {num}]), IF val > 0 THEN 1 ELSE 0)
drv_RB_start(c, s) ==
    drv_RB_command(drv_RB_clear(c, Configured(c, "backlight", s, drv_RB_backlight)), 3)

(* HD44780 on a port of its own, with up to four controllers. *)
Above(c, k) == Feed(+, 0, SubSeq(c.crows, 1, k - 1))
\* The loop looks for the first controller whose last row, counted from the
\* top of the display, is not before the row, counted from the top of the controller.
drv_HD_controller(c, row) ==
    LET fits == {k \in DOMAIN c.crows : row - Above(c, k) < Above(c, k + 1)}
    IN CHOOSE k \in fits : \A j \in fits : k <= j
drv_HD_goto(c, s, row0, col0) ==
    LET k == drv_HD_controller(c, row0)
        split == c.ccols[k] = 16 /\ c.crows[k] = 1 /\ col0 > 7
        row == row0 - Above(c, k) + (IF split THEN 1 ELSE 0)
        col == IF split THEN col0 - 8 ELSE col0
        pos == IF c.hd66712 THEN row * 32 + col ELSE Pos([cols |-> c.ccols[k], rows |-> c.crows[k]], row, col)
    IN IF col0 >= c.ccols[k] THEN [s |-> s, to |-> {k}, space |-> -1]
       ELSE [s |-> Instruct(s, {k}, 128 + pos), to |-> {k}, space |-> c.ccols[k] - col]
drv_HD_clear(c, s) == Instruct(s, Both(s), 1)
drv_HD_write(c, s, row, col, data) ==
    LET at == drv_HD_goto(c, s, row, col)
    IN IF at.space > 0 THEN Send(at.s, at.to, SubSeq(data, 1, IF Len(data) > at.space THEN at.space ELSE Len(data))) ELSE at.s
drv_HD_defchar(c, s, ascii, matrix) == Send(Instruct(s, Both(s), 64 + 8 * ascii), Both(s), Low(matrix, 5))
drv_HD_backlight(s, v) ==
    IF "backlight" \notin s.own.caps THEN Result(s, -1)
    ELSE Result(On(s, Set(s.dev, "backlight", Clamp(v, 0, 1))), Clamp(v, 0, 1))
\* These displays take the byte after a function set as their brightness.
drv_HD_brightness(s, v) ==
    IF "brightness" \notin s.own.caps THEN Result(s, -1)
    ELSE Result(On(s, Set(s.dev, "brightness", Clamp(v, 0, 3))), Clamp(v, 0, 3))
Latched(s, num, val) ==
    LET t == [s EXCEPT !.own.lit = IF val > 0 THEN @ \union {num} ELSE @ \ {num}]
    IN On(t, [t.dev EXCEPT !.out = [w \in {<<"output", n>> : n \in 0 .. 7} |-> IF w[2] \in t.own.lit THEN 1 ELSE 0] @@ @])
drv_HD_GPO(s, num, val) == Result(Latched(s, num, val), IF val > 0 THEN 1 ELSE 0)
drv_HD_start(c, s) ==
    Configured(c, "brightness",
        Configured(c, "backlight", Instruct(drv_HD_clear(c, s), Both(s), 3), drv_HD_backlight), drv_HD_brightness)

-----------------------------------------------------------------------------
(* USBLCD: a zero byte announces a command, so zeros in the data are doubled. *)
\* Mutant: zeros are sent once.
X_Doubled_Bug(data) == data
Doubled(data) == Feed(LAMBDA seq, b : seq \o (IF b = 0 THEN <<0, 0>> ELSE <<b>>), <<>>, data)
drv_UL_send(s, bytes) == On(s, Stream(s.dev, bytes))
drv_UL_command(b) == <<0, b>>
drv_UL_clear(c, s) == drv_UL_send(s, drv_UL_command(1) \o drv_UL_command(3))
drv_UL_write(c, s, row, col, data) == drv_UL_send(s, drv_UL_command(128 + Pos(c, row, col)) \o Doubled(data))
drv_UL_defchar(c, s, ascii, matrix) == drv_UL_send(s, drv_UL_command(64 + 8 * ascii) \o Doubled(Low(matrix, 5)))
drv_UL_start(c, s) == drv_UL_clear(c, s)

(* Trefon: packets with a command, and data after it. *)
Packet(d, p) ==
    LET e == Instr(d, {1}, p[3])
    IN IF p[2] = 1 THEN Set(d, "backlight", p[3])
       ELSE IF Len(p) > 4 /\ p[4] = 2 THEN PutAll(e, {1}, SubSeq(p, 6, 5 + p[5])) ELSE e
drv_TF_send(s, packet) == On(s, Packet(s.dev, packet))
drv_TF_command(s, b) == drv_TF_send(s, <<2, 6, b, 255>>)
drv_TF_clear(c, s) == drv_TF_command(s, 1)
drv_TF_write(c, s, row, col, data) ==
    LET pos == CASE c.cols = 8 /\ c.rows = 1 -> row * 64 + col
                 [] c.cols = 16 /\ c.rows = 2 -> row * 64 + col
                 [] c.cols = 20 /\ c.rows = 4 -> row * 32 + col
    IN drv_TF_send(s, <<2, 6, 128 + pos, 2, Len(data)>> \o data)
\* Mutant: the code is not reduced to the eight glyphs.
X_drv_TF_defchar_Bug(c, s, ascii, matrix) ==
    drv_TF_send(s, <<2, 6, 64 + (8 * ascii), 2, 8>> \o Low(matrix, 5) \o <<255>>)
drv_TF_defchar(c, s, ascii, matrix) ==
    drv_TF_send(s, <<2, 6, 64 + ((8 * ascii) % 64), 2, 8>> \o Low(matrix, 5) \o <<255>>)
drv_TF_backlight(s, v) == Result(drv_TF_send(s, <<2, 1, Clamp(v, 0, 1), 255>>), Clamp(v, 0, 1))
drv_TF_start(c, s) == drv_TF_clear(c, Configured(c, "backlight", s, drv_TF_backlight))

(* M50530: text and glyphs are in one memory, the glyphs behind DDRAM words. *)
drv_M5_clear(c, s) == On(s, Moved([s.dev EXCEPT !.mem = [p \in {q \in DOMAIN @ : q[2] >= c.ddram} |-> @[p]], !.fill = Space],
                                  {1}, "dd", 0))
drv_M5_write(c, s, row, col, data) ==
    LET line == c.ddram \div 2 ^ c.duty
        pos == IF row < 4 THEN row * line + col ELSE (row - 4) * line + line \div 2 + col
    IN On(s, PutAll(Moved(s.dev, {1}, "dd", pos), {1}, data))
drv_M5_defchar(c, s, ascii, matrix) ==
    On(s, PutAll(Moved(s.dev, {1}, "dd", c.ddram + 8 * (ascii - 248)), {1}, Low(SubSeq(matrix, 1, 7), 6)))
drv_M5_GPO(s, num, val) == Result(Latched(s, num, val), IF val > 0 THEN 1 ELSE 0)
drv_M5_start(c, s) == drv_M5_clear(c, s)

(* ula200: commands are framed, their bytes are escaped, and a command is
   repeated until the display acknowledges it. *)
STX == 2
ETX == 3
ENQ == 5
Escaped(data) ==
    Feed(LAMBDA seq, b : seq \o (CASE b = STX -> <<ENQ, 18>> [] b = ETX -> <<ENQ, 19>> [] b = ENQ -> <<ENQ, 21>>
                                       [] OTHER -> <<b>>), <<>>, data)
Plain(frame) ==
    LET code == 18 :> STX @@ 19 :> ETX @@ 21 :> ENQ
        step(acc, b) == IF acc.esc THEN [esc |-> FALSE, seq |-> Append(acc.seq, code[b])]
                        ELSE IF b = ENQ THEN [acc EXCEPT !.esc = TRUE] ELSE [acc EXCEPT !.seq = Append(@, b)]
    IN Feed(step, [esc |-> FALSE, seq |-> <<>>], frame).seq
\* The display takes what stands between STX and the first ETX.
Framed(d, bytes) ==
    LET n == CHOOSE i \in DOMAIN bytes : bytes[i] = ETX /\ \A j \in 1 .. i - 1 : bytes[j] # ETX
        p == Plain(SubSeq(bytes, 2, n - 1))
    IN CASE p[1] = 112 -> At(d, p[3], p[2])                         \* 'p'
         [] p[1] = 115 -> PutAll(d, {1}, SubSeq(p, 3, 2 + p[2]))    \* 's'
         [] p[1] = 99 -> Put(d, {1}, p[2])                          \* 'c'
         [] p[1] = 108 -> Erased(d)                                 \* 'l'
         [] p[1] = 104 -> Set(d, "backlight", p[2] - 48)            \* 'h'
         [] p[1] = 82 /\ p[2] = 48 -> Moved(d, {1}, "cg", p[3] % 64)
         [] p[1] = 82 /\ p[2] = 50 -> Put(d, {1}, p[3])
         [] OTHER -> d
\* A refused command is repeated, and so is one that was obeyed but whose answer was
\* lost; one that cannot be sent is given up (ok is FALSE).
drv_ula200_ftdi_write_command(s, data) ==
    LET answered == ~Fails(s.dev) \/ s.dev.wait > 0
        failed == IF answered THEN 0 ELSE IF s.dev.faults > 20 THEN 21 ELSE s.dev.faults
        times == CASE s.dev.broken = "unsent" -> IF answered THEN 1 ELSE 0
                   [] s.dev.broken = "lost" -> IF failed = 21 THEN 21 ELSE failed + 1
                   [] s.dev.broken = "refused" -> IF failed = 21 THEN 0 ELSE 1
        used == IF s.dev.broken = "unsent" /\ ~answered THEN 1 ELSE failed
        d == [s.dev EXCEPT !.faults = @ - used, !.wait = IF @ > 0 THEN @ - 1 ELSE 0]
    IN [s |-> On(s, Feed(LAMBDA e, frame : Framed(e, frame), d, [i \in 1 .. times |-> <<STX>> \o Escaped(data) \o <<ETX>>])),
        ok |-> answered \/ s.dev.broken # "unsent"]
Then(r, Do(_)) == IF r.ok THEN Do(r.s) ELSE r
drv_ula200_rawdata(s, rs, b) == drv_ula200_ftdi_write_command(s, <<82, IF rs = "data" THEN 50 ELSE 48, b>>)
drv_ula200_set_position(c, s, x, y) ==
    drv_ula200_ftdi_write_command(s, IF y >= 2 THEN <<112, x + c.cols, y - 2>> ELSE <<112, x, y>>)
drv_ula200_clear(c, s) == drv_ula200_ftdi_write_command(s, <<108>>).s
\* Mutant: the text goes out although the display was not told where.
X_drv_ula200_write_Bug(c, s, row, col, data) ==
    drv_ula200_ftdi_write_command(drv_ula200_set_position(c, s, col, row).s,
        IF Len(data) = 1 THEN <<99, data[1]>> ELSE <<115, Len(data)>> \o data).s
drv_ula200_write(c, s, row, col, data) ==
    Then(drv_ula200_set_position(c, s, col, row),
         LAMBDA t : drv_ula200_ftdi_write_command(t, IF Len(data) = 1 THEN <<99, data[1]>> ELSE <<115, Len(data)>> \o data)).s
drv_ula200_defchar(c, s, ascii, matrix) ==
    IF ascii >= 8 THEN s
    ELSE Feed(LAMBDA r, b : Then(r, LAMBDA t : drv_ula200_rawdata(t, "data", b)),
              drv_ula200_rawdata(s, "instr", 64 + 8 * ascii), Low(matrix, 5)).s
drv_ula200_backlight(s, v) ==
    Result(drv_ula200_ftdi_write_command(s, <<104, IF v <= 0 THEN 48 ELSE 49>>).s, IF v <= 0 THEN 0 ELSE 1)
drv_ula200_start(c, s) ==
    LET lit == drv_ula200_backlight(s, IF "backlight" \in DOMAIN c.cfg THEN c.cfg.backlight ELSE 0).s
    IN drv_ula200_ftdi_write_command(drv_ula200_clear(c, lit), <<82, 69, 49>>).s
=============================================================================
