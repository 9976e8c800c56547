------------------------------ MODULE TeakLCM ------------------------------
(* The TeakLCM driver and its board on a serial line: the driver connects by a
   handshake, keeps what is written meanwhile in a shadow, and connects again
   when the board starts anew.  Nothing is sent again when an answer is lost.
   What goes over the line are bytes: frames with a command, and frames with
   data, their escapes and their checksum. *)
EXTENDS Integers, Sequences, SequencesExt, FiniteSets, Bitwise

CONSTANTS DCOLS,         \* columns; the board has two rows
          Characters,    \* codes of what is written into a cell
          Keys,          \* codes of keys
          MaxWrites,
          MaxTroubles    \* keys, restarts of the board or the program, and cut frames

VARIABLES phase,                    \* of the program
          state, reset_rx,          \* lcm_fsm.state, global_reset_rx_flag
          shadow,                   \* what the display should show
          out, in,                  \* frames to the board; what is unread of those from it
          board,                    \* its connection and what it shows
          used                      \* how often the bounded things happened
vars == <<phase, state, reset_rx, shadow, out, in, board, used>>

Rows == 1 .. 2
Columns == 1 .. DCOLS
Space == 32
Spaces == [k \in Columns |-> Space]
Blank == [r \in Rows |-> Spaces]

-----------------------------------------------------------------------------
(* Frames *)
MASK == 255
ESC == 27
Code == [CONNECT |-> 5, DISCONNECT |-> 6, WRITE |-> 8, PRINT1 |-> 9, PRINT2 |-> 10, ACK |-> 11,
         NACK |-> 12, CONFIRM |-> 13, RESET |-> 14, BACKLIGHT_ON |-> 37, DISPLAY_ON |-> 45, DISPLAY_OFF |-> 46]
HI8(value) == value \div 256
LO8(value) == value % 256

\* The remainder of a byte, bit by bit: CRC is divided by 0x11021.
Remainders ==
    [byte \in 0 .. 255 |->
        FoldLeft(LAMBDA crc, bit :
                    LET top == (crc \div 32768 + (byte \div 2 ^ (8 - bit))) % 2
                    IN IF top = 1 THEN ((2 * crc) % 65536) ^^ 4129 ELSE (2 * crc) % 65536,
                 0, [bit \in 1 .. 8 |-> bit])]
CRC16(value, crcin) == ((crcin % 256) * 256) ^^ Remainders[HI8(crcin) ^^ value]
Checksum(bytes) == FoldLeft(LAMBDA crc, byte : CRC16(byte, crc), 0, bytes)
Escaped(byte) == IF byte \in {MASK, ESC} THEN <<ESC, byte>> ELSE <<byte>>
CmdFrame(cmd) == <<MASK, Code[cmd], MASK>>
\* The length goes without escapes.
DataFrame(cmd, length, data) ==
    LET crc == Checksum(<<Code[cmd]>> \o length \o data)
    IN <<MASK, Code[cmd]>> \o length \o FlattenSeq([k \in DOMAIN data |-> Escaped(data[k])])
       \o Escaped(HI8(crc)) \o Escaped(LO8(crc)) \o <<MASK>>

-----------------------------------------------------------------------------
(* The state machine of the driver: f holds the variables it changes. *)
Fsm == [state |-> state, reset_rx |-> reset_rx, out |-> out, aborted |-> FALSE]
raw_send_cmd_frame(f, cmd) == [f EXCEPT !.out = Append(@, CmdFrame(cmd))]
raw_send_data_frame(f, cmd, data) ==
    [f EXCEPT !.out = Append(@, DataFrame(cmd, <<HI8(Len(data)), LO8(Len(data))>>, data))]
try_reset(f) == raw_send_cmd_frame([f EXCEPT !.state = "ST_IDLE"], "RESET")

\* Ignored, not queued, until the board is connected.
fsm_send(f, cmd) == IF f.state = "ST_CONNECTED" THEN raw_send_cmd_frame(f, cmd) ELSE f
fsm_send_data(f, cmd, data) == IF f.state = "ST_CONNECTED" THEN raw_send_data_frame(f, cmd, data) ELSE f
flush_shadow(f, lines) == fsm_send_data(fsm_send_data(f, "PRINT1", lines[1]), "PRINT2", lines[2])

\* Mutant: the board is taken to show what it showed before.
X_fsm_step_Bug(f, next) ==
    IF next = "ST_CONNECTED" /\ f.state # next /\ ~f.reset_rx THEN try_reset(f) ELSE [f EXCEPT !.state = next]
\* A connection without a reset of the board before it is started again.
fsm_step(f, next) ==
    IF next # "ST_CONNECTED" \/ f.state = "ST_CONNECTED" THEN [f EXCEPT !.state = next]
    ELSE IF ~f.reset_rx THEN try_reset(f)
    ELSE fsm_send(flush_shadow(fsm_send([f EXCEPT !.state = next], "DISPLAY_ON"), shadow), "BACKLIGHT_ON")

\* What the driver answers a command with, and the state it goes to then.
Answered(connected, cmd) ==
    IF connected
    THEN CASE cmd = Code.ACK -> <<"CONFIRM", "ST_CONNECTED">>
           [] cmd = Code.CONNECT -> <<"NACK", "ST_CONNECTED">>
           [] cmd = Code.DISCONNECT -> <<"ACK", "ST_CONNECTED">>
           [] cmd = Code.RESET -> <<"CONNECT", "ST_IDLE">>
           [] OTHER -> <<"nothing", "ST_CONNECTED">>
    ELSE CASE cmd = Code.CONNECT -> <<"ACK", "ST_COMMAND">>
           [] cmd = Code.ACK -> <<"CONFIRM", "ST_CONNECTED">>
           [] cmd = Code.NACK -> <<"CONFIRM", "ST_IDLE">>
           [] cmd = Code.CONFIRM -> <<"nothing", "ST_CONNECTED">>
           [] cmd = Code.RESET -> <<"CONNECT", "ST_COMMAND">>
           [] OTHER -> <<"NACK", "ST_IDLE">>
Transit(f, answer) ==
    fsm_step(IF answer[1] = "nothing" THEN f ELSE raw_send_cmd_frame(f, answer[1]), answer[2])

\* Mutant: a board that starts anew while it is connected is not asked to connect.
X_fsm_handle_cmd_Bug(f, cmd) ==
    IF f.state = "ST_CONNECTED" /\ cmd = Code.RESET THEN [f EXCEPT !.reset_rx = TRUE]
    ELSE Transit([f EXCEPT !.reset_rx = @ \/ cmd = Code.RESET], Answered(f.state = "ST_CONNECTED", cmd))
fsm_handle_cmd(f, cmd) ==
    Transit([f EXCEPT !.reset_rx = @ \/ cmd = Code.RESET], Answered(f.state = "ST_CONNECTED", cmd))
\* A key is noticed and not answered; before the board is connected it is refused.
fsm_handle_datacmd(f, cmd, payload_len) ==
    CASE f.state # "ST_CONNECTED" -> Transit(f, <<"NACK", f.state>>)
      [] f.state = "ST_CONNECTED" /\ cmd = Code.WRITE /\ payload_len # 1 -> [f EXCEPT !.aborted = TRUE]
      [] OTHER -> f

-----------------------------------------------------------------------------
(* What the driver reads *)
RXBUF == 32
\* A frame with data is complete when a mask follows on the checksum of what stands
\* between.
Complete(cooked) ==
    LET n == Len(cooked)
        crc == Checksum(SubSeq(cooked, 2, n - 3))
    IN cooked[n] = MASK /\ cooked[n - 1] = LO8(crc) /\ cooked[n - 2] = HI8(crc)
\* The escapes are taken out from raw index ri on.  (An escape at the end takes with
\* it the byte behind what was read.)
RECURSIVE Unescape(_, _, _, _)
Unescape(rxbuf, buflen, ri, cooked) ==
    IF ri > buflen THEN [complete |-> FALSE]
    ELSE LET raw == IF rxbuf[ri] = ESC THEN ri + 1 ELSE ri
             next == Append(cooked, rxbuf[raw])
         IN IF Complete(next) THEN [complete |-> TRUE, raw |-> raw, cooked |-> next]
            ELSE Unescape(rxbuf, buflen, raw + 1, next)

\* buflen bytes of rxbuf.  Garbage is dropped, and so is a frame that is not
\* complete: the NACK for it is prepared but never sent.  What follows a frame with
\* data is taken for one byte longer than it is.
RECURSIVE fsm_handle_bytes(_, _, _)
fsm_handle_bytes(f, rxbuf, buflen) ==
    LET From(n) == SubSeq(rxbuf, n, Len(rxbuf))
        data == Unescape(rxbuf, buflen, 2, <<rxbuf[1]>>)
        payload_len == data.cooked[4] * 256 + data.cooked[3]
        handled == fsm_handle_datacmd(f, data.cooked[2], payload_len)
    IN CASE buflen >= 3 /\ rxbuf[1] = MASK /\ rxbuf[3] = MASK ->
              LET g == fsm_handle_cmd(f, rxbuf[2])
              IN IF buflen > 3 THEN fsm_handle_bytes(g, From(4), buflen - 3) ELSE g
         [] buflen > 3 /\ rxbuf[1] = MASK /\ rxbuf[3] # MASK ->
              CASE ~data.complete -> f
                [] data.complete /\ Len(data.cooked) # 7 + payload_len -> [f EXCEPT !.aborted = TRUE]
                [] OTHER -> IF ~handled.aborted /\ data.raw < buflen
                            THEN fsm_handle_bytes(handled, From(data.raw + 1), buflen - data.raw + 1)
                            ELSE handled
         [] OTHER -> f

\* Behind what was read stands what earlier reads left in the buffer: nothing, or
\* some part of frames.  It is looked at only after a frame with data.
Leftovers(bytes) ==
    IF Code.WRITE \notin ToSet(bytes) THEN {<<>>}
    ELSE {[n \in 1 .. MaxTroubles |-> 0]} \cup
         {SubSeq(CmdFrame(cmd) \o CmdFrame(cmd), n, n + MaxTroubles - 1) : cmd \in {"ACK", "RESET"}, n \in 1 .. 3}

\* The line: k frames as a whole and c bytes of the next.  What is cut there comes
\* with the next read.
Bytes(k, c) == FlattenSeq(SubSeq(in, 1, k)) \o (IF c = 0 THEN <<>> ELSE SubSeq(in[k + 1], 1, c))
Unread(k, c) ==
    IF c = 0 THEN SubSeq(in, k + 1, Len(in))
    ELSE <<SubSeq(in[k + 1], c + 1, Len(in[k + 1]))>> \o SubSeq(in, k + 2, Len(in))
Cuts(k) == IF k < Len(in) /\ used.troubles < MaxTroubles THEN 0 .. Len(in[k + 1]) - 1 ELSE {0}
Cut(c) == used' = IF c > 0 THEN [used EXCEPT !.cuts = @ + 1, !.troubles = @ + 1] ELSE used
Spend(what) == used' = [used EXCEPT ![what] = @ + 1]

\* Old bytes are thrown away once; connecting is left to a timer.
drv_TeakLCM_start ==
    /\ phase = "off"
    /\ phase' = "waiting" /\ shadow' = Blank
    /\ \E k \in 0 .. Len(in) : \E c \in Cuts(k) :
        /\ Len(Bytes(k, c)) <= RXBUF
        /\ in' = Unread(k, c) /\ Cut(c)
    /\ UNCHANGED <<state, reset_rx, out, board>>

initial_connect_to_display_callback ==
    /\ phase = "waiting"
    /\ phase' = "running"
    /\ \E f \in {try_reset(Fsm)} : state' = f.state /\ out' = f.out
    /\ UNCHANGED <<reset_rx, shadow, in, board, used>>

lcm_event_callback ==
    /\ phase = "running"
    /\ \E k \in 0 .. Len(in) : \E c \in Cuts(k) :
        /\ \E bytes \in {Bytes(k, c)} :
            /\ Len(bytes) \in 1 .. RXBUF
            /\ \E left \in Leftovers(bytes) :
               \E f \in {fsm_handle_bytes(Fsm, bytes \o left, Len(bytes))} :
                /\ state' = f.state /\ reset_rx' = f.reset_rx /\ out' = f.out
                /\ phase' = IF f.aborted THEN "aborted" ELSE phase
        /\ in' = Unread(k, c) /\ Cut(c)
    /\ UNCHANGED <<shadow, board>>

\* The whole row goes to the board.
drv_TeakLCM_write(row, col, data) ==
    /\ phase \in {"waiting", "running"} /\ used.writes < MaxWrites
    /\ col + Len(data) - 1 <= DCOLS
    /\ shadow' = [shadow EXCEPT ![row] =
                [k \in Columns |-> IF k \in col .. col + Len(data) - 1 THEN data[k - col + 1] ELSE @[k]]]
    /\ out' = fsm_send_data(Fsm, IF row = 1 THEN "PRINT1" ELSE "PRINT2", shadow'[row]).out
    /\ Spend("writes")
    /\ UNCHANGED <<phase, state, reset_rx, in, board>>
Write == \E row \in Rows, col \in Columns : \E data \in BoundedSeq(Characters, DCOLS) \ {<<>>} :
            drv_TeakLCM_write(row, col, data)

drv_TeakLCM_clear(f) == flush_shadow(f, Blank)
\* A board that is connected is cleared, switched off and disconnected.
drv_TeakLCM_quit ==
    /\ phase \in {"waiting", "running"}
    /\ phase' = IF phase = "waiting" THEN "gone" ELSE "ended"
    /\ shadow' = Blank
    /\ out' = FoldLeft(fsm_send, drv_TeakLCM_clear(Fsm), <<"DISPLAY_OFF", "DISCONNECT">>).out
    /\ UNCHANGED <<state, reset_rx, in, board, used>>

\* The program dies and is started again; the board does not notice.
Crash ==
    /\ phase \in {"waiting", "running"} /\ used.troubles < MaxTroubles
    /\ phase' = "off" /\ state' = "ST_IDLE" /\ reset_rx' = FALSE
    /\ Spend("troubles")
    /\ UNCHANGED <<shadow, out, in, board>>

-----------------------------------------------------------------------------
(* The board.  It answers as the driver expects it to: each command with an
   acknowledgement, and nothing is obeyed before the connection is confirmed. *)
BoardOff == [mode |-> "off", lines |-> Blank, display |-> FALSE, light |-> FALSE]
Silent == {Code.ACK, Code.NACK, Code.CONFIRM}
\* A frame without its masks and escapes.
RECURSIVE Plain(_)
Plain(bytes) ==
    CASE bytes = <<>> -> <<>>
      [] bytes # <<>> /\ bytes[1] = ESC /\ Len(bytes) > 1 -> <<bytes[2]>> \o Plain(SubSeq(bytes, 3, Len(bytes)))
      [] OTHER -> <<bytes[1]>> \o Plain(Tail(bytes))
\* A row counts only with its length and its checksum.
Row(plain) == SubSeq(plain, 4, Len(plain) - 2)
Intact(plain) ==
    /\ Len(plain) = 5 + DCOLS /\ plain[2] * 256 + plain[3] = DCOLS
    /\ Checksum(SubSeq(plain, 1, Len(plain) - 2)) = plain[Len(plain) - 1] * 256 + plain[Len(plain)]
Obeyed(plain) ==
    CASE plain = <<Code.DISPLAY_ON>> -> [board EXCEPT !.display = TRUE]
      [] plain = <<Code.DISPLAY_OFF>> -> [board EXCEPT !.display = FALSE]
      [] plain = <<Code.BACKLIGHT_ON>> -> [board EXCEPT !.light = TRUE]
      [] plain[1] = Code.PRINT1 /\ Intact(plain) -> [board EXCEPT !.lines[1] = Row(plain)]
      [] plain[1] = Code.PRINT2 /\ Intact(plain) -> [board EXCEPT !.lines[2] = Row(plain)]
      [] plain = <<Code.DISCONNECT>> -> [board EXCEPT !.mode = "off"]
      [] OTHER -> board
\* The board after a frame, and its answer.
Heard(plain) ==
    CASE plain[1] = Code.RESET -> <<BoardOff, <<CmdFrame("RESET")>>>>
      [] plain[1] \in Silent ->
            <<IF plain[1] = Code.CONFIRM /\ board.mode = "asked" THEN [board EXCEPT !.mode = "on"] ELSE board, <<>>>>
      [] plain[1] = Code.CONNECT ->
            IF board.mode = "on" THEN <<board, <<CmdFrame("NACK")>>>>
            ELSE <<[board EXCEPT !.mode = "asked"], <<CmdFrame("ACK")>>>>
      [] OTHER -> IF board.mode = "on" THEN <<Obeyed(plain), <<CmdFrame("ACK")>>>> ELSE <<board, <<CmdFrame("NACK")>>>>
BoardHears ==
    /\ out # <<>>
    /\ out' = Tail(out)
    /\ \E heard \in {Heard(Plain(SubSeq(out[1], 2, Len(out[1]) - 1)))} :
        board' = heard[1] /\ in' = in \o heard[2]
    /\ UNCHANGED <<phase, state, reset_rx, shadow, used>>
BoardRestarts ==
    /\ used.troubles < MaxTroubles
    /\ board' = BoardOff /\ in' = Append(in, CmdFrame("RESET"))
    /\ Spend("troubles")
    /\ UNCHANGED <<phase, state, reset_rx, shadow, out>>
\* The length with the low byte first, as the driver reads it.
KeyPressed ==
    /\ board.mode = "on" /\ used.troubles < MaxTroubles
    /\ \E key \in Keys : in' = Append(in, DataFrame("WRITE", <<1, 0>>, <<key>>))
    /\ Spend("troubles")
    /\ UNCHANGED <<phase, state, reset_rx, shadow, out, board>>

-----------------------------------------------------------------------------
Init ==
    /\ phase = "off" /\ state = "ST_IDLE" /\ reset_rx = FALSE /\ shadow = Blank
    /\ out = <<>> /\ in = <<>> /\ board = BoardOff
    /\ used = [writes |-> 0, troubles |-> 0, cuts |-> 0]
Driver == drv_TeakLCM_start \/ initial_connect_to_display_callback \/ lcm_event_callback \/ Write \/ drv_TeakLCM_quit
Environment == Crash \/ BoardHears \/ BoardRestarts \/ KeyPressed
Next == Driver \/ Environment
\* The main loop serves its timers and its events, and the board answers: weak
\* fairness of what takes bytes off the line, with what enables it put in words that
\* are cheap to evaluate.
Reads == phase = "running" /\ Len(FlattenSeq(in')) < Len(FlattenSeq(in))
Answers == out # <<>> /\ out' = Tail(out)
Spec == Init /\ [][Next]_vars
        /\ WF_vars(drv_TeakLCM_start) /\ WF_vars(initial_connect_to_display_callback)
        /\ ([]<>(phase # "running" \/ in = <<>>) \/ []<><<Reads>>_vars)
        /\ ([]<>(out = <<>>) \/ []<><<Answers>>_vars)

-----------------------------------------------------------------------------
TeakTypeOK ==
    /\ phase \in {"off", "waiting", "running", "ended", "gone"}
    /\ state \in {"ST_IDLE", "ST_COMMAND", "ST_CONNECTED"}
    /\ reset_rx \in BOOLEAN
    /\ \A lines \in {shadow, board.lines} : lines \in [Rows -> [Columns -> Characters \cup {Space}]]
    /\ board.mode \in {"off", "asked", "on"}

Quiet == in = <<>> /\ out = <<>>
Served == board.mode = "on" /\ board.lines = shadow /\ board.display /\ board.light

\* As long as no frame is cut, a driver that takes the board for connected is
\* right, and the board shows all that was written, also before it was connected
\* and while it started anew; and a driver that ends leaves a display that is
\* empty, dark and disconnected.  No assertion on the length of a frame fails, cut or
\* not.
ShadowShown ==
    /\ TeakTypeOK
    /\ used.cuts = 0 /\ Quiet =>
        /\ phase = "running" /\ state = "ST_CONNECTED" => Served
        /\ phase = "ended" => board.mode # "on" /\ board.lines = Blank /\ ~board.display

\* A driver that has just started, or a board that has, ends up connected with the
\* text shown, though frames were cut before, unless the program ends or dies first;
\* it cannot be promised when one is cut afterwards, because nothing is sent again.
Reconnects ==
    \A n \in 0 .. MaxTroubles :
        used.cuts = n /\ \/ phase = "waiting" /\ Quiet
                         \/ phase = "running" /\ out = <<>> /\ in = <<CmdFrame("RESET")>>
            ~> Served \/ used.cuts > n \/ phase \in {"off", "ended", "gone"}
=============================================================================
