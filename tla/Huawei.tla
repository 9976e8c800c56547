------------------------------ MODULE Huawei ------------------------------
(* plugin_huawei.c: functions huawei::... ask a modem at a serial port and
   answer from variables.  A command is answered by lines - echo, data, OK or
   ERROR - of which three are received per command; a line that comes too late
   is the first that is received after the next command.  The modem is plugged
   and unplugged at any time.  Of the numbers of an answer the model keeps those
   that are shown; received bytes are handled like those transmitted. *)
EXTENDS Integers, Sequences, FiniteSetsExt

CONSTANTS
    Calls,      \* sets of functions with their arguments that are evaluated together
    Rssi, Modes, Operators, Times, Bytes, \* what the modem may report
    NameSize,   \* characters of the variable "operator"
    MaxWire     \* bound: while more lines are unread, none is late

VARIABLES
    calls,      \* the set that is evaluated
    present,    \* the device file is there
    well,       \* the modem answers every command, at once
    fd,         \* "none", "open", "stale": open to a modem that is gone
    connected,  \* -1, 0, 1
    configured,
    wire,       \* lines of the modem that are not yet received
    call,       \* where the program is
    val,        \* the static variables that are shown
    given,      \* what the modem has reported since it was opened
    lost        \* since then a line came late, in pieces or not at all

vars == <<calls, present, well, fd, connected, configured, wire, call, val, given, lost>>

Idle == [at |-> "idle"]
NoFlow == [time |-> 0, tx |-> 0]
Nothing == [rssi |-> -1, mode |-> -1, named |-> FALSE, operator |-> <<>>,
            flows |-> 0, flow |-> NoFlow, before |-> NoFlow]

INIT_STRING == "init"
Command(fn) ==
    CASE fn = "quality" -> "+CSQ" [] fn = "mode" -> "^SYSINFO" [] fn = "manuf" -> "+GMI"
      [] fn = "model" -> "+GMM" [] fn = "fwver" -> "+CGMR" [] fn = "operator" -> "+COPS?"
      [] fn = "flowreport" -> "^DSFLOWQRY"

----------------------------------------------------------------------------
\* The modem echoes a command and answers or refuses it, or is silent.
Line(kind, cmd, v) == [kind |-> kind, of |-> cmd, value |-> v]
OK == Line("OK", "", <<>>)
ERROR == Line("ERROR", "", <<>>)
Empty == Line("", "", <<>>)
Garbage == Line("garbage", "", <<>>)

\* Flows grow with the time; they are counted anew every two seconds.
Flows == {f \in [time : Times, tx : Bytes] :
            f = given.flow \/ (f.time > given.flow.time /\ f.tx >= given.flow.tx)}
Reports(cmd) ==
    CASE cmd = "+CSQ" -> Rssi [] cmd = "^SYSINFO" -> Modes [] cmd = "+COPS?" -> Operators
      [] cmd = "^DSFLOWQRY" -> Flows [] OTHER -> {cmd}
Answers(cmd) ==
    LET good == IF cmd = INIT_STRING THEN {<<OK>>} ELSE {<<Line("data", cmd, <<v>>), OK>> : v \in Reports(cmd)}
    IN {<<Line("echo", cmd, <<>>)>> \o lines : lines \in good \union IF well THEN {} ELSE {<<ERROR>>}}
       \union IF well THEN {} ELSE {<<>>}

\* What has been reported after the answer "lines"; INIT_STRING clears the flows.
Reported(lines) ==
    IF Len(lines) < 2 \/ ERROR \in {lines[i] : i \in DOMAIN lines} THEN given
    ELSE LET v == lines[2].value[1]
         IN CASE lines[1].of = "+CSQ" -> [given EXCEPT !.rssi = v]
              [] lines[1].of = "^SYSINFO" -> [given EXCEPT !.mode = v]
              [] lines[1].of = "+COPS?" -> [given EXCEPT !.operator = v, !.named = TRUE]
              [] lines[1].of = "^DSFLOWQRY" ->
                   IF given.flows > 0 /\ v = given.flow THEN given
                   ELSE [given EXCEPT !.before = given.flow, !.flow = v, !.flows = Min({@ + 1, 2})]
              [] lines[1].of = INIT_STRING -> [given EXCEPT !.flows = 0, !.flow = NoFlow]
              [] OTHER -> given

----------------------------------------------------------------------------
Cleared_Texts_Bug(v) == [v EXCEPT !.text = [fn \in DOMAIN @ |-> Empty], !.operator[1] = ""]

\* The variables without a modem: mode, the flows before and the name behind its
\* first character stay.
Cleared(v) ==
    [v EXCEPT !.rssi = 0, !.sub_mode = 0, !.flow = NoFlow, !.rate = <<0, 1>>,
              !.text = [fn \in DOMAIN @ |-> Empty], !.operator[1] = ""]

IsData(reply, cmd) == reply.kind = "data" /\ reply.of = cmd

\* The answer to a command is read into the variables: what looks like one to
\* another command is not, but for the three texts, which may be anything.
huawei_read_quality(v, reply) ==
    IF IsData(reply, "+CSQ") THEN [v EXCEPT !.rssi = reply.value[1]] ELSE v
huawei_read_sysinfo(v, reply) ==
    IF IsData(reply, "^SYSINFO") THEN [v EXCEPT !.mode = reply.value[1], !.sub_mode = reply.value[1]] ELSE v
read_text(v, reply, fn) == IF reply \in {Empty, ERROR} THEN v ELSE [v EXCEPT !.text[fn] = reply]

\* The characters between the quotes are copied, and no end behind them.
huawei_read_operator(v, reply) ==
    IF IsData(reply, "+COPS?")
    THEN [v EXCEPT !.operator =
            [i \in DOMAIN @ |-> IF i <= Len(reply.value[1]) THEN reply.value[1][i] ELSE @[i]]]
    ELSE v

\* The rate since the last report, a fraction; another report within two
\* seconds leaves it.
Rate_Kept_Bug(v, f) ==
    IF f.time >= v.prev.time + 2 /\ f.tx > v.prev.tx
    THEN <<f.tx - v.prev.tx, f.time - v.prev.time>> ELSE v.rate
Rate(v, f) ==
    IF f.time >= v.prev.time + 2 /\ f.tx > v.prev.tx
    THEN <<f.tx - v.prev.tx, f.time - v.prev.time>>
    ELSE IF f.time >= v.prev.time + 2 /\ f.tx = v.prev.tx THEN <<0, 1>> ELSE v.rate
huawei_read_flowreport(v, reply) ==
    IF IsData(reply, "^DSFLOWQRY")
    THEN [v EXCEPT !.flow = reply.value[1], !.rate = Rate(v, reply.value[1]), !.prev = reply.value[1]]
    ELSE v

Read(v, fn, reply) ==
    CASE fn = "quality" -> huawei_read_quality(v, reply)
      [] fn = "mode" -> huawei_read_sysinfo(v, reply)
      [] fn = "operator" -> huawei_read_operator(v, reply)
      [] fn = "flowreport" -> huawei_read_flowreport(v, reply)
      [] OTHER -> read_text(v, reply, fn)

\* What the functions answer.  A signal that is not known (99) leaves the value
\* that was answered last, whatever its unit.
my_quality(v, arg) ==
    CASE arg \notin {"%", "dbm", "rssi"} -> <<0>>
      [] v.rssi > 31 /\ arg \in {"%", "dbm", "rssi"} -> v.value
      [] OTHER -> <<CASE arg = "%" -> (v.rssi * 100) \div 31
                      [] arg = "dbm" -> 2 * v.rssi - 113
                      [] OTHER -> v.rssi>>
my_mode(v, arg) ==
    <<CASE arg = "text" -> Min({v.sub_mode, 8}) [] arg = "number" -> v.mode [] OTHER -> 0>>
my_operator(v) == SubSeq(v.operator, 1, Min({i \in DOMAIN v.operator : v.operator[i] = ""}) - 1)

\* "uptime_seconds" begins with "uptime", which is looked for first.
my_flowreport(v, arg) ==
    LET t == v.flow.time
    IN CASE arg \in {"uptime", "uptime_seconds"} ->
              <<t \div 86400, (t \div 3600) % 24, (t \div 60) % 60, t % 60>>
         [] arg = "tx_rate" -> v.rate
         [] arg = "total_tx" -> <<v.prev.tx>>   \* like the flow in total, never cleared
         [] OTHER -> <<0>>
Value(v, fn, arg) ==
    CASE fn = "quality" -> my_quality(v, arg) [] fn = "mode" -> my_mode(v, arg)
      [] fn = "operator" -> my_operator(v) [] fn = "flowreport" -> my_flowreport(v, arg)
      [] OTHER -> <<v.text[fn]>>

----------------------------------------------------------------------------
Init ==
    /\ calls \in Calls
    /\ present \in BOOLEAN /\ well \in BOOLEAN
    /\ fd = "none" /\ connected = -1 /\ configured = FALSE
    /\ wire = <<>> /\ call = Idle /\ given = Nothing /\ lost = FALSE
    /\ val = [rssi |-> 0, mode |-> 0, sub_mode |-> 0, flow |-> NoFlow, prev |-> NoFlow,
              rate |-> <<0, 1>>, text |-> [fn \in {"manuf", "model", "fwver"} |-> Empty],
              operator |-> [i \in 1 .. NameSize |-> ""], value |-> <<0>>]

\* The function ends with the variables "v".
Return(v, fn, arg) ==
    /\ call' = Idle
    /\ val' = IF fn = "quality" THEN [v EXCEPT !.value = Value(v, fn, arg)]
              ELSE IF fn = "mode" /\ arg = "text" THEN [v EXCEPT !.sub_mode = Min({@, 8})] ELSE v

Sending(fn, arg, cmd) == call' = [at |-> "send", fn |-> fn, arg |-> arg, cmd |-> cmd]

\* Asked twice within MIN_INTERVAL, a function answers from the variables.
Cached(fn, arg) ==
    /\ call.at = "idle"
    /\ Return(val, fn, arg)
    /\ UNCHANGED <<present, well, fd, connected, configured, wire, given, lost>>

\* huawei_configured(): is the modem there, has it gone, has it come?  A port
\* that cannot be opened is tried again by the next call.
huawei_configure_port_Failed_Bug(opened) ==
    /\ connected' = 1
    /\ IF opened THEN fd' = "open" /\ wire' = <<>> /\ lost' = FALSE /\ given' = Nothing
       ELSE UNCHANGED <<fd, wire, lost, given>>
huawei_configure_port(opened) ==
    IF opened THEN fd' = "open" /\ connected' = 1 /\ wire' = <<>> /\ lost' = FALSE /\ given' = Nothing
    ELSE UNCHANGED <<fd, connected, wire, lost, given>>
Ask(fn, arg) ==
    /\ call.at = "idle"
    /\ IF ~present
       THEN connected' = 0 /\ fd' = "none" /\ given' = Nothing /\ UNCHANGED <<wire, lost>>
       ELSE IF connected # 1
       THEN \E opened \in IF well THEN {TRUE} ELSE BOOLEAN : huawei_configure_port(opened)
       ELSE UNCHANGED <<fd, connected, wire, lost, given>>
    /\ configured' = (configured /\ connected' # 0)
    /\ LET v == IF connected' = 0 THEN Cleared(val) ELSE val
       IN IF configured' THEN Sending(fn, arg, Command(fn)) /\ val' = v
          ELSE IF connected' = 1 THEN Sending(fn, arg, INIT_STRING) /\ val' = v
          ELSE Return(v, fn, arg)
    /\ UNCHANGED <<present, well>>

\* huawei_send(): nothing is received when the command cannot be written.
huawei_send ==
    /\ call.at = "send"
    /\ IF fd = "open"
       THEN /\ \E lines \in Answers(call.cmd) : wire' = wire \o lines /\ given' = Reported(lines)
            /\ call' = [at |-> "receive", fn |-> call.fn, arg |-> call.arg, cmd |-> call.cmd,
                        run |-> 0, recv_seq |-> 0, reply |-> Empty]
       ELSE /\ call' = [at |-> "done", fn |-> call.fn, arg |-> call.arg, cmd |-> call.cmd, reply |-> Empty]
            /\ UNCHANGED <<wire, given>>
    /\ UNCHANGED <<present, well, fd, connected, configured, val, lost>>

Took_AnyEcho_Bug(c, line) ==
    CASE c.recv_seq = 0 /\ line.kind = "echo" -> [c EXCEPT !.recv_seq = 1]
      [] c.recv_seq = 1 /\ c.cmd = INIT_STRING /\ line = OK -> [c EXCEPT !.reply = line, !.recv_seq = 3]
      [] c.recv_seq = 1 /\ line = ERROR -> [c EXCEPT !.reply = line, !.recv_seq = 3]
      [] c.recv_seq = 1 /\ c.cmd # INIT_STRING /\ line \notin {Empty, ERROR} ->
           [c EXCEPT !.reply = line, !.recv_seq = 2]
      [] c.recv_seq = 2 /\ line = OK -> [c EXCEPT !.recv_seq = 3]
      [] OTHER -> c

\* Which of the lines has come: 1 the echo, 2 the data - what follows the echo,
\* be it OK -, 3 the last that is waited for.
Took(c, line) ==
    CASE c.recv_seq = 0 /\ line = Line("echo", c.cmd, <<>>) -> [c EXCEPT !.recv_seq = 1]
      [] c.recv_seq = 1 /\ c.cmd = INIT_STRING /\ line = OK -> [c EXCEPT !.reply = line, !.recv_seq = 3]
      [] c.recv_seq = 1 /\ line = ERROR -> [c EXCEPT !.reply = line, !.recv_seq = 3]
      [] c.recv_seq = 1 /\ c.cmd # INIT_STRING /\ line \notin {Empty, ERROR} ->
           [c EXCEPT !.reply = line, !.recv_seq = 2]
      [] c.recv_seq = 2 /\ line = OK -> [c EXCEPT !.recv_seq = 3]
      [] OTHER -> c
Received_Two_Bug(line) ==
    LET c == [Took(call, line) EXCEPT !.run = @ + 1]
    IN call' = [c EXCEPT !.at = IF c.run = 2 \/ c.recv_seq = 3 THEN "done" ELSE "receive"]
Received(line) ==
    LET c == [Took(call, line) EXCEPT !.run = @ + 1]
    IN call' = [c EXCEPT !.at = IF c.run = 3 \/ c.recv_seq = 3 THEN "done" ELSE "receive"]

\* huawei_receive(): the next line, or none in time.  The character a read that
\* times out leaves is uninitialised, or the last one: it ends an empty line, or
\* fills the buffer until something comes, which then is not a line of the modem.
\* A gap within a line repeats a character: it may still be the line, or one with
\* a digit too many.
Repeated(n) == 10 * n + (n % 10)
Torn(line) ==
    {Garbage, line} \union IF IsData(line, "+CSQ") \/ IsData(line, "^SYSINFO")
                           THEN {[line EXCEPT !.value[1] = Repeated(@)]} ELSE {}
InTime ==
    /\ call.at = "receive" /\ fd = "open" /\ wire # <<>>
    /\ Received(Head(wire))
    /\ wire' = Tail(wire)
    /\ UNCHANGED lost
TimedOut ==
    /\ call.at = "receive"
    /\ fd = "open" /\ wire # <<>> => ~well /\ Len(wire) <= MaxWire
    /\ \E line \in {Empty, Garbage} : Received(line)
    /\ lost' = (lost \/ wire # <<>>)
    /\ UNCHANGED wire
InPieces ==
    /\ call.at = "receive" /\ fd = "open" /\ wire # <<>> /\ ~well
    /\ \E line \in Torn(Head(wire)) : Received(line)
    /\ wire' = Tail(wire) /\ lost' = TRUE
huawei_receive ==
    (InTime \/ TimedOut \/ InPieces)
    /\ UNCHANGED <<present, well, fd, connected, configured, val, given>>

\* The reply is evaluated; after the initialisation the command itself is sent.
Done ==
    /\ call.at = "done"
    /\ IF call.cmd = INIT_STRING
       THEN /\ configured' = (call.reply = OK)
            /\ IF configured' THEN Sending(call.fn, call.arg, Command(call.fn)) /\ UNCHANGED val
               ELSE Return(val, call.fn, call.arg)
       ELSE /\ Return(Read(val, call.fn, call.reply), call.fn, call.arg)
            /\ UNCHANGED configured
    /\ UNCHANGED <<present, well, fd, connected, wire, given, lost>>

\* The modem is pulled out, which the open port does not recover from, or put
\* in; it works well or does not.
Program == <<connected, configured, call, val, given>>
Pull ==
    /\ present
    /\ present' = FALSE
    /\ fd' = IF fd = "open" THEN "stale" ELSE fd
    /\ wire' = <<>> /\ lost' = (lost \/ wire # <<>>)
    /\ UNCHANGED <<Program, well>>
Plug == ~present /\ present' = TRUE /\ UNCHANGED <<Program, well, fd, wire, lost>>
Health == well' = ~well /\ UNCHANGED <<Program, present, fd, wire, lost>>

Asks == (\E c \in calls : Ask(c[1], c[2])) /\ UNCHANGED calls
Work == (huawei_send \/ huawei_receive \/ Done) /\ UNCHANGED calls
Next ==
    \/ Asks
    \/ (\E c \in calls : Cached(c[1], c[2])) /\ UNCHANGED calls
    \/ Work
    \/ (Pull \/ Plug \/ Health) /\ UNCHANGED calls

\* Widgets evaluate the functions again and again, every call returns.
Spec == Init /\ [][Next]_vars /\ SF_vars(Asks) /\ WF_vars(Work)

----------------------------------------------------------------------------
\* With a modem that answers in time, whatever it refuses, every line of an
\* answer is received before the next command, and what is shown is what it
\* reported last - a shorter name may have the end of one before behind it -; the
\* rate is that between its last two reports.
InStep ==
    ~lost /\ call.at = "idle" =>
        /\ wire = <<>>
        /\ given.rssi \in 0 .. 31 => Value(val, "quality", "rssi") = <<given.rssi>>
        /\ given.mode # -1 => Value(val, "mode", "number") = <<given.mode>>
        /\ given.named => SubSeq(Value(val, "operator", ""), 1, Len(given.operator)) = given.operator
        /\ given.flows > 0 => val.flow = given.flow /\ Value(val, "flowreport", "total_tx") = <<given.flow.tx>>
        /\ given.flows = 2 =>
             Value(val, "flowreport", "tx_rate") =
                 IF given.flow.tx = given.before.tx THEN <<0, 1>>
                 ELSE <<given.flow.tx - given.before.tx, given.flow.time - given.before.time>>
        /\ \A fn \in DOMAIN val.text : val.text[fn] \in {Empty, Line("data", Command(fn), <<Command(fn)>>)}

\* Whatever comes late or in pieces: the answer to one command is never taken
\* for that to another.
OwnData ==
    /\ val.rssi \in {0} \union Rssi \union {Repeated(n) : n \in Rssi}
    /\ \A fn \in DOMAIN val.text :
         val.text[fn].kind \in {"", "garbage"} \/ IsData(val.text[fn], Command(fn))

\* A modem that is gone leaves no values behind (all but mode).
Gone ==
    connected = 0 /\ call.at = "idle" =>
        val.rssi = 0 /\ val.sub_mode = 0 /\ val.flow = NoFlow /\ val.rate = <<0, 1>>
        /\ my_operator(val) = <<>> /\ \A fn \in DOMAIN val.text : val.text[fn] = Empty

\* A modem that is there and answers is initialised, whatever answers came late
\* before; but one that was changed between two calls is never opened again.
Initialised ==
    <>[](present /\ well) => <>[](configured \/ fd = "stale")
=============================================================================
