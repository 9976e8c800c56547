---------------------------- MODULE MCPlugins ----------------------------
(* The plugins that keep more than a value, one of them observed at a time: those
   on tables, and those that ask a music server, a modem or a server for
   departures.  They share nothing but the program that evaluates them. *)
EXTENDS ProcFiles

CONSTANTS
    Songs, NoSong, Flags, Step, Loudest, waittime, ERROR_DISPLAY, MaxChanges,   \* Mpd
    Calls, Rssi, Modes, Operators, Times, Bytes, NameSize, MaxWire,             \* Huawei
    MAX_LINES, Sizes, MaxPages                                                  \* Kvv

VARIABLES
    observed,   \* what is observed: "tables" or one of the three
    server, pw, conn, errorcnt, copy, age, since, setback, evaluated, crashed, changes,
    calls, present, well, fd, connected, configured, wire, call, val, given, lost,
    at, request, response, initialized, shm, mutex, client, scan, page

M == INSTANCE Mpd
H == INSTANCE Huawei
K == INSTANCE Kvv

MCKeys == <<"user", "idle">>
MCFold(k) == k
MCSongs == {[uri |-> "b.ogg", artist |-> "", albumartist |-> "B", title |-> "b", album |-> ""]}
MCOperators == {<<"a", "b">>, <<"c">>}
MCCalls == {{<<"quality", "%">>, <<"manuf", "">>}, {<<"mode", "text">>}, {<<"operator", "">>},
            {<<"flowreport", "tx_rate">>}}

Functions == {"quality", "mode", "manuf", "model", "fwver", "operator", "flowreport"}
ASSUME MpdAssumption == waittime \in Nat
\* Flows are counted anew every two seconds; a name and its end fit into the variable.
ASSUME HuaweiAssumption ==
    /\ \A cs \in Calls : \A c \in cs : c[1] \in Functions
    /\ Rssi \subseteq Nat /\ Times \subseteq Nat /\ Bytes \subseteq Nat
    /\ \A s, t \in Times : s < t => s + 2 <= t
    /\ NameSize \in Nat \ {0}
    /\ \A name \in Operators : name \in Seq(STRING \ {""}) /\ Len(name) + 1 < NameSize
ASSUME KvvAssumption == MAX_LINES \in Nat \ {0} /\ Sizes \subseteq Nat /\ MaxPages \in Nat

mpdVars == <<server, pw, conn, errorcnt, copy, age, since, setback, evaluated, crashed, changes>>
huaweiVars == <<calls, present, well, fd, connected, configured, wire, call, val, given, lost>>
kvvVars == <<at, request, response, initialized, shm, mutex, client, scan, page>>
allVars == <<observed, vars, mpdVars, huaweiVars, kvvVars>>

\* What is not observed stays in one of its initial states.
AllInit ==
    /\ observed \in {"tables", "mpd", "huawei", "kvv"}
    /\ Init /\ M!Init /\ H!Init /\ K!Init
    /\ observed # "tables" => plugin = "uptime" /\ readable
    /\ observed # "mpd" => ~server.up /\ ~server.grants /\ ~pw
    /\ observed # "huawei" => ~present /\ ~well /\ <<"mode", "text">> \in calls

Tables(A) == observed = "tables" /\ A /\ UNCHANGED <<observed, mpdVars, huaweiVars, kvvVars>>
OfMpd(A) == observed = "mpd" /\ A /\ UNCHANGED <<observed, vars, huaweiVars, kvvVars>>
OfHuawei(A) == observed = "huawei" /\ A /\ UNCHANGED <<observed, vars, mpdVars, kvvVars>>
OfKvv(A) == observed = "kvv" /\ A /\ UNCHANGED <<observed, vars, mpdVars, huaweiVars>>

AllNext == Tables(Next) \/ OfMpd(M!Next) \/ OfHuawei(H!Next) \/ OfKvv(K!Next)

\* The fairness of the four specifications: only actions of one of them are ever enabled.
AllSpec ==
    /\ AllInit /\ [][AllNext]_allVars
    /\ WF_allVars(OfMpd(M!Evaluate) \/ OfHuawei(H!Work) \/ OfKvv(K!Client))
    /\ WF_allVars(OfMpd(M!Tick))
    /\ SF_allVars(OfHuawei(H!Asks) \/ OfKvv(K!Program))

\* What each of the three answers is what it was told: see their modules.
ServersAnswer == M!Fresh /\ M!SongAndTimes /\ H!InStep /\ H!OwnData /\ H!Gone /\ K!WholePages

\* Whatever fails, each of them serves again: see their modules.
ServersServe == M!Reconnects /\ H!Initialised /\ K!Returns
==========================================================================
