------------------------------- MODULE Mpd -------------------------------
(* plugin_mpd.c: the functions mpd::... ask a music server for its status, at
   most once in a while, and answer from copies; key presses send it commands.
   The server comes and goes, closes connections, and has other clients.  A tick
   is a part of the waiting time; only the order of an age and the waiting time
   counts.  Texts stay as the server sends them: the name of the character set
   they should be converted to contains characters no set has, so the conversion
   is never opened and charset_from_utf8() returns its argument. *)
EXTENDS Integers, Sequences, FiniteSetsExt

CONSTANTS
    Songs,          \* records [uri, artist, albumartist, title, album], "" for no tag
    NoSong,         \* the NULL of currentSong
    Flags,          \* repeat, random, single, consume
    Step, Loudest,  \* volumes are 0 .. Loudest, -1 without a mixer; keys go by Step
    waittime,       \* ticks between two questions
    ERROR_DISPLAY,  \* failures in a row that are logged
    MaxChanges      \* bound: keys pressed and changes by other clients

VARIABLES
    server,     \* whether the server is there and grants what is asked; its status
    pw,         \* a password is configured
    conn,       \* "none", "good", "broken": the other end is gone, "failed": never was one
    errorcnt,   \* failures in a row, not counted behind ERROR_DISPLAY + 1
    copy,       \* currentSong and the l_... variables
    age,        \* now - timestamp, -1 if it is negative, up to waittime
    since,      \* age of the last change of the status the plugin does not know of
    setback,    \* the clock was set back after the last question
    evaluated,  \* the last step was the evaluation of a function
    crashed,    \* the program used the connection it has not
    changes

vars == <<server, pw, conn, errorcnt, copy, age, since, setback, evaluated, crashed, changes>>

\* What a call of the plugin works on.
plugin == [conn |-> conn, errorcnt |-> errorcnt, copy |-> copy, age |-> age, said |-> FALSE]

----------------------------------------------------------------------------
mpd_printerror(p) == [p EXCEPT !.conn = "none"]

\* One status answers for all: "state" stands for the position, the length of
\* the list and the format of the sound, too; a song that is not there has no times.
Status(c) == [c EXCEPT !.song = server.song, !.times = server.song, !.state = server.state,
                       !.volume = server.volume, !.flags = server.flags]

mpd_query_status_KeepSong_Bug(p, fails) ==
    IF p.conn = "none" THEN p
    ELSE IF fails \in {"queue_commands", "recv_status"} THEN mpd_printerror(p)
    ELSE IF p.copy.song = NoSong THEN [p EXCEPT !.copy = Status(@)]
    ELSE [p EXCEPT !.copy = [Status(@) EXCEPT !.song = p.copy.song]]

\* "fails" is where the connection is lost, "" if it is not.  When the answer
\* ends before the song, the old one is gone, but not its times.
mpd_query_status(p, fails) ==
    LET q == [p EXCEPT !.copy = Status(@)]
    IN IF p.conn = "none" THEN p
       ELSE IF fails \in {"queue_commands", "recv_status"} THEN mpd_printerror(p)
       ELSE IF fails = "response_next" THEN mpd_printerror([p EXCEPT !.copy.song = NoSong])
       ELSE IF fails = "response_finish" THEN mpd_printerror(q) ELSE q

mpd_query_stats(p, fails) ==
    LET q == [p EXCEPT !.copy.stats = server.stats]
    IN IF p.conn = "none" THEN p
       ELSE IF fails \in {"queue_stats", "recv_stats"} THEN mpd_printerror(p)
       ELSE IF fails = "finish_stats" THEN mpd_printerror(q) ELSE q

Failure(p) == [p EXCEPT !.errorcnt = IF @ > ERROR_DISPLAY THEN @ ELSE @ + 1]

\* Behind ERROR_DISPLAY failures the failed connection is kept.
Connect(p, fails) ==
    LET tried == [p EXCEPT !.conn = "failed", !.age = 0]
        told == IF p.errorcnt < ERROR_DISPLAY THEN mpd_printerror(tried) ELSE tried
    IN IF ~server.up THEN Failure(told)
       ELSE IF pw /\ (~server.grants \/ fails = "run_password")
       THEN Failure(mpd_printerror([p EXCEPT !.conn = "good"]))
       ELSE [p EXCEPT !.conn = "good", !.errorcnt = 0]

mpd_update_Kept_Bug(p, fails) ==
    LET c == IF p.conn = "none" THEN Connect(p, fails) ELSE p
    IN IF p.age \in 1 .. waittime - 1 THEN p
       ELSE IF c.conn # "good" THEN [c EXCEPT !.age = 0]
       ELSE [mpd_query_stats(mpd_query_status(c, fails), fails) EXCEPT !.age = 0, !.said = TRUE]

\* What every function begins with.  A connection that failed is not replaced
\* but asked, and freed by the error of the first command; when a password was
\* refused, the next function that is evaluated tries again at once.
mpd_update(p, fails) ==
    LET q == IF p.conn = "failed" /\ p.errorcnt < ERROR_DISPLAY THEN mpd_printerror(p) ELSE p
        c == IF q.conn = "none" THEN Connect(q, fails) ELSE q
    IN IF p.age \in 1 .. waittime - 1 THEN p
       ELSE IF q.conn = "none" /\ c.conn # "good" THEN c
       ELSE [mpd_query_stats(mpd_query_status(c, fails), fails) EXCEPT !.age = 0, !.said = TRUE]

----------------------------------------------------------------------------
\* What a function answers, of a copy or of the status itself.
First(texts) == texts[Min({i \in DOMAIN texts : texts[i] # "" \/ i = Len(texts)})]
Tag(s, tags) == IF s.song = NoSong THEN "" ELSE First([i \in DOMAIN tags |-> s.song[tags[i]]])
StateInt(s) == CASE s.state = "play" -> 1 [] s.state = "pause" -> 2 [] s.state = "stop" -> 3 [] OTHER -> 0
Answers(s) ==
    [artist |-> Tag(s, <<"artist", "albumartist", "uri">>),
     title |-> Tag(s, <<"title">>),
     album |-> Tag(s, <<"album">>),
     file |-> Tag(s, <<"uri">>),
     TimeSec |-> s.times, getStateInt |-> StateInt(s), getVolume |-> s.volume,
     flags |-> s.flags, stats |-> s.stats]

\* Where the connection may be lost in mpd_update(): one that lives, anywhere,
\* when the server ends; without its password a server refuses the status.
Queries == {"queue_commands", "recv_status", "response_next", "response_finish",
            "queue_stats", "recv_stats", "finish_stats"}
Lives == server.up /\ server.grants /\ conn \in {"none", "good"}
Fails ==
    CASE age \in 1 .. waittime - 1 -> {""}
      [] OTHER ->
           CASE conn = "failed" -> {"queue_commands"}
             [] conn = "broken" -> {"queue_commands", "recv_status"}
             [] Lives -> {""} \union Queries
                         \union (IF pw /\ conn = "none" THEN {"run_password"} ELSE {})
             [] OTHER -> {IF server.up /\ ~pw THEN "recv_status" ELSE ""}
After(fails) == [server EXCEPT !.up = @ /\ ~(Lives /\ fails # "")]

\* The end of a call, which leaves the server as "srv".
Leave(p, srv) ==
    /\ conn' = p.conn /\ errorcnt' = p.errorcnt /\ copy' = p.copy /\ age' = p.age
    /\ setback' = (setback /\ ~p.said)
    /\ server' = srv
    /\ UNCHANGED <<pw, crashed>>

\* Any of the functions that answer.
Evaluate ==
    /\ ~crashed
    /\ evaluated' = TRUE
    /\ \E fails \in Fails : Leave(mpd_update(plugin, fails), After(fails))
    /\ UNCHANGED <<since, changes>>

\* A key is pressed: after mpd_update(), which has left "p", the plugin makes its
\* copy "changed" and sends the command, if it knows a song.  "results" is what the
\* command makes of the server, nothing if it answers with an error.
Press(p, fails, changed, results) ==
    LET q == [p EXCEPT !.copy = changed]
        ends == p.conn = "good" /\ results # {}
    IN \/ p.copy.song = NoSong /\ Leave(p, After(fails)) /\ UNCHANGED since
       \/ /\ p.copy.song # NoSong /\ p.conn = "none"
          /\ crashed' = TRUE
          /\ UNCHANGED <<server, pw, conn, errorcnt, copy, age, since, setback>>
       \/ /\ p.copy.song # NoSong /\ p.conn = "good"
          /\ \E srv \in results :
               /\ Leave(q, srv)
               /\ since' = IF srv.song = server.song /\ srv.state = server.state THEN since ELSE 0
       \/ /\ p.copy.song # NoSong /\ p.conn # "none"
          /\ Leave(mpd_printerror(q), [After(fails) EXCEPT !.up = @ /\ ~ends])
          /\ UNCHANGED since

Play(song, state) == [server EXCEPT !.song = song, !.state = IF song = NoSong THEN "stop" ELSE state]
nextSong(p, fails) == Press(p, fails, p.copy, {Play(song, "play") : song \in Songs \union {NoSong}})
prevSong(p, fails) == Press(p, fails, p.copy, {Play(song, "play") : song \in Songs})
stopSong(p, fails) == Press(p, fails, p.copy, {[server EXCEPT !.state = "stop"]})
pauseSong(p, fails) ==
    Press(p, fails, p.copy,
          {[server EXCEPT !.state = IF @ = "stop" THEN "stop"
                                    ELSE IF p.copy.state = "pause" THEN "play" ELSE "pause"]})

\* A server without a mixer cannot set the volume.
set_volume(volume) == IF server.volume < 0 THEN {} ELSE {[server EXCEPT !.volume = volume]}
volUp(p, fails) ==
    LET volume == Min({p.copy.volume + Step, Loudest})
    IN Press(p, fails, [p.copy EXCEPT !.volume = volume], set_volume(volume))
volDown_NoCopy_Bug(p, fails) == Press(p, fails, p.copy, set_volume(Max({p.copy.volume - Step, 0})))
volDown(p, fails) ==
    LET volume == Max({p.copy.volume - Step, 0})
    IN Press(p, fails, [p.copy EXCEPT !.volume = volume], set_volume(volume))

\* toggleRepeat, toggleRandom, toggleSingle, toggleConsume.
Toggle(flag, p, fails) ==
    Press(p, fails, [p.copy EXCEPT !.flags[flag] = ~@],
          {[server EXCEPT !.flags[flag] = ~p.copy.flags[flag]]})

KeyPressed ==
    /\ ~crashed /\ changes < MaxChanges
    /\ changes' = changes + 1
    /\ evaluated' = FALSE
    /\ \E fails \in Fails :
         LET p == mpd_update(plugin, fails)
         IN \/ nextSong(p, fails) \/ prevSong(p, fails) \/ stopSong(p, fails) \/ pauseSong(p, fails)
            \/ volUp(p, fails) \/ volDown(p, fails) \/ \E f \in Flags : Toggle(f, p, fails)

----------------------------------------------------------------------------
\* Other clients change one thing at a time.
Changed ==
    {Play(song, "play") : song \in Songs \union {NoSong}} \union {[server EXCEPT !.volume = -1]}
    \union {[server EXCEPT !.flags[flag] = ~@] : flag \in Flags}
    \union {[server EXCEPT !.stats = 1 - @]}
Rest == <<pw, errorcnt, copy, setback, crashed>>
Other ==
    /\ server.up /\ changes < MaxChanges
    /\ changes' = changes + 1
    /\ server' \in Changed \ {server}
    /\ since' = 0 /\ evaluated' = FALSE
    /\ UNCHANGED <<Rest, conn, age>>

\* The server ends, starts again where it was, maybe with other rights, or
\* closes a connection that was idle for long.
Lost == IF conn = "good" THEN "broken" ELSE conn
ServerEnds ==
    /\ server.up
    /\ server' = [server EXCEPT !.up = FALSE]
    /\ conn' = Lost /\ evaluated' = FALSE
    /\ UNCHANGED <<Rest, age, since, changes>>
ServerStarts ==
    /\ ~server.up
    /\ \E grants \in BOOLEAN : server' = [server EXCEPT !.up = TRUE, !.grants = grants]
    /\ evaluated' = FALSE
    /\ UNCHANGED <<Rest, conn, age, since, changes>>
ServerCloses ==
    /\ conn = "good"
    /\ conn' = Lost /\ evaluated' = FALSE
    /\ UNCHANGED <<Rest, server, age, since, changes>>

\* Time passes; the clock may be set back once between two questions.
Tick ==
    /\ age' \in IF age = -1 THEN {-1, 0} ELSE {Min({age + 1, waittime})}
    /\ since' = Min({since + 1, waittime})
    /\ evaluated' = FALSE
    /\ UNCHANGED <<Rest, server, conn, changes>>
SetBack ==
    /\ ~setback
    /\ setback' = TRUE /\ age' = -1 /\ evaluated' = FALSE
    /\ UNCHANGED <<server, pw, conn, errorcnt, copy, since, crashed, changes>>

Init ==
    /\ server \in [up : BOOLEAN, grants : BOOLEAN, song : Songs, state : {"stop"},
                   volume : {Loudest - 1}, flags : {[f \in Flags |-> FALSE]}, stats : {1}]
    /\ pw \in BOOLEAN
    /\ conn = "none" /\ errorcnt = 0 /\ age = 0 /\ since = 0
    /\ copy = [song |-> NoSong, times |-> NoSong, state |-> "unknown", volume |-> 0,
               flags |-> [f \in Flags |-> FALSE], stats |-> 0]
    /\ setback = FALSE /\ evaluated = FALSE /\ crashed = FALSE
    /\ changes = 0

Next == Evaluate \/ KeyPressed \/ Other \/ ServerEnds \/ ServerStarts \/ ServerCloses \/ Tick \/ SetBack

\* Widgets evaluate again and again, and time passes.
Spec == Init /\ [][Next]_vars /\ WF_vars(Evaluate) /\ WF_vars(Tick)

----------------------------------------------------------------------------
\* What a function answers over a connection is what the server says now, or
\* what it said before a change younger than the waiting time: the copies follow
\* the commands of the plugin itself at once (the getters, volUp, toggle...).
Fresh ==
    evaluated /\ conn = "good" /\ ~setback /\ since = waittime =>
        Answers(copy) = Answers([Status(copy) EXCEPT !.stats = server.stats])

\* Whatever the plugin could not read, it never shows the times of one song
\* with the title of another (mpd_query_status cut short).
SongAndTimes == copy.song # NoSong => copy.times = copy.song

\* A server that is there and grants what is asked is connected to again and
\* again, whatever failed before (mpd_update).
Reconnects ==
    <>[](server.up /\ server.grants) => []<>(conn = "good" \/ crashed)
=============================================================================
