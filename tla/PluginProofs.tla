---------------------------- MODULE PluginProofs ----------------------------
(* For any answers of the music server, the modem and the server of departures:
   what the three plugins show is what they were told, and
   what the plugins on tables tell are the lines of their files.  Of the music server: what
   the copy holds follows from how long ago it was read.  Of the modem: whatever
   comes late, the reply to a command is its own; and as long as every line comes
   in time, how far the answer is tells what is still on the wire.  Of the
   departures: what the client has read of a page while it holds the semaphore
   follows from the cell it has come to.  Of the plugins on tables: every ring of
   slots has the newest lines read of its key, and the table those that have not
   changed since it was read. *)
EXTENDS MCPlugins, Loops, SequenceTheorems, TLAPS

\* The music server: what a copy, the server and a call of the program consist of.
CopyFields == {"song", "times", "state", "volume", "flags", "stats"}
ServerFields == {"up", "grants", "song", "state", "volume", "flags", "stats"}
CallFields == {"conn", "errorcnt", "copy", "age", "said"}
IsCopy(c) == c = [f \in CopyFields |-> c[f]]
IsServer(srv) == srv = [f \in ServerFields |-> srv[f]]
IsCall(p) == p = [f \in CallFields |-> p[f]]

\* A copy says what the server says.
CopyRight(c, srv) ==
    /\ c.song = srv.song /\ c.times = srv.song /\ c.state = srv.state
    /\ c.volume = srv.volume /\ c.flags = srv.flags /\ c.stats = srv.stats

\* While no key was pressed and no error seen since the copy was read, it is right.
MpdShapes ==
    /\ IsCopy(copy) /\ IsServer(server)
    /\ age \in -1 .. waittime /\ since \in 0 .. waittime
    /\ setback \in BOOLEAN
KnownSince == conn = "good" /\ ~setback /\ since > age => CopyRight(copy, server)
MpdInv ==
    /\ MpdShapes /\ M!SongAndTimes /\ KnownSince
    /\ age = -1 => setback

LEMMA MinOfTimes == ASSUME NEW a \in Int, NEW b \in Int PROVE M!Min({a, b}) = IF a <= b THEN a ELSE b
  BY DEF M!Min

\* The functions take nothing but the copy.
LEMMA SameAnswers ==
    ASSUME NEW c, NEW s, c.song = s.song, c.times = s.times, c.state = s.state,
           c.volume = s.volume, c.flags = s.flags, c.stats = s.stats
    PROVE  M!Answers(c) = M!Answers(s)
  <1>1. ASSUME NEW tags PROVE M!Tag(c, tags) = M!Tag(s, tags)
    BY DEF M!Tag
  <1>2. M!StateInt(c) = M!StateInt(s)
    BY DEF M!StateInt
  <1> QED BY <1>1, <1>2 DEF M!Answers

\* What mpd_update() leaves: a copy that is right when the connection is good.
UpdateOK(p, fails) ==
    /\ IsCall(p) /\ IsCopy(p.copy)
    /\ p.said \in BOOLEAN
    /\ p.copy.song # NoSong => p.copy.times = p.copy.song
    /\ p.age \in -1 .. waittime
    /\ p.age = -1 => setback /\ ~p.said
    /\ p.conn = "good" /\ ~(setback /\ ~p.said) /\ since > p.age => CopyRight(p.copy, server)
    /\ p.conn = "good" /\ p.age \notin 1 .. waittime - 1 => CopyRight(p.copy, server)

\* Opening the connection changes neither the copy nor what was said.
LEMMA ConnectKeeps ==
    ASSUME NEW p, IsCall(p), NEW fails
    PROVE  /\ IsCall(M!Connect(p, fails))
           /\ M!Connect(p, fails).copy = p.copy
           /\ M!Connect(p, fails).said = p.said
           /\ M!Connect(p, fails).age \in {0, p.age}
  BY DEF M!Connect, IsCall, M!Failure, M!mpd_printerror, CallFields

\* A query takes over what the server says, or reports an error.
LEMMA QueriesKeep ==
    ASSUME MpdShapes, NEW p, IsCall(p), IsCopy(p.copy), NEW fails,
           p.copy.song # NoSong => p.copy.times = p.copy.song
    PROVE  LET q == M!mpd_query_status(p, fails)
               r == M!mpd_query_stats(q, fails)
           IN /\ IsCall(r) /\ IsCopy(r.copy)
              /\ r.copy.song # NoSong => r.copy.times = r.copy.song
              /\ r.age = p.age /\ r.said = p.said
              /\ r.conn = "good" => CopyRight(r.copy, server)
  <1> DEFINE q == M!mpd_query_status(p, fails)
             r == M!mpd_query_stats(q, fails)
             c == M!Status(p.copy)
  <1>1. /\ IsCopy(c) /\ c.song = server.song /\ c.times = server.song /\ c.state = server.state
        /\ c.volume = server.volume /\ c.flags = server.flags
    BY DEF IsCopy, M!Status, CopyFields
  <1>2. /\ IsCall(q) /\ IsCopy(q.copy)
        /\ q.copy.song # NoSong => q.copy.times = q.copy.song
        /\ q.age = p.age /\ q.said = p.said
        /\ q.conn = "good" => q.copy = c
    <2> HIDE DEF c
    <2> USE <1>1
    <2> DEFINE w == [p EXCEPT !.copy = M!Status(@)]
    <2>1. w = [p EXCEPT !.copy = c]
      BY DEF c
    <2> HIDE DEF w
    <2>2. CASE p.conn = "none" \/ fails \in {"queue_commands", "recv_status"}
      BY <2>2 DEF M!mpd_query_status, M!mpd_printerror, IsCall, CallFields
    <2>3. CASE p.conn # "none" /\ fails = "response_next"
      BY <2>3 DEF M!mpd_query_status, M!mpd_printerror, IsCall, IsCopy, CopyFields, CallFields
    <2>4. CASE p.conn # "none" /\ fails = "response_finish"
      <3>1. q = M!mpd_printerror(w)
        BY <2>4 DEF M!mpd_query_status, w
      <3> QED BY <3>1, <2>1, <2>4 DEF M!mpd_printerror, IsCall, CallFields
    <2>5. CASE /\ p.conn # "none"
               /\ fails \notin {"queue_commands", "recv_status", "response_next", "response_finish"}
      <3>1. q = w
        BY <2>5 DEF M!mpd_query_status, w
      <3> QED BY <3>1, <2>1, <2>5 DEF IsCall, CallFields
    <2> QED BY <2>2, <2>3, <2>4, <2>5
  <1> HIDE DEF q, c
  <1>3. /\ IsCall(r) /\ IsCopy(r.copy)
        /\ r.copy.song # NoSong => r.copy.times = r.copy.song
        /\ r.age = p.age /\ r.said = p.said
        /\ r.conn = "good" => CopyRight(r.copy, server)
    BY <1>1, <1>2 DEF M!mpd_query_stats, M!mpd_printerror, IsCall, IsCopy, CopyRight, CopyFields, CallFields
  <1> QED BY <1>3 DEF q

\* mpd_update(), whatever fails in it.
LEMMA UpdateKeeps ==
    ASSUME MpdInv, NEW fails
    PROVE  UpdateOK(M!mpd_update(M!plugin, fails), fails)
  <1> USE MpdAssumption
  <1> DEFINE p == M!plugin
             q == IF p.conn = "failed" /\ p.errorcnt < ERROR_DISPLAY THEN M!mpd_printerror(p) ELSE p
             c == IF q.conn = "none" THEN M!Connect(q, fails) ELSE q
             r == M!mpd_query_stats(M!mpd_query_status(c, fails), fails)
             u == M!mpd_update(p, fails)
  <1>1. IsCall(p) /\ p.copy = copy /\ p.said = FALSE /\ p.age = age /\ p.conn = conn
    BY DEF IsCall, M!plugin, CallFields
  <1> HIDE DEF p
  <1>2. IsCall(q) /\ q.copy = copy /\ q.said = FALSE /\ q.age = age
    BY <1>1 DEF IsCall, M!mpd_printerror, CallFields
  <1> HIDE DEF q
  <1>3. IsCall(c) /\ c.copy = copy /\ c.said = FALSE /\ c.age \in {0, age}
    BY <1>2, ConnectKeeps
  <1> HIDE DEF c
  <1>4. /\ IsCall(r) /\ IsCopy(r.copy)
        /\ r.copy.song # NoSong => r.copy.times = r.copy.song
        /\ r.conn = "good" => CopyRight(r.copy, server)
    BY <1>3, QueriesKeep DEF MpdInv, MpdShapes, M!SongAndTimes
  <1>5. u = IF p.age \in 1 .. waittime - 1 THEN p
            ELSE IF q.conn = "none" /\ c.conn # "good" THEN c
            ELSE [r EXCEPT !.age = 0, !.said = TRUE]
    BY DEF M!mpd_update, q, c
  <1> HIDE DEF r, u
  <1>9. UpdateOK(u, fails)
    <2>1. CASE p.age \in 1 .. waittime - 1
      BY <1>1, <1>5, <2>1 DEF UpdateOK, MpdInv, MpdShapes, M!SongAndTimes, KnownSince
    <2>2. CASE p.age \notin 1 .. waittime - 1 /\ q.conn = "none" /\ c.conn # "good"
      <3>1. u = c
        BY <1>5, <2>2
      <3>2. c.age \in -1 .. waittime /\ (c.age = -1 => setback)
        BY <1>3 DEF MpdInv, MpdShapes
      <3>3. IsCopy(c.copy) /\ (c.copy.song # NoSong => c.copy.times = c.copy.song)
        BY <1>3 DEF MpdInv, MpdShapes, M!SongAndTimes
      <3> QED BY <1>3, <2>2, <3>1, <3>2, <3>3 DEF UpdateOK
    <2>3. CASE p.age \notin 1 .. waittime - 1 /\ ~(q.conn = "none" /\ c.conn # "good")
      <3>1. u = [r EXCEPT !.age = 0, !.said = TRUE]
        BY <1>5, <2>3
      <3>2. IsCall(u) /\ u.conn = r.conn /\ u.copy = r.copy /\ u.age = 0 /\ u.said \in BOOLEAN /\ u.said
        BY <3>1, <1>4 DEF IsCall, CallFields
      <3>3. CopyRight(u.copy, server) \/ u.conn # "good"
        BY <3>2, <1>4
      <3>4. IsCopy(u.copy) /\ (u.copy.song # NoSong => u.copy.times = u.copy.song)
        BY <3>2, <1>4
      <3>5. u.age \in -1 .. waittime /\ u.age # -1
        BY <3>2
      <3> QED BY <3>2, <3>3, <3>4, <3>5 DEF UpdateOK
    <2> QED BY <2>1, <2>2, <2>3
  <1> QED BY <1>9 DEF u, p

LEMMA AfterKeeps ==
    ASSUME IsServer(server), NEW fails
    PROVE  /\ IsServer(M!After(fails))
           /\ \A c : CopyRight(c, server) => CopyRight(c, M!After(fails))
  BY DEF M!After, IsServer, ServerFields, CopyRight

\* What the call leaves in the variables is what the invariant asks for.
LEMMA DisplayLeft ==
    ASSUME MpdInv, NEW fails, NEW p, UpdateOK(p, fails), M!Leave(p, M!After(fails)), UNCHANGED since
    PROVE  MpdInv'
  <1>1. IsServer(server') /\ (CopyRight(p.copy, server) => CopyRight(p.copy, server'))
    BY AfterKeeps DEF M!Leave, MpdInv, MpdShapes
  <1>2. MpdShapes'
    BY <1>1 DEF M!Leave, UpdateOK, MpdInv, MpdShapes
  <1> QED BY <1>1, <1>2 DEF M!Leave, UpdateOK, MpdInv, M!SongAndTimes, KnownSince

\* A key changes the server and the copy, or only the server.
LEMMA PressKeeps ==
    ASSUME MpdInv, NEW fails, NEW p, UpdateOK(p, fails),
           NEW altered, IsCopy(altered), altered.song = p.copy.song, altered.times = p.copy.times,
           NEW results,
           \A srv \in results :
             /\ IsServer(srv)
             /\ CopyRight(p.copy, server) /\ srv.song = server.song /\ srv.state = server.state
                  => CopyRight(altered, srv),
           M!Press(p, fails, altered, results)
    PROVE  MpdInv'
  <1> USE MpdAssumption
  <1> DEFINE q == [p EXCEPT !.copy = altered]
  <1>1. q.copy = altered /\ q.conn = p.conn /\ q.age = p.age /\ q.said = p.said
    BY DEF UpdateOK, IsCall, CallFields
  <1>2. M!mpd_printerror(q).conn = "none" /\ M!mpd_printerror(q).copy = altered
        /\ M!mpd_printerror(q).age = p.age /\ M!mpd_printerror(q).said = p.said
    BY DEF UpdateOK, IsCall, CallFields, M!mpd_printerror
  <1> HIDE DEF q
  <1>3. CASE p.copy.song = NoSong /\ M!Leave(p, M!After(fails)) /\ UNCHANGED since
    BY <1>3, DisplayLeft
  <1>4. CASE UNCHANGED <<server, pw, conn, errorcnt, copy, age, since, setback>>
    BY <1>4 DEF MpdInv, MpdShapes, M!SongAndTimes, KnownSince
  <1>5. ASSUME p.conn = "good",
               NEW srv \in results, M!Leave(q, srv),
               since' = IF srv.song = server.song /\ srv.state = server.state THEN since ELSE 0
        PROVE  MpdInv'
    <2>1. MpdShapes'
      BY <1>1, <1>5 DEF M!Leave, UpdateOK, MpdInv, MpdShapes
    <2>2. M!SongAndTimes'
      BY <1>1, <1>5 DEF M!Leave, UpdateOK, M!SongAndTimes
    <2>3. age' = -1 => setback'
      BY <1>1, <1>5 DEF M!Leave, UpdateOK
    <2>4. KnownSince'
      <3> SUFFICES ASSUME conn' = "good", ~setback', since' > age' PROVE CopyRight(copy', server')
        BY DEF KnownSince
      <3>1. srv.song = server.song /\ srv.state = server.state /\ since > p.age
        BY <1>1, <1>5, <2>3 DEF M!Leave, UpdateOK
      <3>2. CopyRight(p.copy, server)
        BY <1>1, <1>5, <3>1 DEF M!Leave, UpdateOK
      <3> QED BY <1>1, <1>5, <3>1, <3>2 DEF M!Leave
    <2> QED BY <2>1, <2>2, <2>3, <2>4 DEF MpdInv
  <1>6. ASSUME NEW srv, IsServer(srv), M!Leave(M!mpd_printerror(q), srv), UNCHANGED since
        PROVE  MpdInv'
    BY <1>2, <1>6 DEF M!Leave, UpdateOK, MpdInv, MpdShapes, M!SongAndTimes, KnownSince
  <1>7. \A b : IsServer([M!After(fails) EXCEPT !.up = @ /\ b])
    BY AfterKeeps DEF MpdInv, MpdShapes, IsServer, ServerFields
  <1> QED BY <1>3, <1>4, <1>5, <1>6, <1>7 DEF M!Press, q

\* Every key: next, previous, stop, pause, volume and the flags.
LEMMA KeyKeeps ==
    ASSUME MpdInv, M!KeyPressed
    PROVE  MpdInv'
  <1> PICK fails \in M!Fails :
        LET p == M!mpd_update(M!plugin, fails)
        IN \/ M!nextSong(p, fails) \/ M!prevSong(p, fails) \/ M!stopSong(p, fails) \/ M!pauseSong(p, fails)
           \/ M!volUp(p, fails) \/ M!volDown(p, fails) \/ \E f \in Flags : M!Toggle(f, p, fails)
    BY DEF M!KeyPressed
  <1> DEFINE p == M!mpd_update(M!plugin, fails)
  <1>1. UpdateOK(p, fails)
    BY UpdateKeeps
  <1> HIDE DEF p
  <1>2. IsCopy(p.copy) /\ IsServer(server)
    BY <1>1 DEF UpdateOK, MpdInv, MpdShapes
  <1>4. CASE M!nextSong(p, fails) \/ M!prevSong(p, fails)
    <2>1. PICK results : /\ M!Press(p, fails, p.copy, results)
                         /\ \A srv \in results : \E song, st : srv = M!Play(song, st)
      BY <1>4 DEF M!nextSong, M!prevSong
    <2>2. ASSUME NEW srv \in results
          PROVE  /\ IsServer(srv)
                 /\ CopyRight(p.copy, server) /\ srv.song = server.song /\ srv.state = server.state
                      => CopyRight(p.copy, srv)
      <3>1. PICK song, st : srv = M!Play(song, st)
        BY <2>1
      <3> DEFINE played == M!Play(song, st)
      <3>2. /\ IsServer(played)
            /\ CopyRight(p.copy, server) /\ played.song = server.song /\ played.state = server.state
                 => CopyRight(p.copy, played)
        BY <1>2 DEF M!Play, IsServer, ServerFields, CopyRight
      <3> QED BY <3>1, <3>2, Zenon
    <2> QED BY <1>1, <1>2, <2>1, <2>2, PressKeeps
  <1>5. CASE M!stopSong(p, fails) \/ M!pauseSong(p, fails)
    <2>1. PICK st : M!Press(p, fails, p.copy, {[server EXCEPT !.state = st]})
      BY <1>5 DEF M!stopSong, M!pauseSong
    <2> DEFINE srv == [server EXCEPT !.state = st]
    <2>2. IsServer(srv) /\ (CopyRight(p.copy, server) /\ srv.state = server.state => CopyRight(p.copy, srv))
      BY <1>2 DEF IsServer, ServerFields, CopyRight
    <2> HIDE DEF srv
    <2>3. M!Press(p, fails, p.copy, {srv})
      BY <2>1 DEF srv
    <2> QED BY <1>1, <1>2, <2>2, <2>3, PressKeeps
  <1>6. CASE M!volUp(p, fails) \/ M!volDown(p, fails)
    <2>1. PICK volume : M!Press(p, fails, [p.copy EXCEPT !.volume = volume], M!set_volume(volume))
      BY <1>6 DEF M!volUp, M!volDown
    <2> DEFINE altered == [p.copy EXCEPT !.volume = volume]
    <2>2. IsCopy(altered) /\ altered.song = p.copy.song /\ altered.times = p.copy.times
      BY <1>2 DEF IsCopy, CopyFields
    <2>3. ASSUME NEW srv \in M!set_volume(volume)
          PROVE  IsServer(srv) /\ (CopyRight(p.copy, server) => CopyRight(altered, srv))
      <3>1. srv = [server EXCEPT !.volume = volume]
        BY DEF M!set_volume
      <3> QED BY <1>2, <3>1 DEF IsServer, IsCopy, ServerFields, CopyFields, CopyRight
    <2> QED BY <1>1, <2>1, <2>2, <2>3, PressKeeps
  <1>7. ASSUME NEW flag \in Flags, M!Toggle(flag, p, fails)
        PROVE  MpdInv'
    <2> DEFINE altered == [p.copy EXCEPT !.flags[flag] = ~@]
               srv == [server EXCEPT !.flags[flag] = ~p.copy.flags[flag]]
    <2>1. M!Press(p, fails, altered, {srv})
      BY <1>7 DEF M!Toggle
    <2>2. IsCopy(altered) /\ altered.song = p.copy.song /\ altered.times = p.copy.times
      BY <1>2 DEF IsCopy, CopyFields
    <2>3. IsServer(srv) /\ (CopyRight(p.copy, server) => CopyRight(altered, srv))
      BY <1>2 DEF IsServer, IsCopy, ServerFields, CopyFields, CopyRight
    <2> HIDE DEF altered, srv
    <2> QED BY <1>1, <2>1, <2>2, <2>3, PressKeeps
  <1> QED BY <1>4, <1>5, <1>6, <1>7 DEF p

\* An evaluation ends with an answer that is right, or the copy is not yet old.
LEMMA MpdEvaluates ==
    ASSUME MpdInv, M!Evaluate
    PROVE  MpdInv' /\ M!Fresh'
  <1> PICK fails \in M!Fails : M!Leave(M!mpd_update(M!plugin, fails), M!After(fails))
    BY DEF M!Evaluate
  <1> DEFINE p == M!mpd_update(M!plugin, fails)
  <1>1. UpdateOK(p, fails)
    BY UpdateKeeps
  <1> HIDE DEF p
  <1>2. M!Leave(p, M!After(fails)) /\ UNCHANGED since
    BY DEF M!Evaluate, p
  <1>3. MpdInv'
    BY <1>1, <1>2, DisplayLeft
  <1>4. ASSUME conn' = "good", ~setback', since' = waittime PROVE CopyRight(copy', server')
    <2>1. CopyRight(p.copy, server)
      BY <1>1, <1>2, <1>4, MpdAssumption DEF M!Leave, UpdateOK, MpdInv, MpdShapes
    <2> QED BY <1>2, <2>1, AfterKeeps DEF M!Leave, MpdInv, MpdShapes
  <1>5. M!Fresh'
    <2> SUFFICES ASSUME conn' = "good", ~setback', since' = waittime
                 PROVE  M!Answers(copy)' = M!Answers([M!Status(copy) EXCEPT !.stats = server.stats])'
      BY DEF M!Fresh
    <2>1. IsCopy(copy') /\ CopyRight(copy', server')
      BY <1>3, <1>4 DEF MpdInv, MpdShapes
    <2> DEFINE latest == [M!Status(copy) EXCEPT !.stats = server.stats]
    <2>2. /\ latest'.song = copy'.song /\ latest'.times = copy'.times /\ latest'.state = copy'.state
          /\ latest'.volume = copy'.volume /\ latest'.flags = copy'.flags /\ latest'.stats = copy'.stats
      BY <2>1 DEF M!Status, IsCopy, CopyFields, CopyRight
    <2> HIDE DEF latest
    <2>3. M!Answers(copy') = M!Answers(latest')
      BY <2>2, SameAnswers
    <2> QED BY <2>3 DEF latest
  <1> QED BY <1>3, <1>5


\* Someone else uses the server.
LEMMA OtherKeeps ==
    ASSUME MpdInv, M!Other PROVE MpdInv'
  <1>1. \A srv \in M!Changed : IsServer(srv)
    BY DEF M!Changed, M!Play, MpdInv, MpdShapes, IsServer, ServerFields
  <1>2. IsServer(server') /\ since' = 0
    BY <1>1 DEF M!Other
  <1> QED BY <1>2, MpdAssumption DEF M!Other, M!Rest, MpdInv, MpdShapes, M!SongAndTimes, KnownSince

\* Every step of the music server, its clock and the program.
LEMMA MpdStep ==
    ASSUME MpdInv, M!Fresh, [M!Next]_(M!vars) PROVE MpdInv' /\ M!Fresh'
  <1> USE MpdAssumption
  <1>1. CASE M!Evaluate
    BY <1>1, MpdEvaluates
  <1>2. ASSUME ~evaluated' PROVE M!Fresh'
    BY <1>2 DEF M!Fresh
  <1>3. CASE M!KeyPressed
    BY <1>2, <1>3, KeyKeeps DEF M!KeyPressed
  <1>4. CASE M!Other
    BY <1>2, <1>4, OtherKeeps DEF M!Other
  <1>5. CASE M!ServerEnds \/ M!ServerStarts
    <2>1. /\ IsServer(server') /\ server'.song = server.song /\ server'.state = server.state
          /\ server'.volume = server.volume /\ server'.flags = server.flags /\ server'.stats = server.stats
      BY <1>5 DEF M!ServerEnds, M!ServerStarts, MpdInv, MpdShapes, IsServer, ServerFields
    <2>2. MpdInv'
      BY <1>5, <2>1 DEF M!ServerEnds, M!ServerStarts, M!Rest, M!Lost, MpdInv, MpdShapes,
                     M!SongAndTimes, KnownSince, CopyRight
    <2> QED BY <1>2, <1>5, <2>2 DEF M!ServerEnds, M!ServerStarts
  <1>6. CASE M!ServerCloses
    BY <1>2, <1>6 DEF M!ServerCloses, M!Rest, M!Lost, MpdInv, MpdShapes, M!SongAndTimes, KnownSince
  <1>7. CASE M!Tick
    <2>1. /\ age' \in IF age = -1 THEN {-1, 0} ELSE {IF age + 1 <= waittime THEN age + 1 ELSE waittime}
          /\ since' = IF since + 1 <= waittime THEN since + 1 ELSE waittime
      BY <1>7, MinOfTimes DEF M!Tick, MpdInv, MpdShapes
    <2> QED BY <1>2, <1>7, <2>1 DEF M!Tick, M!Rest, MpdInv, MpdShapes, M!SongAndTimes, KnownSince
  <1>8. CASE M!SetBack
    BY <1>2, <1>8 DEF M!SetBack, MpdInv, MpdShapes, M!SongAndTimes, KnownSince
  <1>9. CASE UNCHANGED M!vars
    <2>1. MpdInv'
      BY <1>9 DEF M!vars, MpdInv, MpdShapes, M!SongAndTimes, KnownSince
    <2>2. M!Fresh'
      BY <1>9 DEF M!vars, M!Fresh, M!Status
    <2> QED BY <2>1, <2>2
  <1> QED BY <1>1, <1>3, <1>4, <1>5, <1>6, <1>7, <1>8, <1>9 DEF M!Next

LEMMA MpdStart ==
    ASSUME M!Init PROVE MpdInv /\ M!Fresh
  <1>1. IsServer(server)
    BY DEF M!Init, IsServer, ServerFields
  <1>2. IsCopy(copy)
    BY DEF M!Init, IsCopy, CopyFields
  <1>3. setback \in BOOLEAN
    BY Zenon DEF M!Init
  <1>4. MpdInv
    BY <1>1, <1>2, <1>3, MpdAssumption DEF M!Init, MpdInv, MpdShapes, M!SongAndTimes, KnownSince
  <1>5. M!Fresh
    BY DEF M!Init, M!Fresh
  <1> QED BY <1>4, <1>5


----------------------------------------------------------------------------
\* The modem: texts, commands, and the lines that follow an echo.
Texts == {"manuf", "model", "fwver"}
Commands == {"+CSQ", "^SYSINFO", "+GMI", "+GMM", "+CGMR", "+COPS?", "^DSFLOWQRY"}
Echo(cmd) == H!Line("echo", cmd, <<>>)
AnyReport(cmd) ==
    CASE cmd = "+CSQ" -> Rssi [] cmd = "^SYSINFO" -> Modes [] cmd = "+COPS?" -> Operators
      [] cmd = "^DSFLOWQRY" -> [time : Times, tx : Bytes] [] OTHER -> {cmd}
DataLines(cmd) == {H!Line("data", cmd, <<v>>) : v \in AnyReport(cmd)}
Follows(cmd) == {H!ERROR} \union IF cmd = H!INIT_STRING THEN {H!OK} ELSE DataLines(cmd)
Asked == Commands \union {H!INIT_STRING}
ModemLines == {H!OK, H!ERROR} \union {Echo(cmd) : cmd \in Asked} \union UNION {DataLines(cmd) : cmd \in Commands}

\* The assumptions on numbers, as the provers need them.
LEMMA HuaweiNumbers ==
    /\ NameSize \in Nat \ {0}
    /\ Rssi \subseteq Nat /\ Times \subseteq Nat /\ Bytes \subseteq Nat
    /\ \A s, t \in Times : s < t => s + 2 <= t
  BY HuaweiAssumption, Zenon

LEMMA CommandKnown == ASSUME NEW fn \in Functions PROVE H!Command(fn) \in Commands /\ H!Command(fn) # H!INIT_STRING
  BY DEF Functions, H!Command, Commands, H!INIT_STRING

\* Answers of two and three lines, and what is left of them.
LEMMA TwoLines == ASSUME NEW a, NEW b PROVE <<a>> \o <<b>> = <<a, b>>
  <1> DEFINE S == {a, b}
  <1>1. <<a>> \in Seq(S) /\ <<b>> \in Seq(S) /\ <<a, b>> \in Seq(S)
    OBVIOUS
  <1> HIDE DEF S
  <1>2. Len(<<a>> \o <<b>>) = 2 /\ <<a>> \o <<b>> \in Seq(S)
    BY <1>1
  <1>3. \A i \in 1 .. 2 : (<<a>> \o <<b>>)[i] = <<a, b>>[i]
    BY <1>1
  <1> QED BY <1>1, <1>2, <1>3, SeqEqual

LEMMA ThreeLines == ASSUME NEW a, NEW b, NEW c PROVE <<a>> \o <<b, c>> = <<a, b, c>>
  <1> DEFINE S == {a, b, c}
  <1>1. <<a>> \in Seq(S) /\ <<b, c>> \in Seq(S) /\ <<a, b, c>> \in Seq(S)
    OBVIOUS
  <1> HIDE DEF S
  <1>2. Len(<<a>> \o <<b, c>>) = 3 /\ <<a>> \o <<b, c>> \in Seq(S)
    BY <1>1
  <1>3. \A i \in 1 .. 3 : (<<a>> \o <<b, c>>)[i] = <<a, b, c>>[i]
    BY <1>1
  <1> QED BY <1>1, <1>2, <1>3, SeqEqual

LEMMA Tuples ==
    ASSUME NEW a, NEW b, NEW c, NEW e, e # a, e # b
    PROVE  /\ Len(<<a, b>>) = 2 /\ \A i \in DOMAIN <<a, b>> : <<a, b>>[i] # e
           /\ e # c => Len(<<a, b, c>>) = 3 /\ \A i \in DOMAIN <<a, b, c>> : <<a, b, c>>[i] # e
  OBVIOUS

LEMMA Tails ==
    ASSUME NEW a, NEW b, NEW c
    PROVE  /\ Tail(<<a>>) = <<>> /\ Tail(<<a, b>>) = <<b>> /\ Tail(<<a, b, c>>) = <<b, c>>
           /\ Head(<<a>>) = a /\ Head(<<a, b>>) = a /\ Head(<<a, b, c>>) = a
  <1> DEFINE S == {a, b, c}
  <1>1. /\ <<a>> \in Seq(S) /\ <<b>> \in Seq(S) /\ <<a, b>> \in Seq(S)
        /\ <<b, c>> \in Seq(S) /\ <<a, b, c>> \in Seq(S)
    OBVIOUS
  <1> HIDE DEF S
  <1>2. Tail(<<a>>) = <<>>
    BY <1>1, HeadTailProperties, EmptySeq
  <1>3. Tail(<<a, b>>) = <<b>>
    <2>1. Tail(<<a, b>>) \in Seq(S) /\ Len(Tail(<<a, b>>)) = 1 /\ Tail(<<a, b>>)[1] = b
      BY <1>1
    <2> QED BY <1>1, <2>1, SeqEqual
  <1>4. Tail(<<a, b, c>>) = <<b, c>>
    <2>1. Tail(<<a, b, c>>) \in Seq(S) /\ Len(Tail(<<a, b, c>>)) = 2
          /\ Tail(<<a, b, c>>)[1] = b /\ Tail(<<a, b, c>>)[2] = c
      BY <1>1
    <2> QED BY <1>1, <2>1, SeqEqual
  <1> QED BY <1>2, <1>3, <1>4

\* What the modem sends.
LEMMA AnswersAre ==
    ASSUME NEW cmd \in Asked, NEW lines \in H!Answers(cmd)
    PROVE  \/ lines = <<>>
           \/ \E r \in Follows(cmd) :
                /\ r.kind = "data" => r.value[1] \in H!Reports(cmd)
                /\ lines = IF r.kind = "data" THEN <<Echo(cmd), r, H!OK>> ELSE <<Echo(cmd), r>>
  <1> SUFFICES ASSUME lines # <<>> PROVE \E r \in Follows(cmd) :
                /\ r.kind = "data" => r.value[1] \in H!Reports(cmd)
                /\ lines = IF r.kind = "data" THEN <<Echo(cmd), r, H!OK>> ELSE <<Echo(cmd), r>>
    OBVIOUS
  <1>1. CASE lines = <<Echo(cmd)>> \o <<H!ERROR>>
    <2>1. lines = <<Echo(cmd), H!ERROR>>
      BY <1>1, TwoLines
    <2> QED BY <2>1 DEF Follows, H!ERROR, H!Line
  <1>2. CASE cmd = H!INIT_STRING /\ lines = <<Echo(cmd)>> \o <<H!OK>>
    <2>1. lines = <<Echo(cmd), H!OK>>
      BY <1>2, TwoLines
    <2> QED BY <1>2, <2>1 DEF Follows, H!OK, H!Line
  <1>3. ASSUME cmd # H!INIT_STRING, NEW v \in H!Reports(cmd),
               lines = <<Echo(cmd)>> \o <<H!Line("data", cmd, <<v>>), H!OK>>
        PROVE  \E r \in Follows(cmd) :
                /\ r.kind = "data" => r.value[1] \in H!Reports(cmd)
                /\ lines = IF r.kind = "data" THEN <<Echo(cmd), r, H!OK>> ELSE <<Echo(cmd), r>>
    <2> DEFINE r == H!Line("data", cmd, <<v>>)
    <2>1. lines = <<Echo(cmd), r, H!OK>>
      BY <1>3, ThreeLines
    <2>2. v \in AnyReport(cmd)
      BY <1>3 DEF H!Reports, AnyReport, H!Flows
    <2>3. r \in Follows(cmd) /\ r.kind = "data" /\ r.value[1] = v
      BY <1>3, <2>2 DEF Follows, DataLines, H!Line
    <2> QED BY <2>1, <2>3
  <1> QED BY <1>1, <1>2, <1>3 DEF H!Answers, Echo

\* The variables, what the modem reported, and a call.
ValFields == {"rssi", "mode", "sub_mode", "flow", "prev", "rate", "text", "operator", "value"}
GivenFields == {"rssi", "mode", "named", "operator", "flows", "flow", "before"}
ReceiveFields == {"at", "fn", "arg", "cmd", "run", "recv_seq", "reply"}
ValShape(v) ==
    /\ v = [f \in ValFields |-> v[f]]
    /\ v.text = [fn \in Texts |-> v.text[fn]]
    /\ v.operator = [i \in 1 .. NameSize |-> v.operator[i]] /\ v.operator[NameSize] = ""
GivenOK(g) ==
    /\ g = [f \in GivenFields |-> g[f]]
    /\ g.named \in BOOLEAN /\ (g.named => g.operator \in Operators)
    /\ g.flows \in 0 .. 2
    /\ g.flow.time \in Nat /\ g.flow.tx \in Nat
    /\ g.flows > 0 => g.flow.time \in Times

\* What is shown, and a reply, is of the command it belongs to, if torn.
OwnedValues(v) ==
    /\ v.rssi \in {0} \union Rssi \union {H!Repeated(n) : n \in Rssi}
    /\ \A fn \in Texts : v.text[fn].kind \in {"", "garbage"} \/ H!IsData(v.text[fn], H!Command(fn))
OwnReply(reply, cmd) ==
    \/ reply \in {H!Empty, H!Garbage, H!ERROR}
    \/ /\ H!IsData(reply, cmd)
       /\ cmd = "+CSQ" => reply.value[1] \in Rssi \union {H!Repeated(n) : n \in Rssi}
       /\ cmd = "+COPS?" => reply.value[1] \in Operators

\* What is shown without a modem, and with one that answers in time.
Blank(v) ==
    /\ v.rssi = 0 /\ v.sub_mode = 0 /\ v.flow = H!NoFlow /\ v.rate = <<0, 1>>
    /\ v.operator[1] = "" /\ \A fn \in Texts : v.text[fn] = H!Empty

RateOf(g) ==
    IF g.flow.tx = g.before.tx THEN <<0, 1>>
    ELSE <<g.flow.tx - g.before.tx, g.flow.time - g.before.time>>
Agree(v, g) ==
    /\ g.rssi \in 0 .. 31 => v.rssi = g.rssi
    /\ g.mode # -1 => v.mode = g.mode
    /\ g.named => \A i \in 1 .. Len(g.operator) : v.operator[i] = g.operator[i]
    /\ g.flows > 0 => v.flow = g.flow /\ v.prev = g.flow
    /\ g.flows = 2 => v.rate = RateOf(g)
    /\ \A fn \in Texts : v.text[fn] \in {H!Empty, H!Line("data", H!Command(fn), <<H!Command(fn)>>)}
Reached(v, fn, cmd, reply) == IF cmd = H!INIT_STRING THEN v ELSE H!Read(v, fn, reply)

\* Lines of different kinds differ.
LEMMA Kinds ==
    /\ H!Empty.kind = "" /\ H!Garbage.kind = "garbage" /\ H!ERROR.kind = "ERROR" /\ H!OK.kind = "OK"
    /\ \A cmd : Echo(cmd).kind = "echo" /\ Echo(cmd).of = cmd
  BY DEF H!Empty, H!Garbage, H!ERROR, H!OK, Echo, H!Line

LEMMA DataKind ==
    ASSUME NEW cmd, NEW v
    PROVE  LET d == H!Line("data", cmd, <<v>>)
           IN d.kind = "data" /\ d.of = cmd /\ d.value = <<v>> /\ d.value[1] = v
  BY DEF H!Line

\* A reply that looks like data is data of its own command.
LEMMA DataOwn ==
    ASSUME NEW reply, NEW cmd, NEW other, OwnReply(reply, cmd), H!IsData(reply, other)
    PROVE  /\ cmd = other
           /\ cmd = "+CSQ" => reply.value[1] \in Rssi \union {H!Repeated(n) : n \in Rssi}
           /\ cmd = "+COPS?" => reply.value[1] \in Operators
  BY Kinds DEF OwnReply, H!IsData

\* A name leaves room for its end.
LEMMA NameFits ==
    ASSUME NEW name \in Operators
    PROVE  /\ Len(name) \in Nat /\ Len(name) + 1 < NameSize
           /\ name \in Seq(STRING) /\ \A i \in 1 .. Len(name) : name[i] # ""
  <1>1. name \in Seq(STRING \ {""}) /\ Len(name) + 1 < NameSize
    BY HuaweiAssumption
  <1>2. name \in Seq(STRING)
    BY <1>1, SeqMonotonic, Zenon
  <1>3. Len(name) \in Nat
    BY <1>2, LenProperties, Zenon
  <1>4. \A i \in 1 .. Len(name) : name[i] \in STRING \ {""}
    BY <1>1, ElementOfSeq, Zenon
  <1> QED BY <1>1, <1>2, <1>3, <1>4

LEMMA LastPlace ==
    ASSUME NEW n \in Nat, n + 1 < NameSize
    PROVE  NameSize \in 1 .. NameSize /\ ~(NameSize <= n) /\ 1 \in 1 .. NameSize /\ NameSize # 1
  <1>1. NameSize \in Nat
    BY HuaweiNumbers, Zenon
  <1> QED BY <1>1

\* A reply is read.
LEMMA ReadOwn ==
    ASSUME NEW v, ValShape(v), OwnedValues(v), NEW fn \in Functions, NEW reply, OwnReply(reply, H!Command(fn))
    PROVE  LET r == H!Read(v, fn, reply) IN ValShape(r) /\ OwnedValues(r)
  <1> DEFINE r == H!Read(v, fn, reply)
  <1>1. CASE fn = "quality"
    <2>1. r = IF H!IsData(reply, "+CSQ") THEN [v EXCEPT !.rssi = reply.value[1]] ELSE v
      BY <1>1 DEF H!Read, H!huawei_read_quality
    <2>2. H!IsData(reply, "+CSQ") => reply.value[1] \in Rssi \union {H!Repeated(n) : n \in Rssi}
      BY <1>1, DataOwn DEF H!Command
    <2> HIDE DEF r
    <2> QED BY <2>1, <2>2 DEF ValShape, OwnedValues, ValFields, r
  <1>2. CASE fn = "mode"
    BY <1>2 DEF H!Read, H!huawei_read_sysinfo, OwnedValues, ValShape, ValFields
  <1>3. CASE fn = "operator"
    <2>1. CASE ~H!IsData(reply, "+COPS?")
      BY <1>3, <2>1 DEF H!Read, H!huawei_read_operator
    <2>2. CASE H!IsData(reply, "+COPS?")
      <3> DEFINE name == reply.value[1]
                 new == [i \in DOMAIN v.operator |-> IF i <= Len(name) THEN name[i] ELSE v.operator[i]]
      <3>1. r = [v EXCEPT !.operator = new]
        BY <1>3, <2>2 DEF H!Read, H!huawei_read_operator
      <3>2. name \in Operators
        BY <1>3, <2>2, DataOwn DEF H!Command
      <3>3. new = [i \in 1 .. NameSize |-> new[i]] /\ new[NameSize] = ""
        <4>1. DOMAIN v.operator = 1 .. NameSize /\ v.operator[NameSize] = ""
          BY DEF ValShape
        <4> HIDE DEF name
        <4>2. Len(name) \in Nat /\ Len(name) + 1 < NameSize
          BY <3>2, NameFits
        <4> DEFINE n == Len(name)
                   op == v.operator
        <4>3. new = [i \in DOMAIN op |-> IF i <= n THEN name[i] ELSE op[i]]
          OBVIOUS
        <4>4. DOMAIN op = 1 .. NameSize /\ op[NameSize] = "" /\ n \in Nat /\ n + 1 < NameSize
          BY <4>1, <4>2
        <4> HIDE DEF n, op, new
        <4>5. NameSize \in 1 .. NameSize /\ ~(NameSize <= n)
          BY <4>4, LastPlace
        <4>6. new = [i \in 1 .. NameSize |-> new[i]]
          BY <4>3, <4>4
        <4>7. new[NameSize] = ""
          BY <4>3, <4>4, <4>5
        <4> QED BY <4>6, <4>7
      <3> HIDE DEF new, r
      <3> QED BY <3>1, <3>3 DEF ValShape, OwnedValues, ValFields, r
    <2> QED BY <2>1, <2>2
  <1>4. CASE fn = "flowreport"
    BY <1>4 DEF H!Read, H!huawei_read_flowreport, OwnedValues, ValShape, ValFields
  <1>5. CASE fn \in Texts
    <2>1. r = IF reply \in {H!Empty, H!ERROR} THEN v ELSE [v EXCEPT !.text[fn] = reply]
      BY <1>5 DEF H!Read, H!read_text, Texts
    <2>2. reply \in {H!Empty, H!ERROR} \/ reply.kind = "garbage" \/ H!IsData(reply, H!Command(fn))
      BY Kinds DEF OwnReply
    <2> HIDE DEF r
    <2> QED BY <1>5, <2>1, <2>2 DEF ValShape, OwnedValues, ValFields, r
  <1> QED BY <1>1, <1>2, <1>3, <1>4, <1>5 DEF Functions, Texts

\* What has been reported after an answer.
LEMMA ReportedIs ==
    ASSUME NEW cmd \in Asked
    PROVE  /\ H!Reported(<<>>) = given
           /\ H!Reported(<<Echo(cmd), H!ERROR>>) = given
           /\ H!Reported(<<Echo(H!INIT_STRING), H!OK>>) = [given EXCEPT !.flows = 0, !.flow = H!NoFlow]
           /\ \A v : LET d == <<Echo(cmd), H!Line("data", cmd, <<v>>), H!OK>>
                     IN H!Reported(d) =
                          CASE cmd = "+CSQ" -> [given EXCEPT !.rssi = v]
                            [] cmd = "^SYSINFO" -> [given EXCEPT !.mode = v]
                            [] cmd = "+COPS?" -> [given EXCEPT !.operator = v, !.named = TRUE]
                            [] cmd = "^DSFLOWQRY" ->
                                 IF given.flows > 0 /\ v = given.flow THEN given
                                 ELSE [given EXCEPT !.before = given.flow, !.flow = v, !.flows = H!Min({@ + 1, 2})]
                            [] cmd = H!INIT_STRING -> [given EXCEPT !.flows = 0, !.flow = H!NoFlow]
                            [] OTHER -> given
  <1>1. H!Reported(<<>>) = given
    BY DEF H!Reported
  <1>2. H!Reported(<<Echo(cmd), H!ERROR>>) = given
    <2> DEFINE lines == <<Echo(cmd), H!ERROR>>
    <2>1. 2 \in DOMAIN lines /\ lines[2] = H!ERROR
      OBVIOUS
    <2>2. H!ERROR \in {lines[i] : i \in DOMAIN lines}
      BY <2>1, Zenon
    <2> HIDE DEF lines
    <2>3. H!Reported(lines) = given
      BY <2>2, Zenon DEF H!Reported
    <2> QED BY <2>3 DEF lines
  <1>3. H!Reported(<<Echo(H!INIT_STRING), H!OK>>) = [given EXCEPT !.flows = 0, !.flow = H!NoFlow]
    <2> DEFINE lines == <<Echo(H!INIT_STRING), H!OK>>
    <2>0. Echo(H!INIT_STRING) # H!ERROR /\ H!OK # H!ERROR
      BY Kinds
    <2>1. Len(lines) = 2 /\ \A i \in DOMAIN lines : lines[i] # H!ERROR
      BY <2>0, Tuples
    <2>2. lines[1].of = "init"
      BY Kinds DEF H!INIT_STRING
    <2> HIDE DEF lines
    <2>3. H!Reported(lines) = [given EXCEPT !.flows = 0, !.flow = H!NoFlow]
      BY <2>1, <2>2 DEF H!Reported, H!INIT_STRING
    <2> QED BY <2>3 DEF lines
  <1>4. ASSUME NEW v
        PROVE  LET d == <<Echo(cmd), H!Line("data", cmd, <<v>>), H!OK>>
               IN H!Reported(d) =
                    CASE cmd = "+CSQ" -> [given EXCEPT !.rssi = v]
                      [] cmd = "^SYSINFO" -> [given EXCEPT !.mode = v]
                      [] cmd = "+COPS?" -> [given EXCEPT !.operator = v, !.named = TRUE]
                      [] cmd = "^DSFLOWQRY" ->
                           IF given.flows > 0 /\ v = given.flow THEN given
                           ELSE [given EXCEPT !.before = given.flow, !.flow = v, !.flows = H!Min({@ + 1, 2})]
                      [] cmd = H!INIT_STRING -> [given EXCEPT !.flows = 0, !.flow = H!NoFlow]
                      [] OTHER -> given
    <2> DEFINE data == H!Line("data", cmd, <<v>>)
               lines == <<Echo(cmd), data, H!OK>>
    <2>a. data.kind = "data" /\ data.value[1] = v
      BY DataKind, Zenon
    <2> HIDE DEF data
    <2>0. Echo(cmd) # H!ERROR /\ H!OK # H!ERROR /\ data # H!ERROR /\ data.value[1] = v /\ Echo(cmd).of = cmd
      BY <2>a, Kinds
    <2>1. Len(lines) = 3 /\ \A i \in DOMAIN lines : lines[i] # H!ERROR
      BY <2>0, Tuples
    <2>2. lines[1].of = cmd /\ lines[2].value[1] = v
      BY <2>0
    <2> HIDE DEF lines
    <2>3. ~(Len(lines) < 2 \/ H!ERROR \in {lines[i] : i \in DOMAIN lines})
      BY <2>1
    <2>4. H!Reported(lines) =
            LET w == lines[2].value[1]
            IN CASE lines[1].of = "+CSQ" -> [given EXCEPT !.rssi = w]
                 [] lines[1].of = "^SYSINFO" -> [given EXCEPT !.mode = w]
                 [] lines[1].of = "+COPS?" -> [given EXCEPT !.operator = w, !.named = TRUE]
                 [] lines[1].of = "^DSFLOWQRY" ->
                      IF given.flows > 0 /\ w = given.flow THEN given
                      ELSE [given EXCEPT !.before = given.flow, !.flow = w, !.flows = H!Min({@ + 1, 2})]
                 [] lines[1].of = H!INIT_STRING -> [given EXCEPT !.flows = 0, !.flow = H!NoFlow]
                 [] OTHER -> given
      BY <2>3, Zenon DEF H!Reported
    <2> QED BY <2>2, <2>4 DEF lines, data
  <1> QED BY <1>1, <1>2, <1>3, <1>4

LEMMA MinOfCounts == ASSUME NEW a \in Int, NEW b \in Int PROVE H!Min({a, b}) = IF a <= b THEN a ELSE b
  BY DEF H!Min

\* A report leaves what has been reported in order.
LEMMA ReportedOK ==
    ASSUME GivenOK(given), NEW cmd \in Commands, NEW x \in H!Reports(cmd)
    PROVE  GivenOK(H!Reported(<<Echo(cmd), H!Line("data", cmd, <<x>>), H!OK>>))
  <1> DEFINE g == H!Reported(<<Echo(cmd), H!Line("data", cmd, <<x>>), H!OK>>)
  <1>1. g = CASE cmd = "+CSQ" -> [given EXCEPT !.rssi = x]
              [] cmd = "^SYSINFO" -> [given EXCEPT !.mode = x]
              [] cmd = "+COPS?" -> [given EXCEPT !.operator = x, !.named = TRUE]
              [] cmd = "^DSFLOWQRY" ->
                   IF given.flows > 0 /\ x = given.flow THEN given
                   ELSE [given EXCEPT !.before = given.flow, !.flow = x, !.flows = H!Min({@ + 1, 2})]
              [] OTHER -> given
    BY ReportedIs DEF Commands, Asked, H!INIT_STRING
  <1>0. SUFFICES GivenOK(g)
    OBVIOUS
  <1> HIDE DEF g
  <1>2. CASE cmd = "+CSQ"
    BY <1>1, <1>2 DEF GivenOK, GivenFields
  <1>3. CASE cmd = "^SYSINFO"
    BY <1>1, <1>3 DEF GivenOK, GivenFields
  <1>4. CASE cmd = "+COPS?"
    <2>1. g = [given EXCEPT !.operator = x, !.named = TRUE]
      BY <1>1, <1>4
    <2>2. x \in Operators
      BY <1>4 DEF H!Reports
    <2> QED BY <2>1, <2>2 DEF GivenOK, GivenFields
  <1>5. CASE cmd = "^DSFLOWQRY" /\ ~(given.flows > 0 /\ x = given.flow)
    <2>1. given.flows \in 0 .. 2
      BY DEF GivenOK
    <2>2. H!Min({given.flows + 1, 2}) = IF given.flows = 0 THEN 1 ELSE 2
      BY <2>1, MinOfCounts
    <2>3. g = [given EXCEPT !.before = given.flow, !.flow = x, !.flows = IF given.flows = 0 THEN 1 ELSE 2]
      BY <1>1, <1>5, <2>2
    <2>4. x.time \in Times /\ x.time \in Nat /\ x.tx \in Nat
      BY <1>5, HuaweiNumbers DEF H!Reports, H!Flows
    <2>5. /\ g.flow = x /\ g.flows = (IF given.flows = 0 THEN 1 ELSE 2)
          /\ g.named = given.named /\ g.operator = given.operator
          /\ g = [f \in GivenFields |-> g[f]]
      BY <2>3 DEF GivenOK, GivenFields
    <2> QED BY <2>1, <2>4, <2>5 DEF GivenOK
  <1>6. CASE cmd \notin {"+CSQ", "^SYSINFO", "+COPS?"} /\ (cmd = "^DSFLOWQRY" => given.flows > 0 /\ x = given.flow)
    BY <1>1, <1>6
  <1> QED BY <1>2, <1>3, <1>4, <1>5, <1>6

\* The answer to a command, once it is read, is what the modem has reported.
LEMMA SentAgrees ==
    ASSUME NEW v, ValShape(v), GivenOK(given), Agree(v, given), NEW fn \in Functions,
           NEW x \in H!Reports(H!Command(fn))
    PROVE  LET cmd == H!Command(fn)
               r == H!Line("data", cmd, <<x>>)
               g == H!Reported(<<Echo(cmd), r, H!OK>>)
           IN Agree(H!Read(v, fn, r), g)
  <1> DEFINE cmd == H!Command(fn)
             r == H!Line("data", cmd, <<x>>)
             g == H!Reported(<<Echo(cmd), r, H!OK>>)
             w == H!Read(v, fn, r)
  <1>1. H!IsData(r, cmd) /\ r.value[1] = x /\ r \notin {H!Empty, H!ERROR}
    <2>1. r.kind = "data" /\ r.of = cmd /\ r.value[1] = x
      BY DataKind, Zenon
    <2> HIDE DEF r, cmd
    <2> QED BY <2>1, Kinds DEF H!IsData
  <1>2. cmd \in Asked /\ cmd # H!INIT_STRING
    BY CommandKnown DEF Asked
  <1>3. CASE fn = "quality"
    <2>1. cmd = "+CSQ"
      BY <1>3 DEF H!Command
    <2>2. g = [given EXCEPT !.rssi = x]
      BY <1>2, <2>1, ReportedIs
    <2>3. w = [v EXCEPT !.rssi = x]
      BY <1>1, <1>3, <2>1 DEF H!Read, H!huawei_read_quality
    <2> HIDE DEF g, w
    <2>5. Agree(w, g)
      BY <2>2, <2>3 DEF Agree, RateOf, GivenOK, GivenFields, ValShape, ValFields
    <2> QED BY <2>5 DEF g, w
  <1>4. CASE fn = "mode"
    <2>1. cmd = "^SYSINFO"
      BY <1>4 DEF H!Command
    <2>2. g = [given EXCEPT !.mode = x]
      BY <1>2, <2>1, ReportedIs
    <2>3. w = [v EXCEPT !.mode = x, !.sub_mode = x]
      BY <1>1, <1>4, <2>1 DEF H!Read, H!huawei_read_sysinfo
    <2> HIDE DEF g, w
    <2>5. Agree(w, g)
      BY <2>2, <2>3 DEF Agree, RateOf, GivenOK, GivenFields, ValShape, ValFields
    <2> QED BY <2>5 DEF g, w
  <1>5. CASE fn \in Texts
    <2>1. cmd \in {"+GMI", "+GMM", "+CGMR"} /\ x = cmd
      BY <1>5 DEF H!Command, H!Reports, Texts
    <2>2. g = given
      BY <1>2, <2>1, ReportedIs DEF H!INIT_STRING
    <2>3. w = [v EXCEPT !.text[fn] = r]
      BY <1>1, <1>5 DEF H!Read, H!read_text, Texts
    <2>4. r = H!Line("data", H!Command(fn), <<H!Command(fn)>>)
      BY <2>1
    <2> HIDE DEF g, w, r
    <2>5. Agree(w, g)
      BY <1>5, <2>2, <2>3, <2>4 DEF Agree, ValShape, ValFields
    <2> QED BY <2>5 DEF g, w, r
  <1>6. CASE fn = "operator"
    <2>1. cmd = "+COPS?" /\ x \in Operators
      BY <1>6 DEF H!Command, H!Reports
    <2>2. g = [given EXCEPT !.operator = x, !.named = TRUE]
      BY <1>2, <2>1, ReportedIs
    <2>3. w = [v EXCEPT !.operator = [i \in DOMAIN v.operator |-> IF i <= Len(x) THEN x[i] ELSE v.operator[i]]]
      BY <1>1, <1>6, <2>1 DEF H!Read, H!huawei_read_operator
    <2>4. Len(x) \in Nat /\ Len(x) + 1 < NameSize /\ DOMAIN v.operator = 1 .. NameSize
      BY <2>1, NameFits DEF ValShape
    <2> HIDE DEF g, w
    <2>5. \A i \in 1 .. Len(x) : w.operator[i] = x[i]
      <3>1. \A i \in 1 .. Len(x) : i \in 1 .. NameSize
        BY <2>4, HuaweiNumbers
      <3>2. w.operator = [i \in 1 .. NameSize |-> IF i <= Len(x) THEN x[i] ELSE v.operator[i]]
        BY <2>3, <2>4 DEF ValShape, ValFields
      <3> QED BY <3>1, <3>2
    <2>7. Agree(w, g)
      <3>1. /\ g.operator = x /\ g.rssi = given.rssi /\ g.mode = given.mode
            /\ g.flows = given.flows /\ g.flow = given.flow /\ g.before = given.before
        BY <2>2 DEF GivenOK, GivenFields
      <3>2. /\ w.rssi = v.rssi /\ w.mode = v.mode /\ w.flow = v.flow /\ w.prev = v.prev
            /\ w.rate = v.rate /\ w.text = v.text
        BY <2>3 DEF ValShape, ValFields
      <3> QED BY <3>1, <3>2, <2>5 DEF Agree, RateOf
    <2> QED BY <2>7 DEF g, w
  <1>7. CASE fn = "flowreport"
    <2>1. cmd = "^DSFLOWQRY" /\ x \in H!Flows
      BY <1>7 DEF H!Command, H!Reports
    <2>2. g = IF given.flows > 0 /\ x = given.flow THEN given
              ELSE [given EXCEPT !.before = given.flow, !.flow = x, !.flows = H!Min({@ + 1, 2})]
      BY <1>2, <2>1, ReportedIs
    <2>3. w = [v EXCEPT !.flow = x, !.rate = H!Rate(v, x), !.prev = x]
      BY <1>1, <1>7, <2>1 DEF H!Read, H!huawei_read_flowreport
    <2>4. x.time \in Times /\ x.time \in Nat /\ x.tx \in Nat
          /\ (x = given.flow \/ (x.time > given.flow.time /\ x.tx >= given.flow.tx))
      BY <2>1, HuaweiNumbers DEF H!Flows
    <2> HIDE DEF g, w
    <2>5. CASE given.flows > 0 /\ x = given.flow
      <3>1. g = given
        BY <2>2, <2>5
      <3>2. H!Rate(v, x) = v.rate
        <4>1. v.prev = given.flow
          BY <2>5 DEF Agree, GivenOK
        <4> QED BY <2>4, <2>5, <4>1 DEF H!Rate
      <3>3. Agree(w, given)
        BY <2>3, <2>5, <3>2 DEF Agree, RateOf, ValShape, ValFields
      <3> QED BY <3>1, <3>3 DEF g, w
    <2>6. CASE ~(given.flows > 0 /\ x = given.flow)
      <3>1. g = [given EXCEPT !.before = given.flow, !.flow = x, !.flows = IF given.flows = 0 THEN 1 ELSE 2]
        <4>1. given.flows \in 0 .. 2
          BY DEF GivenOK
        <4>2. H!Min({given.flows + 1, 2}) = IF given.flows = 0 THEN 1 ELSE 2
          BY <4>1, MinOfCounts
        <4> QED BY <2>2, <2>6, <4>2
      <3>a. g.flow = x /\ g.before = given.flow /\ g.flows \in 1 .. 2 /\ (g.flows = 2 => given.flows > 0)
            /\ g.named = given.named /\ g.operator = given.operator /\ g.rssi = given.rssi /\ g.mode = given.mode
        BY <3>1 DEF GivenOK, GivenFields
      <3>3. given.flows > 0 => H!Rate(v, x) = IF x.tx = given.flow.tx THEN <<0, 1>>
                                            ELSE <<x.tx - given.flow.tx, x.time - given.flow.time>>
        <4> SUFFICES ASSUME given.flows > 0 PROVE H!Rate(v, x) = IF x.tx = given.flow.tx THEN <<0, 1>>
                                            ELSE <<x.tx - given.flow.tx, x.time - given.flow.time>>
          OBVIOUS
        <4>1. v.prev = given.flow /\ given.flow.time \in Times /\ x.time > given.flow.time /\ x.tx >= given.flow.tx
          BY <2>4, <2>6 DEF Agree, GivenOK
        <4>2. x.time >= given.flow.time + 2
          BY <2>4, <4>1, HuaweiNumbers
        <4> QED BY <2>4, <4>1, <4>2 DEF H!Rate, GivenOK
      <3>c. /\ w.rssi = v.rssi /\ w.mode = v.mode /\ w.flow = x /\ w.prev = x
            /\ w.rate = H!Rate(v, x) /\ w.text = v.text /\ w.operator = v.operator
        BY <2>3 DEF ValShape, ValFields
      <3>4. Agree(w, g)
        BY <3>a, <3>c, <3>3 DEF Agree, RateOf
      <3> QED BY <3>4 DEF g, w
    <2> QED BY <2>5, <2>6
  <1> QED BY <1>3, <1>4, <1>5, <1>6, <1>7 DEF Functions, Texts
\* Where the program is, and what it has received of an answer.
CallOK ==
    /\ call.at \in {"idle", "send", "receive", "done"}
    /\ call.at # "idle" => call.fn \in Functions /\ call.cmd \in {H!INIT_STRING, H!Command(call.fn)}
    /\ call.at = "receive" =>
         /\ call = [f \in ReceiveFields |-> call[f]]
         /\ call.recv_seq = 1 /\ call.cmd # H!INIT_STRING /\ wire # <<>> => wire[1] \in Follows(call.cmd)
    /\ call.at \in {"receive", "done"} /\ call.cmd # H!INIT_STRING => OwnReply(call.reply, call.cmd)
Followed(w) ==
    /\ w \in Seq(ModemLines)
    /\ \A i \in 1 .. Len(w), cmd \in Asked : w[i] = Echo(cmd) => i + 1 <= Len(w) /\ w[i + 1] \in Follows(cmd)
Connection ==
    /\ connected \in {-1, 0, 1}
    /\ connected # 1 => call = H!Idle /\ configured = FALSE /\ given = H!Nothing /\ Blank(val)

\* How far the answer to the command is, when every line of it comes in time.
Afterwards(c, r) == Agree(Reached(val, c.fn, c.cmd, r), given)
Silent(c) == c.recv_seq = 0 /\ c.reply = H!Empty /\ wire = <<>> /\ Afterwards(c, H!Empty)
Underway(c, r) ==
    /\ Afterwards(c, r)
    /\ \/ c.recv_seq = 0 /\ c.run = 0
          /\ wire = IF r.kind = "data" THEN <<Echo(c.cmd), r, H!OK>> ELSE <<Echo(c.cmd), r>>
       \/ c.recv_seq = 1 /\ c.run = 1 /\ wire = IF r.kind = "data" THEN <<r, H!OK>> ELSE <<r>>
       \/ c.recv_seq = 2 /\ c.run = 2 /\ wire = <<H!OK>> /\ r.kind = "data" /\ c.reply = r
AnswerStage ==
    /\ call.at # "receive" => wire = <<>>
    /\ call.at \in {"idle", "send"} => Agree(val, given)
    /\ call.at = "done" => Afterwards(call, call.reply)
    /\ call.at = "receive" => Silent(call) \/ \E r \in Follows(call.cmd) : Underway(call, r)
HuaweiInv ==
    /\ calls \in Calls
    /\ CallOK /\ Followed(wire) /\ Connection
    /\ ValShape(val) /\ OwnedValues(val) /\ GivenOK(given)
    /\ ~lost => AnswerStage

LEMMA Different ==
    ASSUME NEW cmd, NEW other, NEW x, NEW y
    PROVE  /\ Echo(cmd) = Echo(other) => cmd = other
           /\ H!Line("data", cmd, <<x>>) # Echo(other)
           /\ H!Line("data", cmd, <<x>>) \notin {H!OK, H!ERROR, H!Empty, H!Garbage}
           /\ Echo(cmd) \notin {H!OK, H!ERROR, H!Empty, H!Garbage}
           /\ H!OK # H!ERROR /\ H!OK # H!Empty /\ H!ERROR # H!Empty
           /\ H!Garbage # H!ERROR /\ H!Garbage # H!Empty /\ H!Garbage # H!OK
  <1> DEFINE d == H!Line("data", cmd, <<x>>)
  <1>1. d.kind = "data"
    BY DataKind, Zenon
  <1> HIDE DEF d
  <1>2. d # Echo(other) /\ d \notin {H!OK, H!ERROR, H!Empty, H!Garbage}
    BY <1>1, Kinds
  <1>3. Echo(cmd) = Echo(other) => cmd = other
    <2>1. Echo(cmd).of = cmd /\ Echo(other).of = other
      BY Kinds, Zenon
    <2> QED BY <2>1
  <1>4. Echo(cmd) \notin {H!OK, H!ERROR, H!Empty, H!Garbage}
    <2>1. Echo(cmd).kind = "echo"
      BY Kinds, Zenon
    <2> QED BY <2>1, Kinds
  <1>5. /\ H!OK # H!ERROR /\ H!OK # H!Empty /\ H!ERROR # H!Empty
        /\ H!Garbage # H!ERROR /\ H!Garbage # H!Empty /\ H!Garbage # H!OK
    BY Kinds
  <1> QED BY <1>2, <1>3, <1>4, <1>5, Zenon DEF d

\* What follows an echo.
LEMMA FollowsAre ==
    ASSUME NEW cmd \in Asked, NEW r \in Follows(cmd)
    PROVE  /\ r \in ModemLines
           /\ r = H!ERROR \/ (cmd = H!INIT_STRING /\ r = H!OK)
              \/ (cmd # H!INIT_STRING /\ \E v \in AnyReport(cmd) : r = H!Line("data", cmd, <<v>>))
           /\ r.kind = "data" <=> r \notin {H!ERROR, H!OK}
           /\ \A other : r # Echo(other)
           /\ r # H!Empty
  <1>1. CASE r \in {H!ERROR, H!OK}
    <2>1. r \in ModemLines
      BY <1>1 DEF ModemLines
    <2>2. r = H!ERROR \/ (cmd = H!INIT_STRING /\ r = H!OK)
      BY <1>1, Different DEF Follows, DataLines
    <2> QED BY <1>1, <2>1, <2>2, Kinds
  <1>2. ASSUME cmd # H!INIT_STRING, NEW v \in AnyReport(cmd), r = H!Line("data", cmd, <<v>>)
        PROVE  /\ r \in ModemLines /\ r.kind = "data" /\ r \notin {H!ERROR, H!OK, H!Empty}
               /\ \A other : r # Echo(other)
    <2>1. r \in ModemLines
      BY <1>2 DEF ModemLines, DataLines, Asked
    <2> QED BY <1>2, <2>1, Different, DataKind
  <1> QED BY <1>1, <1>2 DEF Follows, DataLines

\* Even a line in pieces is of its own command.
LEMMA ReplyOwn ==
    ASSUME NEW cmd \in Asked, cmd # H!INIT_STRING, NEW r \in Follows(cmd)
    PROVE  OwnReply(r, cmd) /\ \A l \in H!Torn(r) : OwnReply(l, cmd) /\ l # H!Empty
  <1>1. CASE r = H!ERROR
    <2>1. ~H!IsData(r, "+CSQ") /\ ~H!IsData(r, "^SYSINFO")
      BY <1>1, Kinds DEF H!IsData
    <2> QED BY <1>1, <2>1, Different DEF H!Torn, OwnReply
  <1>2. ASSUME NEW v \in AnyReport(cmd), r = H!Line("data", cmd, <<v>>)
        PROVE  OwnReply(r, cmd) /\ \A l \in H!Torn(r) : OwnReply(l, cmd) /\ l # H!Empty
    <2>1. r.kind = "data" /\ r.of = cmd /\ r.value = <<v>> /\ r.value[1] = v
      BY <1>2, DataKind, Zenon
    <2>2. OwnReply(r, cmd)
      BY <2>1 DEF OwnReply, H!IsData, AnyReport
    <2>3. ASSUME cmd \in {"+CSQ", "^SYSINFO"}
          PROVE  LET l == [r EXCEPT !.value[1] = H!Repeated(@)] IN OwnReply(l, cmd) /\ l # H!Empty
      <3> DEFINE l == [r EXCEPT !.value[1] = H!Repeated(@)]
      <3>1. l = H!Line("data", cmd, <<H!Repeated(v)>>)
        BY <1>2 DEF H!Line
      <3> HIDE DEF l
      <3>2. l.kind = "data" /\ l.of = cmd /\ l.value[1] = H!Repeated(v)
        BY <3>1, DataKind
      <3>3. cmd = "+CSQ" => H!Repeated(v) \in {H!Repeated(n) : n \in Rssi}
        BY DEF AnyReport
      <3>4. OwnReply(l, cmd)
        BY <2>3, <3>2, <3>3 DEF OwnReply, H!IsData
      <3>5. l # H!Empty
        BY <3>2, Kinds
      <3> QED BY <3>4, <3>5 DEF l
    <2>4. OwnReply(H!Garbage, cmd) /\ H!Garbage # H!Empty /\ r # H!Empty
      BY <2>1, Kinds DEF OwnReply
    <2> QED BY <2>1, <2>2, <2>3, <2>4 DEF H!Torn, H!IsData
  <1> QED BY <1>1, <1>2, FollowsAre

\* A function returns: only the value answered, or what a mode's text is taken
\* from, changes.
LEMMA ReturnKeeps ==
    ASSUME NEW v, ValShape(v), NEW w, NEW x, NEW y, v.sub_mode = 0 => y = 0,
           w = v \/ w = [v EXCEPT !.value = x] \/ w = [v EXCEPT !.sub_mode = y]
    PROVE  /\ ValShape(w)
           /\ OwnedValues(v) => OwnedValues(w)
           /\ Blank(v) => Blank(w)
           /\ \A g : Agree(v, g) => Agree(w, g)
  <1>1. /\ w.rssi = v.rssi /\ w.mode = v.mode /\ w.flow = v.flow /\ w.prev = v.prev
        /\ w.rate = v.rate /\ w.text = v.text /\ w.operator = v.operator
        /\ v.sub_mode = 0 => w.sub_mode = 0
    <2>1. CASE w = v
      BY <2>1
    <2>2. CASE w = [v EXCEPT !.value = x]
      BY <2>2 DEF ValShape, ValFields
    <2>3. CASE w = [v EXCEPT !.sub_mode = y]
      BY <2>3 DEF ValShape, ValFields
    <2> QED BY <2>1, <2>2, <2>3
  <1>2. w = [f \in ValFields |-> w[f]]
    BY DEF ValShape, ValFields
  <1>3. ValShape(w)
    BY <1>1, <1>2 DEF ValShape
  <1>4. (OwnedValues(v) => OwnedValues(w)) /\ (Blank(v) => Blank(w))
    BY <1>1 DEF OwnedValues, Blank
  <1>5. \A g : Agree(v, g) => Agree(w, g)
    BY <1>1 DEF Agree
  <1> QED BY <1>3, <1>4, <1>5

\* A refusal or silence changes no variable.
LEMMA ReadRefused ==
    ASSUME NEW v, NEW fn \in Functions, NEW reply \in {H!Empty, H!ERROR}
    PROVE  H!Read(v, fn, reply) = v
  <1>1. \A cmd : ~H!IsData(reply, cmd)
    BY Kinds DEF H!IsData
  <1> QED BY <1>1 DEF H!Read, H!huawei_read_quality, H!huawei_read_sysinfo, H!huawei_read_operator,
                      H!huawei_read_flowreport, H!read_text

\* Without a modem the variables are cleared.
LEMMA ClearedBlank ==
    ASSUME NEW v, ValShape(v)
    PROVE  LET w == H!Cleared(v) IN ValShape(w) /\ OwnedValues(w) /\ Blank(w)
  <1> DEFINE w == H!Cleared(v)
  <1>0. NameSize \in Nat \ {0}
    BY HuaweiNumbers, Zenon
  <1>1. w = [v EXCEPT !.rssi = 0, !.sub_mode = 0, !.flow = H!NoFlow, !.rate = <<0, 1>>,
                      !.text = [fn \in Texts |-> H!Empty], !.operator[1] = ""]
    BY DEF H!Cleared, ValShape, ValFields
  <1> HIDE DEF w
  <1>2. w = [f \in ValFields |-> w[f]] /\ w.rssi = 0 /\ w.sub_mode = 0 /\ w.flow = H!NoFlow /\ w.rate = <<0, 1>>
        /\ w.text = [fn \in Texts |-> H!Empty] /\ w.operator = [v.operator EXCEPT ![1] = ""]
    BY <1>1 DEF ValShape, ValFields
  <1>3. w.operator = [i \in 1 .. NameSize |-> w.operator[i]] /\ w.operator[NameSize] = "" /\ w.operator[1] = ""
    <2> DEFINE op == v.operator
    <2>1. DOMAIN op = 1 .. NameSize /\ op[NameSize] = "" /\ w.operator = [op EXCEPT ![1] = ""]
      BY <1>2 DEF ValShape
    <2>2. op = [i \in 1 .. NameSize |-> op[i]]
      BY DEF ValShape
    <2> HIDE DEF op
    <2>3. 1 \in 1 .. NameSize /\ NameSize \in 1 .. NameSize
      BY <1>0
    <2>4. DOMAIN w.operator = 1 .. NameSize
      BY <2>1
    <2>5. w.operator = [i \in 1 .. NameSize |-> IF i = 1 THEN "" ELSE op[i]]
      BY <2>1, <2>2
    <2> QED BY <2>1, <2>3, <2>5
  <1>4. w.text = [fn \in Texts |-> w.text[fn]] /\ \A fn \in Texts : w.text[fn] = H!Empty
    BY <1>2
  <1>5. ValShape(w) /\ Blank(w)
    BY <1>2, <1>3, <1>4 DEF ValShape, Blank
  <1>6. OwnedValues(w)
    BY <1>2, <1>4, Kinds DEF OwnedValues
  <1> QED BY <1>5, <1>6 DEF w

\* To a modem that reported nothing any variables agree, but for the texts.
LEMMA NothingAgrees ==
    GivenOK(H!Nothing) /\ \A v : (\A fn \in Texts : v.text[fn] = H!Empty) => Agree(v, H!Nothing)
  BY DEF GivenOK, GivenFields, H!Nothing, H!NoFlow, Agree

\* A return as a step.
LEMMA Returned ==
    ASSUME NEW v, ValShape(v), NEW fn, NEW arg, H!Return(v, fn, arg)
    PROVE  /\ call' = H!Idle /\ ValShape(val')
           /\ OwnedValues(v) => OwnedValues(val')
           /\ Blank(v) => Blank(val')
           /\ \A g : Agree(v, g) => Agree(val', g)
  <1> DEFINE x == H!Value(v, fn, arg)
             y == H!Min({v.sub_mode, 8})
             w == val'
  <1>1. v.sub_mode = 0 => y = 0
    BY MinOfCounts
  <1>2. w = v \/ w = [v EXCEPT !.value = x] \/ w = [v EXCEPT !.sub_mode = y]
    BY DEF H!Return
  <1>3. call' = H!Idle
    BY DEF H!Return
  <1> HIDE DEF x, y, w
  <1>4. /\ ValShape(w) /\ (OwnedValues(v) => OwnedValues(w)) /\ (Blank(v) => Blank(w))
        /\ \A g : Agree(v, g) => Agree(w, g)
    BY <1>1, <1>2, ReturnKeeps
  <1> QED BY <1>3, <1>4 DEF w

\* Where a call may be after a step.
LEMMA CallIdle == ASSUME call' = H!Idle PROVE CallOK' /\ call'.at = "idle"
  BY DEF CallOK, H!Idle

LEMMA CallSent ==
    ASSUME NEW fn \in Functions, NEW arg, NEW cmd \in {H!INIT_STRING, H!Command(fn)}, H!Sending(fn, arg, cmd)
    PROVE  CallOK' /\ call'.at = "send" /\ call'.fn = fn /\ call'.cmd = cmd
  BY DEF CallOK, H!Sending

LEMMA CallKept ==
    ASSUME CallOK, UNCHANGED call, wire' = wire \/ wire' = <<>>
    PROVE  CallOK'
  BY DEF CallOK

LEMMA NoneFollowed == Followed(<<>>)
  BY EmptySeq DEF Followed

\* A function that answers from the variables.
LEMMA CachedKeeps ==
    ASSUME HuaweiInv, NEW fn, NEW arg, H!Cached(fn, arg), UNCHANGED calls
    PROVE  HuaweiInv'
  <1>1. H!Return(val, fn, arg) /\ UNCHANGED <<connected, configured, wire, given, lost>> /\ call.at = "idle"
    BY DEF H!Cached
  <1>2. /\ call' = H!Idle /\ ValShape(val') /\ OwnedValues(val') /\ (Blank(val) => Blank(val'))
        /\ \A g : Agree(val, g) => Agree(val', g)
    BY <1>1, Returned DEF HuaweiInv
  <1>3. CallOK' /\ call'.at = "idle"
    BY <1>2, CallIdle
  <1>4. Connection'
    BY <1>1, <1>2 DEF HuaweiInv, Connection
  <1>5. ~lost' => AnswerStage'
    BY <1>1, <1>2, <1>3 DEF HuaweiInv, AnswerStage
  <1> QED BY <1>1, <1>2, <1>3, <1>4, <1>5 DEF HuaweiInv

\* huawei_configured() and what the call goes on with.
LEMMA AskKeeps ==
    ASSUME HuaweiInv, NEW fn \in Functions, NEW arg, H!Ask(fn, arg), UNCHANGED calls
    PROVE  HuaweiInv'
  <1> DEFINE v == IF connected' = 0 THEN H!Cleared(val) ELSE val
  <1>1. call.at = "idle" /\ connected \in {-1, 0, 1} /\ ValShape(val) /\ OwnedValues(val) /\ GivenOK(given)
    BY DEF H!Ask, HuaweiInv, Connection
  <1>2. configured' = (configured /\ connected' # 0)
    BY DEF H!Ask
  <1>3. IF configured' THEN H!Sending(fn, arg, H!Command(fn)) /\ val' = v
        ELSE IF connected' = 1 THEN H!Sending(fn, arg, H!INIT_STRING) /\ val' = v ELSE H!Return(v, fn, arg)
    BY DEF H!Ask
  <1>4. ValShape(v) /\ OwnedValues(v) /\ (Blank(val) => Blank(v)) /\ (connected' = 0 => Blank(v))
    BY <1>1, ClearedBlank
  <1>5. \/ connected' = 0 /\ given' = H!Nothing /\ UNCHANGED <<wire, lost>>
        \/ connected # 1 /\ connected' = 1 /\ wire' = <<>> /\ lost' = FALSE /\ given' = H!Nothing
        \/ UNCHANGED <<connected, wire, lost, given>>
    BY DEF H!Ask, H!huawei_configure_port
  <1>6. /\ connected' \in {-1, 0, 1}
        /\ connected' # 1 => configured' = FALSE /\ given' = H!Nothing /\ Blank(v)
    BY <1>1, <1>2, <1>4, <1>5 DEF HuaweiInv, Connection
  <1>7. GivenOK(given') /\ Followed(wire')
    BY <1>1, <1>5, NothingAgrees, NoneFollowed DEF HuaweiInv
  <1>8. ~lost' => wire' = <<>> /\ Agree(v, given')
    <2>1. CASE \/ connected' = 0
               \/ (connected # 1 /\ connected' = 1 /\ wire' = <<>> /\ lost' = FALSE /\ given' = H!Nothing)
      <3>1. \A t \in Texts : v.text[t] = H!Empty
        BY <1>4, <2>1 DEF Blank, HuaweiInv, Connection
      <3>2. given' = H!Nothing
        BY <2>1, <1>6
      <3>3. Agree(v, given')
        BY <3>1, <3>2, NothingAgrees
      <3>4. ~lost' => wire' = <<>>
        BY <1>1, <1>5 DEF HuaweiInv, AnswerStage
      <3> QED BY <3>3, <3>4
    <2>2. CASE connected' # 0 /\ UNCHANGED <<connected, wire, lost, given>>
      BY <1>1, <2>2 DEF HuaweiInv, AnswerStage
    <2> QED BY <1>5, <2>1, <2>2
  <1> HIDE DEF v
  <1>9. CASE configured' \/ connected' = 1
    <2>1. val' = v /\ \E cmd \in {H!INIT_STRING, H!Command(fn)} : H!Sending(fn, arg, cmd)
      BY <1>3, <1>9
    <2>2. CallOK' /\ call'.at = "send"
      BY <2>1, CallSent
    <2>3. connected' = 1
      BY <1>6, <1>9
    <2>4. Connection'
      BY <2>3 DEF Connection
    <2>5. ~lost' => AnswerStage'
      BY <1>8, <2>1, <2>2 DEF AnswerStage
    <2> QED BY <1>4, <1>7, <2>1, <2>2, <2>4, <2>5 DEF HuaweiInv
  <1>10. CASE ~configured' /\ connected' # 1
    <2>1. H!Return(v, fn, arg)
      BY <1>3, <1>10
    <2>2. /\ call' = H!Idle /\ ValShape(val') /\ OwnedValues(val') /\ (Blank(v) => Blank(val'))
          /\ \A g : Agree(v, g) => Agree(val', g)
      BY <1>4, <2>1, Returned
    <2>3. CallOK' /\ call'.at = "idle"
      BY <2>2, CallIdle
    <2>4. Connection'
      BY <1>6, <2>2 DEF Connection
    <2>5. ~lost' => AnswerStage'
      BY <1>8, <2>2, <2>3 DEF AnswerStage
    <2> QED BY <1>7, <2>2, <2>3, <2>4, <2>5 DEF HuaweiInv
  <1> QED BY <1>9, <1>10

\* The modem is pulled out, put in, or changes its health.
LEMMA LeaveKeeps ==
    ASSUME HuaweiInv, UNCHANGED <<calls, connected, configured, call, val, given>>,
           (wire' = wire /\ lost' = lost) \/ (wire' = <<>> /\ lost' = (lost \/ wire # <<>>))
    PROVE  HuaweiInv'
  <1>1. CallOK' /\ Followed(wire')
    BY CallKept, NoneFollowed DEF HuaweiInv
  <1>2. ~lost' => ~lost /\ wire' = wire
    OBVIOUS
  <1>3. ~lost' => AnswerStage'
    BY <1>2 DEF HuaweiInv, AnswerStage, Silent, Underway, Afterwards
  <1> QED BY <1>1, <1>3 DEF HuaweiInv, Connection

\* The reply is evaluated.
LEMMA DoneKeeps ==
    ASSUME HuaweiInv, H!Done, UNCHANGED calls
    PROVE  HuaweiInv'
  <1> DEFINE fn == call.fn
             arg == call.arg
             read == H!Read(val, fn, call.reply)
  <1>1. call.at = "done" /\ UNCHANGED <<connected, wire, given, lost>>
    BY DEF H!Done
  <1>2. fn \in Functions /\ call.cmd \in {H!INIT_STRING, H!Command(fn)} /\ H!Command(fn) # H!INIT_STRING
    BY <1>1, CommandKnown DEF HuaweiInv, CallOK
  <1>3. connected = 1
    BY <1>1 DEF HuaweiInv, Connection, H!Idle
  <1>4. Connection' /\ Followed(wire')
    BY <1>1, <1>3 DEF Connection, HuaweiInv
  <1>5. ~lost' => wire' = <<>> /\ Agree(Reached(val, fn, call.cmd, call.reply), given)
    BY <1>1 DEF HuaweiInv, AnswerStage, Afterwards
  <1>6. CASE call.cmd = H!INIT_STRING /\ configured'
    <2>1. H!Sending(fn, arg, H!Command(fn)) /\ UNCHANGED val
      BY <1>6 DEF H!Done
    <2>2. CallOK' /\ call'.at = "send"
      BY <1>2, <2>1, CallSent
    <2>3. ~lost' => AnswerStage'
      BY <1>1, <1>5, <1>6, <2>1, <2>2 DEF AnswerStage, Reached
    <2> QED BY <1>1, <1>4, <2>1, <2>2, <2>3 DEF HuaweiInv
  <1>7. CASE call.cmd = H!INIT_STRING /\ ~configured'
    <2>1. H!Return(val, fn, arg)
      BY <1>7 DEF H!Done
    <2>2. /\ call' = H!Idle /\ ValShape(val') /\ OwnedValues(val')
          /\ \A g : Agree(val, g) => Agree(val', g)
      BY <2>1, Returned DEF HuaweiInv
    <2>3. CallOK' /\ call'.at = "idle"
      BY <2>2, CallIdle
    <2>4. ~lost' => AnswerStage'
      BY <1>1, <1>5, <1>7, <2>2, <2>3 DEF AnswerStage, Reached
    <2> QED BY <1>1, <1>4, <2>2, <2>3, <2>4 DEF HuaweiInv
  <1>8. CASE call.cmd # H!INIT_STRING
    <2>1. H!Return(read, fn, arg)
      BY <1>8 DEF H!Done
    <2>2. OwnReply(call.reply, H!Command(fn))
      BY <1>1, <1>2, <1>8 DEF HuaweiInv, CallOK
    <2>3. ValShape(read) /\ OwnedValues(read)
      BY <1>2, <2>2, ReadOwn DEF HuaweiInv
    <2> HIDE DEF read
    <2>4. /\ call' = H!Idle /\ ValShape(val') /\ OwnedValues(val')
          /\ \A g : Agree(read, g) => Agree(val', g)
      BY <2>1, <2>3, Returned
    <2>5. CallOK' /\ call'.at = "idle"
      BY <2>4, CallIdle
    <2>6. ~lost' => AnswerStage'
      BY <1>1, <1>5, <1>8, <2>4, <2>5 DEF AnswerStage, Reached, read
    <2> QED BY <1>1, <1>4, <2>4, <2>5, <2>6 DEF HuaweiInv
  <1> QED BY <1>6, <1>7, <1>8

\* Every echo on the wire stays followed by its answer.
LEMMA FollowedJoined ==
    ASSUME NEW w, Followed(w), NEW lines, Followed(lines)
    PROVE  Followed(w \o lines)
  <1> DEFINE j == w \o lines
  <1>1. /\ j \in Seq(ModemLines) /\ Len(j) = Len(w) + Len(lines) /\ Len(w) \in Nat /\ Len(lines) \in Nat
        /\ \A i \in 1 .. Len(j) : j[i] = IF i <= Len(w) THEN w[i] ELSE lines[i - Len(w)]
    BY DEF Followed
  <1> HIDE DEF j
  <1>2. ASSUME NEW i \in 1 .. Len(j), NEW cmd \in Asked, j[i] = Echo(cmd)
        PROVE  i + 1 <= Len(j) /\ j[i + 1] \in Follows(cmd)
    <2>1. CASE i <= Len(w)
      <3>1. i \in 1 .. Len(w) /\ w[i] = Echo(cmd)
        BY <1>1, <1>2, <2>1
      <3>2. i + 1 <= Len(w) /\ w[i + 1] \in Follows(cmd)
        BY <3>1 DEF Followed
      <3> QED BY <1>1, <3>2
    <2>2. CASE ~(i <= Len(w))
      <3> DEFINE k == i - Len(w)
      <3>1. k \in 1 .. Len(lines) /\ lines[k] = Echo(cmd)
        BY <1>1, <1>2, <2>2
      <3>2. k + 1 <= Len(lines) /\ lines[k + 1] \in Follows(cmd)
        BY <3>1 DEF Followed
      <3>3. i + 1 <= Len(j) /\ ~(i + 1 <= Len(w)) /\ (i + 1) - Len(w) = k + 1 /\ i + 1 \in 1 .. Len(j)
        BY <1>1, <2>2, <3>2
      <3> QED BY <1>1, <3>2, <3>3
    <2> QED BY <2>1, <2>2
  <1> QED BY <1>1, <1>2 DEF Followed, j

LEMMA FollowedTail ==
    ASSUME NEW w, Followed(w), w # <<>>
    PROVE  /\ Followed(Tail(w))
           /\ Head(w) = w[1] /\ w[1] \in ModemLines
           /\ \A cmd \in Asked : w[1] = Echo(cmd) => Tail(w) # <<>> /\ Tail(w)[1] \in Follows(cmd)
  <1> DEFINE t == Tail(w)
  <1>1. /\ w \in Seq(ModemLines) /\ Len(w) \in Nat \ {0} /\ t \in Seq(ModemLines) /\ Len(t) = Len(w) - 1
        /\ \A i \in 1 .. Len(t) : t[i] = w[i + 1]
    BY DEF Followed
  <1>2. Head(w) = w[1] /\ w[1] \in ModemLines
    BY <1>1
  <1> HIDE DEF t
  <1>3. ASSUME NEW i \in 1 .. Len(t), NEW cmd \in Asked, t[i] = Echo(cmd)
        PROVE  i + 1 <= Len(t) /\ t[i + 1] \in Follows(cmd)
    <2>1. i + 1 \in 1 .. Len(w) /\ w[i + 1] = Echo(cmd)
      BY <1>1, <1>3
    <2>2. i + 2 <= Len(w) /\ w[i + 2] \in Follows(cmd)
      BY <2>1 DEF Followed
    <2> QED BY <1>1, <2>2
  <1>4. ASSUME NEW cmd \in Asked, w[1] = Echo(cmd) PROVE t # <<>> /\ t[1] \in Follows(cmd)
    <2>1. 2 <= Len(w) /\ w[2] \in Follows(cmd)
      BY <1>1, <1>4 DEF Followed
    <2>2. Len(t) # 0 /\ t[1] \in Follows(cmd)
      BY <1>1, <2>1
    <2> QED BY <1>1, <2>2, EmptySeq
  <1> QED BY <1>1, <1>2, <1>3, <1>4 DEF Followed, t

LEMMA FollowedAnswer ==
    ASSUME NEW cmd \in Asked, NEW r \in Follows(cmd)
    PROVE  Followed(<<Echo(cmd), r>>) /\ Followed(<<Echo(cmd), r, H!OK>>)
  <1>1. r \in ModemLines /\ H!OK \in ModemLines /\ Echo(cmd) \in ModemLines
    BY FollowsAre DEF ModemLines
  <1>2. \A other \in Asked : r # Echo(other) /\ H!OK # Echo(other)
    BY FollowsAre, Different
  <1>3. \A other \in Asked : Echo(cmd) = Echo(other) => cmd = other
    BY Different
  <1> DEFINE two == <<Echo(cmd), r>>
             three == <<Echo(cmd), r, H!OK>>
  <1>4. two \in Seq(ModemLines) /\ Len(two) = 2 /\ two[1] = Echo(cmd) /\ two[2] = r
    BY <1>1
  <1>5. three \in Seq(ModemLines) /\ Len(three) = 3 /\ three[1] = Echo(cmd) /\ three[2] = r /\ three[3] = H!OK
    BY <1>1
  <1> HIDE DEF two, three
  <1>6. Followed(two)
    BY <1>2, <1>3, <1>4 DEF Followed
  <1>7. Followed(three)
    BY <1>2, <1>3, <1>5 DEF Followed
  <1> QED BY <1>6, <1>7 DEF two, three

\* The answer to "cmd", when it comes in time, leaves the variables as reported.
LEMMA AnswerAgrees ==
    ASSUME ValShape(val), GivenOK(given), NEW fn \in Functions, NEW cmd \in {H!INIT_STRING, H!Command(fn)},
           NEW r \in Follows(cmd), r.kind = "data" => r.value[1] \in H!Reports(cmd)
    PROVE  LET lines == IF r.kind = "data" THEN <<Echo(cmd), r, H!OK>> ELSE <<Echo(cmd), r>>
               g == H!Reported(lines)
           IN GivenOK(g) /\ (Agree(val, given) => Agree(Reached(val, fn, cmd, r), g))
  <1> DEFINE lines == IF r.kind = "data" THEN <<Echo(cmd), r, H!OK>> ELSE <<Echo(cmd), r>>
             g == H!Reported(lines)
  <1>1. cmd \in Asked /\ H!Command(fn) \in Commands /\ H!Command(fn) # H!INIT_STRING
    BY CommandKnown DEF Asked
  <1>2. CASE r = H!ERROR
    <2>1. g = given
      BY <1>1, <1>2, ReportedIs, Kinds
    <2>2. Reached(val, fn, cmd, r) = val
      BY <1>2, ReadRefused DEF Reached
    <2> QED BY <2>1, <2>2
  <1>3. CASE cmd = H!INIT_STRING /\ r = H!OK
    <2>1. g = [given EXCEPT !.flows = 0, !.flow = H!NoFlow]
      BY <1>1, <1>3, ReportedIs, Kinds
    <2>2. Reached(val, fn, cmd, r) = val
      BY <1>3 DEF Reached
    <2>3. /\ g.rssi = given.rssi /\ g.mode = given.mode /\ g.named = given.named /\ g.operator = given.operator
          /\ g.flows = 0 /\ g.flow = H!NoFlow /\ g = [f \in GivenFields |-> g[f]]
      BY <2>1 DEF GivenOK, GivenFields
    <2> HIDE DEF g
    <2>4. GivenOK(g)
      BY <2>3 DEF GivenOK, H!NoFlow
    <2>5. ASSUME Agree(val, given) PROVE Agree(val, g)
      <3>1. ~(g.flows > 0) /\ g.flows # 2
        BY <2>3
      <3> QED BY <2>3, <2>5, <3>1, Zenon DEF Agree
    <2> QED BY <2>2, <2>4, <2>5 DEF g
  <1>4. ASSUME cmd # H!INIT_STRING, NEW x \in AnyReport(cmd), r = H!Line("data", cmd, <<x>>)
        PROVE  GivenOK(g) /\ (Agree(val, given) => Agree(Reached(val, fn, cmd, r), g))
    <2>1. r.kind = "data" /\ r.value[1] = x /\ cmd = H!Command(fn)
      BY <1>4, DataKind
    <2>2. /\ x \in H!Reports(H!Command(fn))
          /\ lines = <<Echo(H!Command(fn)), H!Line("data", H!Command(fn), <<x>>), H!OK>>
      BY <1>4, <2>1
    <2>3. GivenOK(g)
      BY <1>1, <2>2, ReportedOK
    <2>4. Agree(val, given) => Agree(H!Read(val, fn, r), g)
      BY <1>4, <2>1, <2>2, SentAgrees
    <2> QED BY <1>4, <2>3, <2>4 DEF Reached
  <1> QED BY <1>1, <1>2, <1>3, <1>4, FollowsAre

\* A command is sent, and answered or not.
LEMMA SendKeeps ==
    ASSUME HuaweiInv, H!huawei_send, UNCHANGED calls
    PROVE  HuaweiInv'
  <1> DEFINE fn == call.fn
             cmd == call.cmd
  <1>1. call.at = "send" /\ UNCHANGED <<connected, configured, val, lost>>
    BY DEF H!huawei_send
  <1>2. fn \in Functions /\ cmd \in {H!INIT_STRING, H!Command(fn)} /\ cmd \in Asked
    BY <1>1, CommandKnown DEF HuaweiInv, CallOK, Asked
  <1>3. connected = 1
    BY <1>1 DEF HuaweiInv, Connection, H!Idle
  <1>4. Connection'
    BY <1>1, <1>3 DEF Connection
  <1>5. ~lost => wire = <<>> /\ Agree(val, given)
    BY <1>1 DEF HuaweiInv, AnswerStage
  <1>6. OwnReply(H!Empty, cmd)
    BY DEF OwnReply
  <1>7. CASE fd # "open"
    <2>1. /\ call' = [at |-> "done", fn |-> fn, arg |-> call.arg, cmd |-> cmd, reply |-> H!Empty]
          /\ UNCHANGED <<wire, given>>
      BY <1>7 DEF H!huawei_send
    <2>2. CallOK' /\ call'.at = "done" /\ call'.reply = H!Empty /\ call'.fn = fn /\ call'.cmd = cmd
      BY <1>2, <1>6, <2>1 DEF CallOK
    <2>3. Reached(val, fn, cmd, H!Empty) = val
      BY <1>2, ReadRefused DEF Reached
    <2>4. ~lost' => AnswerStage'
      BY <1>1, <1>5, <2>1, <2>2, <2>3 DEF AnswerStage, Afterwards
    <2> QED BY <1>1, <1>4, <2>1, <2>2, <2>4 DEF HuaweiInv
  <1>8. CASE fd = "open"
    <2>1. PICK lines \in H!Answers(cmd) : wire' = wire \o lines /\ given' = H!Reported(lines)
      BY <1>8 DEF H!huawei_send
    <2>2. call' = [at |-> "receive", fn |-> fn, arg |-> call.arg, cmd |-> cmd,
                   run |-> 0, recv_seq |-> 0, reply |-> H!Empty]
      BY <1>8 DEF H!huawei_send
    <2>3. /\ call'.at = "receive" /\ call'.fn = fn /\ call'.cmd = cmd /\ call'.recv_seq = 0 /\ call'.run = 0
          /\ call'.reply = H!Empty /\ call' = [f \in ReceiveFields |-> call'[f]]
      BY <2>2 DEF ReceiveFields
    <2>4. CallOK'
      BY <1>2, <1>6, <2>3 DEF CallOK
    <2>5. CASE lines = <<>>
      <3>a. H!Reported(<<>>) = given
        BY <1>2, ReportedIs
      <3>b. wire \o <<>> = wire
        BY ConcatEmptySeq DEF HuaweiInv, Followed
      <3>1. wire' = wire /\ given' = given
        BY <2>1, <2>5, <3>a, <3>b
      <3>2. Reached(val, fn, cmd, H!Empty) = val
        BY <1>2, ReadRefused DEF Reached
      <3>3. ~lost' => AnswerStage'
        BY <1>1, <1>5, <2>3, <3>1, <3>2 DEF AnswerStage, Silent, Afterwards
      <3> QED BY <1>1, <1>4, <2>4, <3>1, <3>3 DEF HuaweiInv
    <2>6. ASSUME NEW r \in Follows(cmd), r.kind = "data" => r.value[1] \in H!Reports(cmd),
                 lines = IF r.kind = "data" THEN <<Echo(cmd), r, H!OK>> ELSE <<Echo(cmd), r>>
          PROVE  HuaweiInv'
      <3>1. Followed(lines)
        BY <1>2, <2>6, FollowedAnswer
      <3>2. Followed(wire')
        BY <2>1, <3>1, FollowedJoined DEF HuaweiInv
      <3>3. GivenOK(given') /\ (Agree(val, given) => Agree(Reached(val, fn, cmd, r), given'))
        BY <1>2, <2>1, <2>6, AnswerAgrees DEF HuaweiInv
      <3>4. ~lost => wire' = lines
        BY <1>5, <2>1, <3>1 DEF Followed
      <3>5. ~lost' => Afterwards(call, r)' /\ wire' = lines
        BY <1>1, <1>5, <2>3, <3>3, <3>4 DEF Afterwards
      <3>6. ~lost' => Underway(call, r)'
        BY <2>3, <2>6, <3>5 DEF Underway
      <3>7. ~lost' => AnswerStage'
        BY <2>3, <3>6 DEF AnswerStage
      <3> QED BY <1>1, <1>4, <2>4, <3>2, <3>3, <3>7 DEF HuaweiInv
    <2> QED BY <1>2, <2>5, <2>6, AnswersAre
  <1> QED BY <1>7, <1>8

\* No echo comes from a line in pieces.
LEMMA TornLine ==
    ASSUME NEW line \in ModemLines, NEW l \in H!Torn(line)
    PROVE  l = line \/ l = H!Garbage \/ l.kind = "data"
  <1>1. CASE H!IsData(line, "+CSQ") \/ H!IsData(line, "^SYSINFO")
    <2>1. line.kind = "data"
      BY <1>1 DEF H!IsData
    <2>2. PICK cmd \in Commands : line \in DataLines(cmd)
      BY <2>1, Kinds DEF ModemLines
    <2>3. PICK v \in AnyReport(cmd) : line = H!Line("data", cmd, <<v>>)
      BY <2>2 DEF DataLines
    <2>4. [line EXCEPT !.value[1] = H!Repeated(@)].kind = "data"
      BY <2>3 DEF H!Line
    <2> QED BY <2>4 DEF H!Torn
  <1>2. CASE ~(H!IsData(line, "+CSQ") \/ H!IsData(line, "^SYSINFO"))
    BY <1>2 DEF H!Torn
  <1> QED BY <1>1, <1>2

\* A line is taken.
Advance(c, line, seq, reply) ==
    \/ c.recv_seq = 0 /\ line = Echo(c.cmd) /\ seq = 1 /\ reply = c.reply
    \/ c.recv_seq = 1 /\ c.cmd = H!INIT_STRING /\ line = H!OK /\ seq = 3 /\ reply = line
    \/ c.recv_seq = 1 /\ line = H!ERROR /\ seq = 3 /\ reply = line
    \/ c.recv_seq = 1 /\ c.cmd # H!INIT_STRING /\ line \notin {H!Empty, H!ERROR} /\ seq = 2 /\ reply = line
    \/ c.recv_seq = 2 /\ line = H!OK /\ seq = 3 /\ reply = c.reply
    \/ /\ seq = c.recv_seq /\ reply = c.reply
       /\ ~(c.recv_seq = 0 /\ line = Echo(c.cmd))
       /\ ~(c.recv_seq = 1 /\ c.cmd = H!INIT_STRING /\ line = H!OK)
       /\ ~(c.recv_seq = 1 /\ line = H!ERROR)
       /\ ~(c.recv_seq = 1 /\ c.cmd # H!INIT_STRING /\ line \notin {H!Empty, H!ERROR})
       /\ ~(c.recv_seq = 2 /\ line = H!OK)
\* huawei_receive() takes a line as Advance says.
LEMMA TookIs ==
    ASSUME NEW c, c = [f \in ReceiveFields |-> c[f]], NEW line
    PROVE  LET t == H!Took(c, line)
           IN /\ t = [f \in ReceiveFields |-> t[f]]
              /\ t.at = c.at /\ t.fn = c.fn /\ t.cmd = c.cmd /\ t.run = c.run
              /\ Advance(c, line, t.recv_seq, t.reply)
  <1> DEFINE t == H!Took(c, line)
  <1>1. CASE c.recv_seq = 0 /\ line = Echo(c.cmd)
    <2>1. t = [c EXCEPT !.recv_seq = 1]
      BY <1>1 DEF H!Took, Echo
    <2> HIDE DEF t
    <2> QED BY <1>1, <2>1 DEF ReceiveFields, Advance, t
  <1>2. CASE c.recv_seq = 1 /\ c.cmd = H!INIT_STRING /\ line = H!OK
    <2>1. t = [c EXCEPT !.reply = line, !.recv_seq = 3]
      BY <1>2 DEF H!Took
    <2> HIDE DEF t
    <2> QED BY <1>2, <2>1 DEF ReceiveFields, Advance, t
  <1>3. CASE c.recv_seq = 1 /\ line = H!ERROR
    <2>1. t = [c EXCEPT !.reply = line, !.recv_seq = 3]
      BY <1>3, Different DEF H!Took
    <2> HIDE DEF t
    <2> QED BY <1>3, <2>1 DEF ReceiveFields, Advance, t
  <1>4. CASE c.recv_seq = 1 /\ c.cmd # H!INIT_STRING /\ line \notin {H!Empty, H!ERROR}
    <2>1. t = [c EXCEPT !.reply = line, !.recv_seq = 2]
      BY <1>4 DEF H!Took
    <2> HIDE DEF t
    <2> QED BY <1>4, <2>1 DEF ReceiveFields, Advance, t
  <1>5. CASE c.recv_seq = 2 /\ line = H!OK
    <2>1. t = [c EXCEPT !.recv_seq = 3]
      BY <1>5 DEF H!Took
    <2> HIDE DEF t
    <2> QED BY <1>5, <2>1 DEF ReceiveFields, Advance, t
  <1>6. CASE /\ ~(c.recv_seq = 0 /\ line = Echo(c.cmd))
             /\ ~(c.recv_seq = 1 /\ c.cmd = H!INIT_STRING /\ line = H!OK)
             /\ ~(c.recv_seq = 1 /\ line = H!ERROR)
             /\ ~(c.recv_seq = 1 /\ c.cmd # H!INIT_STRING /\ line \notin {H!Empty, H!ERROR})
             /\ ~(c.recv_seq = 2 /\ line = H!OK)
    <2>1. t = c
      BY <1>6 DEF H!Took, Echo
    <2> HIDE DEF t
    <2> QED BY <1>6, <2>1 DEF Advance, t
  <1> QED BY <1>1, <1>2, <1>3, <1>4, <1>5, <1>6

LEMMA ReceivedIs ==
    ASSUME call = [f \in ReceiveFields |-> call[f]], NEW line, H!Received(line)
    PROVE  /\ call' = [f \in ReceiveFields |-> call'[f]]
           /\ call'.fn = call.fn /\ call'.cmd = call.cmd /\ call'.run = call.run + 1
           /\ call'.at = IF call'.run = 3 \/ call'.recv_seq = 3 THEN "done" ELSE "receive"
           /\ Advance(call, line, call'.recv_seq, call'.reply)
  <1> DEFINE t == H!Took(call, line)
             c == [t EXCEPT !.run = @ + 1]
             next == call'
  <1>1. /\ t = [f \in ReceiveFields |-> t[f]]
        /\ t.at = call.at /\ t.fn = call.fn /\ t.cmd = call.cmd /\ t.run = call.run
        /\ Advance(call, line, t.recv_seq, t.reply)
    BY TookIs
  <1>2. next = [c EXCEPT !.at = IF c.run = 3 \/ c.recv_seq = 3 THEN "done" ELSE "receive"]
    BY DEF H!Received
  <1> HIDE DEF t, next
  <1>3. /\ c = [f \in ReceiveFields |-> c[f]]
        /\ c.fn = t.fn /\ c.cmd = t.cmd /\ c.run = t.run + 1 /\ c.recv_seq = t.recv_seq /\ c.reply = t.reply
    BY <1>1 DEF ReceiveFields
  <1> HIDE DEF c
  <1>4. /\ next = [f \in ReceiveFields |-> next[f]]
        /\ next.fn = c.fn /\ next.cmd = c.cmd /\ next.run = c.run
        /\ next.recv_seq = c.recv_seq /\ next.reply = c.reply
        /\ next.at = IF c.run = 3 \/ c.recv_seq = 3 THEN "done" ELSE "receive"
    BY <1>2, <1>3 DEF ReceiveFields
  <1>5. Advance(call, line, next.recv_seq, next.reply)
    BY <1>1, <1>3, <1>4
  <1> QED BY <1>1, <1>3, <1>4, <1>5 DEF next

\* Whatever has come of a line, the reply is the command's own.
LEMMA ReceivedOwn ==
    ASSUME HuaweiInv, call.at = "receive", NEW line, H!Received(line),
           \/ wire # <<>> /\ line \in H!Torn(Head(wire)) /\ wire' = Tail(wire)
           \/ line \in {H!Empty, H!Garbage} /\ wire' = wire
    PROVE  CallOK' /\ Followed(wire')
  <1> DEFINE cmd == call.cmd
  <1>1. /\ call = [f \in ReceiveFields |-> call[f]]
        /\ call.fn \in Functions /\ cmd \in {H!INIT_STRING, H!Command(call.fn)} /\ cmd \in Asked
        /\ call.recv_seq = 1 /\ cmd # H!INIT_STRING /\ wire # <<>> => wire[1] \in Follows(cmd)
        /\ cmd # H!INIT_STRING => OwnReply(call.reply, cmd)
    BY CommandKnown DEF HuaweiInv, CallOK, Asked
  <1>2. /\ call' = [f \in ReceiveFields |-> call'[f]]
        /\ call'.fn = call.fn /\ call'.cmd = cmd
        /\ call'.at = IF call'.run = 3 \/ call'.recv_seq = 3 THEN "done" ELSE "receive"
        /\ Advance(call, line, call'.recv_seq, call'.reply)
    BY <1>1, ReceivedIs
  <1>3. Followed(wire) /\ Followed(wire')
    BY FollowedTail DEF HuaweiInv
  <1>4. cmd # H!INIT_STRING => OwnReply(H!ERROR, cmd) /\ OwnReply(H!Garbage, cmd)
    BY DEF OwnReply
  <1>5. CASE wire # <<>> /\ line \in H!Torn(Head(wire)) /\ wire' = Tail(wire)
    <2>1. Head(wire) = wire[1] /\ wire[1] \in ModemLines
      BY <1>3, <1>5, FollowedTail
    <2>2. line = Echo(cmd) => wire[1] = Echo(cmd)
      <3>1. line = wire[1] \/ line = H!Garbage \/ line.kind = "data"
        BY <1>5, <2>1, TornLine
      <3>2. Echo(cmd).kind = "echo" /\ Echo(cmd) # H!Garbage
        BY Kinds, Different
      <3> QED BY <3>1, <3>2
    <2>3. line = Echo(cmd) => wire'[1] \in Follows(cmd)
      BY <1>1, <1>3, <1>5, <2>2, FollowedTail
    <2>4. call.recv_seq = 1 /\ cmd # H!INIT_STRING => OwnReply(line, cmd) /\ line # H!Empty
      BY <1>1, <1>5, <2>1, ReplyOwn
    <2>5. call'.recv_seq = 1 /\ cmd # H!INIT_STRING => wire'[1] \in Follows(cmd)
      BY <1>2, <2>3, <2>4 DEF Advance
    <2>6. cmd # H!INIT_STRING => OwnReply(call'.reply, cmd)
      BY <1>1, <1>2, <1>4, <2>4 DEF Advance
    <2> QED BY <1>1, <1>2, <1>3, <2>5, <2>6 DEF CallOK
  <1>6. CASE line \in {H!Empty, H!Garbage} /\ wire' = wire
    <2>1. line # Echo(cmd) /\ line # H!OK
      BY <1>6, Different
    <2>2. call'.recv_seq = 1 /\ cmd # H!INIT_STRING /\ wire' # <<>> => wire'[1] \in Follows(cmd)
      BY <1>1, <1>2, <1>6, <2>1 DEF Advance
    <2>3. cmd # H!INIT_STRING => OwnReply(call'.reply, cmd)
      BY <1>1, <1>2, <1>4, <1>6, <2>1 DEF Advance
    <2> QED BY <1>1, <1>2, <1>3, <2>2, <2>3 DEF CallOK
  <1> QED BY <1>5, <1>6

\* A line that comes in time is the next of the answer.
LEMMA InTimeStage ==
    ASSUME HuaweiInv, call.at = "receive", ~lost, wire # <<>>, H!Received(Head(wire)), wire' = Tail(wire),
           UNCHANGED <<val, given>>
    PROVE  AnswerStage'
  <1> DEFINE cmd == call.cmd
             line == Head(wire)
  <1>1. /\ call = [f \in ReceiveFields |-> call[f]]
        /\ cmd \in Asked
    BY CommandKnown DEF HuaweiInv, CallOK, Asked
  <1>2. PICK r \in Follows(cmd) : Underway(call, r)
    BY DEF HuaweiInv, AnswerStage, Silent
  <1>3. /\ call'.fn = call.fn /\ call'.cmd = cmd /\ call'.run = call.run + 1
        /\ call'.at = IF call'.run = 3 \/ call'.recv_seq = 3 THEN "done" ELSE "receive"
        /\ Advance(call, line, call'.recv_seq, call'.reply)
    BY <1>1, ReceivedIs
  <1>4. Afterwards(call, r) /\ Afterwards(call, r)'
    BY <1>2, <1>3 DEF Underway, Afterwards
  <1>5. r = H!ERROR \/ (cmd = H!INIT_STRING /\ r = H!OK) \/ (cmd # H!INIT_STRING /\ r.kind = "data")
    <2>1. r = H!ERROR \/ (cmd = H!INIT_STRING /\ r = H!OK)
          \/ (cmd # H!INIT_STRING /\ \E v \in AnyReport(cmd) : r = H!Line("data", cmd, <<v>>))
      BY <1>1, FollowsAre
    <2>2. \A v : H!Line("data", cmd, <<v>>).kind = "data"
      BY DEF H!Line
    <2> QED BY <2>1, <2>2
  <1>6. /\ r.kind = "data" <=> r \notin {H!ERROR, H!OK}
        /\ r # Echo(cmd) /\ r # H!Empty /\ H!OK # Echo(cmd)
    BY <1>1, FollowsAre, Different
  <1> HIDE DEF cmd, line
  <1>7. CASE /\ call.recv_seq = 0 /\ call.run = 0
             /\ wire = IF r.kind = "data" THEN <<Echo(cmd), r, H!OK>> ELSE <<Echo(cmd), r>>
    <2>1. line = Echo(cmd) /\ wire' = IF r.kind = "data" THEN <<r, H!OK>> ELSE <<r>>
      BY <1>7, Tails DEF line
    <2>2. call'.recv_seq = 1 /\ call'.run = 1
      BY <1>3, <1>7, <2>1 DEF Advance, cmd
    <2>3. call'.at = "receive"
      BY <1>3, <2>2
    <2>4. Underway(call, r)'
      BY <1>4, <2>1, <2>2 DEF Underway
    <2> QED BY <1>3, <2>3, <2>4 DEF AnswerStage, cmd
  <1>8. CASE call.recv_seq = 1 /\ call.run = 1 /\ wire = IF r.kind = "data" THEN <<r, H!OK>> ELSE <<r>>
    <2>1. line = r /\ wire' = IF r.kind = "data" THEN <<H!OK>> ELSE <<>>
      BY <1>8, Tails DEF line
    <2>2. CASE r.kind = "data"
      <3>1. cmd # H!INIT_STRING /\ r \notin {H!Empty, H!ERROR}
        BY <1>5, <1>6, <2>2
      <3>2. call'.recv_seq = 2 /\ call'.run = 2 /\ call'.reply = r
        BY <1>3, <1>8, <2>1, <3>1 DEF Advance, cmd
      <3>3. Underway(call, r)'
        BY <1>4, <2>1, <2>2, <3>2 DEF Underway
      <3>4. call'.at = "receive"
        BY <1>3, <3>2
      <3> QED BY <1>3, <3>3, <3>4 DEF AnswerStage, cmd
    <2>3. CASE r.kind # "data"
      <3>1. r = H!ERROR \/ (cmd = H!INIT_STRING /\ r = H!OK)
        BY <1>5, <2>3
      <3>2. call'.recv_seq = 3 /\ call'.reply = r
        BY <1>3, <1>8, <2>1, <3>1 DEF Advance, cmd
      <3>3. call'.at = "done" /\ wire' = <<>>
        BY <1>3, <2>1, <2>3, <3>2
      <3>4. Afterwards(call, call.reply)'
        BY <1>4, <3>2 DEF Afterwards
      <3> QED BY <3>3, <3>4 DEF AnswerStage
    <2> QED BY <2>2, <2>3
  <1>9. CASE call.recv_seq = 2 /\ call.run = 2 /\ wire = <<H!OK>> /\ r.kind = "data" /\ call.reply = r
    <2>1. line = H!OK /\ wire' = <<>>
      BY <1>9, Tails DEF line
    <2>2. call'.recv_seq = 3 /\ call'.reply = r
      BY <1>3, <1>9, <2>1 DEF Advance
    <2>3. call'.at = "done"
      BY <1>3, <2>2
    <2>4. Afterwards(call, call.reply)'
      BY <1>4, <2>2 DEF Afterwards
    <2> QED BY <2>1, <2>3, <2>4 DEF AnswerStage
  <1> QED BY <1>2, <1>7, <1>8, <1>9 DEF Underway, cmd

\* A modem that is silent leaves the variables alone.
LEMMA TimedOutStage ==
    ASSUME HuaweiInv, call.at = "receive", ~lost, wire = <<>>, NEW line \in {H!Empty, H!Garbage}, H!Received(line),
           UNCHANGED <<wire, val, given>>
    PROVE  AnswerStage'
  <1>1. call = [f \in ReceiveFields |-> call[f]]
    BY DEF HuaweiInv, CallOK
  <1>2. Silent(call) \/ \E r \in Follows(call.cmd) : Underway(call, r)
    BY DEF HuaweiInv, AnswerStage
  <1>3. \A a, b, c : <<a>> # <<>> /\ <<a, b>> # <<>> /\ <<a, b, c>> # <<>>
    OBVIOUS
  <1>4. \A r : ~Underway(call, r)
    BY <1>3 DEF Underway
  <1>5. Silent(call)
    BY <1>2, <1>4
  <1>6. /\ call'.fn = call.fn /\ call'.cmd = call.cmd
        /\ call'.at = IF call'.run = 3 \/ call'.recv_seq = 3 THEN "done" ELSE "receive"
        /\ Advance(call, line, call'.recv_seq, call'.reply)
    BY <1>1, ReceivedIs
  <1>7. line # Echo(call.cmd)
    BY Different
  <1>8. call'.recv_seq = 0 /\ call'.reply = H!Empty
    BY <1>5, <1>6, <1>7 DEF Advance, Silent
  <1>9. Afterwards(call, H!Empty)'
    BY <1>5, <1>6 DEF Silent, Afterwards
  <1> QED BY <1>6, <1>8, <1>9 DEF AnswerStage, Silent, Afterwards

\* A line comes in time, late or in pieces.
LEMMA ReceiveKeeps ==
    ASSUME HuaweiInv, H!huawei_receive, UNCHANGED calls
    PROVE  HuaweiInv'
  <1>1. call.at = "receive" /\ UNCHANGED <<connected, configured, val, given>>
    BY DEF H!huawei_receive, H!InTime, H!TimedOut, H!InPieces
  <1>2. connected = 1
    BY <1>1 DEF HuaweiInv, Connection, H!Idle
  <1>3. Connection'
    BY <1>1, <1>2 DEF Connection
  <1>4. CASE H!InTime
    <2>1. wire # <<>> /\ H!Received(Head(wire)) /\ wire' = Tail(wire) /\ lost' = lost
      BY <1>4 DEF H!InTime
    <2>2. Head(wire) \in H!Torn(Head(wire))
      BY DEF H!Torn
    <2>3. CallOK' /\ Followed(wire')
      BY <1>1, <2>1, <2>2, ReceivedOwn
    <2>4. ~lost' => AnswerStage'
      BY <1>1, <2>1, InTimeStage
    <2> QED BY <1>1, <1>3, <2>3, <2>4 DEF HuaweiInv
  <1>5. CASE H!TimedOut
    <2>1. PICK line \in {H!Empty, H!Garbage} : H!Received(line)
      BY <1>5 DEF H!TimedOut
    <2>2. wire' = wire /\ lost' = (lost \/ wire # <<>>)
      BY <1>5 DEF H!TimedOut
    <2>3. CallOK' /\ Followed(wire')
      BY <1>1, <2>1, <2>2, ReceivedOwn
    <2>4. ~lost' => AnswerStage'
      BY <1>1, <2>1, <2>2, TimedOutStage
    <2> QED BY <1>1, <1>3, <2>3, <2>4 DEF HuaweiInv
  <1>6. CASE H!InPieces
    <2>1. wire # <<>> /\ wire' = Tail(wire) /\ lost' = TRUE
      BY <1>6 DEF H!InPieces
    <2>2. PICK line \in H!Torn(Head(wire)) : H!Received(line)
      BY <1>6 DEF H!InPieces
    <2>3. CallOK' /\ Followed(wire')
      BY <1>1, <2>1, <2>2, ReceivedOwn
    <2> QED BY <1>1, <1>3, <2>1, <2>3 DEF HuaweiInv
  <1> QED BY <1>4, <1>5, <1>6 DEF H!huawei_receive

LEMMA HuaweiStart == ASSUME H!Init PROVE HuaweiInv
  <1>0. NameSize \in Nat \ {0}
    BY HuaweiNumbers, Zenon
  <1>a. val = [rssi |-> 0, mode |-> 0, sub_mode |-> 0, flow |-> H!NoFlow, prev |-> H!NoFlow, rate |-> <<0, 1>>,
               text |-> [fn \in Texts |-> H!Empty], operator |-> [i \in 1 .. NameSize |-> ""], value |-> <<0>>]
    BY DEF H!Init, Texts
  <1>b. /\ val = [f \in ValFields |-> val[f]]
        /\ val.rssi = 0 /\ val.sub_mode = 0 /\ val.flow = H!NoFlow /\ val.rate = <<0, 1>>
        /\ val.text = [fn \in Texts |-> H!Empty] /\ val.operator = [i \in 1 .. NameSize |-> ""]
    BY <1>a DEF ValFields
  <1>c. 1 \in 1 .. NameSize /\ NameSize \in 1 .. NameSize
    BY <1>0
  <1>1. ValShape(val)
    BY <1>b, <1>c DEF ValShape
  <1>2. val.rssi = 0 /\ Blank(val)
    BY <1>b, <1>c DEF Blank
  <1>3. OwnedValues(val)
    BY <1>2, Kinds DEF OwnedValues, Blank
  <1>4. GivenOK(given) /\ Agree(val, given)
    BY <1>2, NothingAgrees DEF H!Init, Blank
  <1>5. call = H!Idle /\ call.at = "idle" /\ wire = <<>> /\ calls \in Calls
    BY DEF H!Init, H!Idle
  <1>6. CallOK /\ Followed(wire)
    BY <1>5, NoneFollowed DEF CallOK
  <1>7. Connection
    BY <1>2, <1>5 DEF H!Init, Connection
  <1>8. AnswerStage
    BY <1>4, <1>5 DEF AnswerStage
  <1> QED BY <1>1, <1>3, <1>4, <1>5, <1>6, <1>7, <1>8 DEF HuaweiInv

\* Every step of the modem and the program.
LEMMA HuaweiStep == ASSUME HuaweiInv, [H!Next]_(H!vars) PROVE HuaweiInv'
  <1>1. \A c \in calls : c[1] \in Functions
    BY HuaweiAssumption DEF HuaweiInv
  <1>2. ASSUME NEW c \in calls, H!Ask(c[1], c[2]), UNCHANGED calls PROVE HuaweiInv'
    BY <1>1, <1>2, AskKeeps
  <1>3. ASSUME NEW c \in calls, H!Cached(c[1], c[2]), UNCHANGED calls PROVE HuaweiInv'
    BY <1>3, CachedKeeps
  <1>4. CASE H!huawei_send /\ UNCHANGED calls
    BY <1>4, SendKeeps
  <1>5. CASE H!huawei_receive /\ UNCHANGED calls
    BY <1>5, ReceiveKeeps
  <1>6. CASE H!Done /\ UNCHANGED calls
    BY <1>6, DoneKeeps
  <1>7. CASE (H!Pull \/ H!Plug \/ H!Health) /\ UNCHANGED calls
    BY <1>7, LeaveKeeps DEF H!Pull, H!Plug, H!Health, H!Program
  <1>8. CASE UNCHANGED H!vars
    BY <1>8, LeaveKeeps DEF H!vars
  <1> QED BY <1>2, <1>3, <1>4, <1>5, <1>6, <1>7, <1>8 DEF H!Next, H!Asks, H!Work

----------------------------------------------------------------------------
\* Names in the variable: its first end is behind the name that was copied.
LEMMA Places ==
    ASSUME NEW n \in Nat \ {0}, NEW k \in Nat, k < n
    PROVE  /\ n \in 1 .. n /\ 1 .. n \subseteq Nat /\ k + 1 \in 1 .. n
           /\ \A m \in 1 .. n : m \notin 1 .. k => m > k /\ (m <= k + 1 => m = k + 1)
  OBVIOUS

LEMMA Smaller == ASSUME NEW n \in Nat, NEW k \in Nat, k + 1 < n PROVE k < n
  OBVIOUS

LEMMA Beginning ==
    /\ 0 \in Nat /\ 1 .. 0 = {} /\ 1 \in Int /\ 0 + 1 = 1 /\ (0 + 1) - 1 \in Int /\ (0 + 1) - 1 < 1
    /\ \A n \in Nat \ {0} : 0 < n
  OBVIOUS

LEMMA FirstEnd ==
    ASSUME NEW op, NEW n \in Nat \ {0}, DOMAIN op = 1 .. n, op[n] = "",
           NEW k \in Nat, k < n, \A i \in 1 .. k : op[i] # ""
    PROVE  LET m == H!Min({i \in DOMAIN op : op[i] = ""})
           IN m \in 1 .. n /\ m > k /\ (k < n /\ op[k + 1] = "" => m = k + 1)
  <1> DEFINE ends == {i \in DOMAIN op : op[i] = ""}
             m == H!Min(ends)
  <1>1. n \in 1 .. n /\ 1 .. n \subseteq Nat /\ k + 1 \in 1 .. n
    BY Places, Zenon
  <1>2. n \in ends /\ ends \subseteq Nat
    BY <1>1
  <1>0. m = Min(ends)
    BY DEF Min, H!Min
  <1>3. m \in ends /\ \A y \in ends : m <= y
    BY <1>0, <1>2, MinProperty
  <1> HIDE DEF m
  <1>4. m \in 1 .. n /\ op[m] = ""
    BY <1>3
  <1>5. m > k
    <2>1. m \notin 1 .. k
      BY <1>4, Zenon
    <2> QED BY <1>4, <2>1, Places, Zenon
  <1>6. op[k + 1] = "" => m = k + 1
    <2>1. op[k + 1] = "" => m <= k + 1
      BY <1>1, <1>3, Zenon
    <2>2. m \notin 1 .. k
      BY <1>4, Zenon
    <2> QED BY <1>4, <2>1, <2>2, Places, Zenon
  <1> QED BY <1>4, <1>5, <1>6, Zenon DEF m

LEMMA FirstOnes ==
    ASSUME NEW S, NEW s, NEW n \in Nat, \A i \in 1 .. n : s[i] \in S
    PROVE  /\ SubSeq(s, 1, n) \in Seq(S) /\ Len(SubSeq(s, 1, n)) = n
           /\ \A i \in 1 .. n : SubSeq(s, 1, n)[i] = s[i]
  <1> DEFINE t == SubSeq(s, 1, n)
  <1>1. /\ t \in Seq(S) /\ Len(t) = IF 1 <= n THEN n - 1 + 1 ELSE 0
        /\ \A i \in 1 .. n - 1 + 1 : t[i] = s[1 + i - 1]
    BY SubSeqProperties
  <1> HIDE DEF t
  <1>2. Len(t) = n
    BY <1>1
  <1>3. \A i \in 1 .. n : i \in 1 .. n - 1 + 1 /\ 1 + i - 1 = i
    OBVIOUS
  <1>4. \A i \in 1 .. n : t[i] = s[i]
    BY <1>1, <1>3
  <1> QED BY <1>1, <1>2, <1>4 DEF t

\* The name that is shown begins with the one reported.
LEMMA NameShown ==
    ASSUME ValShape(val), NEW name \in Operators, \A i \in 1 .. Len(name) : val.operator[i] = name[i]
    PROVE  SubSeq(H!my_operator(val), 1, Len(name)) = name
  <1> DEFINE op == val.operator
             m == H!Min({i \in DOMAIN op : op[i] = ""})
             k == Len(name)
             t == SubSeq(op, 1, m - 1)
             S == {op[i] : i \in 1 .. NameSize} \union STRING
             u == SubSeq(t, 1, k)
  <1>1. k \in Nat /\ k + 1 < NameSize /\ name \in Seq(STRING) /\ \A i \in 1 .. k : name[i] # ""
    BY NameFits
  <1>a. NameSize \in Nat \ {0}
    BY HuaweiNumbers, Zenon
  <1>2. op[NameSize] = "" /\ DOMAIN op = 1 .. NameSize
    BY DEF ValShape
  <1>3. \A i \in 1 .. k : op[i] = name[i]
    OBVIOUS
  <1>4. \A i \in 1 .. NameSize : op[i] \in S
    OBVIOUS
  <1>5. H!my_operator(val) = t
    BY DEF H!my_operator
  <1>6. name \in Seq(S)
    BY <1>1, SeqMonotonic
  <1> HIDE DEF op, k, S
  <1>b. k \in Nat
    BY <1>1, Zenon
  <1>7. k < NameSize
    <2>1. k + 1 < NameSize /\ NameSize \in Nat
      BY <1>1, <1>a, Zenon
    <2> QED BY <1>b, <2>1, Smaller, Zenon
  <1>8. \A i \in 1 .. k : op[i] # ""
    BY <1>1, <1>3, Zenon
  <1>9. m \in 1 .. NameSize /\ m > k
    BY <1>a, <1>b, <1>2, <1>7, <1>8, FirstEnd
  <1> HIDE DEF m
  <1>10. t \in Seq(S) /\ Len(t) = m - 1 /\ \A i \in 1 .. m - 1 : t[i] = op[i]
    <2>0. 1 .. m - 1 \subseteq 1 .. NameSize
      BY <1>a, <1>9
    <2>1. \A i \in 1 .. m - 1 : op[i] \in S
      BY <1>4, <2>0, Zenon
    <2>2. m - 1 \in Nat
      BY <1>9
    <2> QED BY <2>1, <2>2, FirstOnes
  <1> HIDE DEF t
  <1>11. u \in Seq(S) /\ Len(u) = k /\ \A i \in 1 .. k : u[i] = t[i]
    <2>0. 1 .. k \subseteq 1 .. m - 1 /\ 1 .. k \subseteq 1 .. NameSize
      BY <1>a, <1>b, <1>9
    <2>1. \A i \in 1 .. k : t[i] \in S
      BY <1>4, <1>10, <2>0
    <2> QED BY <1>b, <2>1, FirstOnes
  <1> HIDE DEF u
  <1>12. \A i \in 1 .. k : u[i] = name[i]
    <2>1. 1 .. k \subseteq 1 .. m - 1
      BY <1>a, <1>b, <1>9
    <2> QED BY <1>3, <1>10, <1>11, <2>1
  <1>13. u = name
    BY <1>1, <1>6, <1>11, <1>12, SeqEqual DEF k
  <1> QED BY <1>5, <1>13 DEF u, k

\* A cleared variable shows no name.
LEMMA NothingNamed ==
    ASSUME ValShape(val), val.operator[1] = ""
    PROVE  H!my_operator(val) = <<>>
  <1> DEFINE op == val.operator
             m == H!Min({i \in DOMAIN op : op[i] = ""})
  <1>1. NameSize \in Nat \ {0}
    BY HuaweiNumbers, Zenon
  <1>a. op[NameSize] = "" /\ DOMAIN op = 1 .. NameSize
    BY DEF ValShape
  <1>b. op[0 + 1] = ""
    BY Beginning, Zenon
  <1>2. op[NameSize] = "" /\ DOMAIN op = 1 .. NameSize /\ op[0 + 1] = ""
    BY <1>a, <1>b, Zenon
  <1>3. H!my_operator(val) = SubSeq(op, 1, m - 1)
    BY DEF H!my_operator
  <1> HIDE DEF op
  <1>4. 0 \in Nat /\ 0 < NameSize /\ 1 .. 0 = {}
    BY <1>1, Beginning, Zenon
  <1>5. \A i \in 1 .. 0 : op[i] # ""
    BY <1>4, Zenon
  <1>6. m = 0 + 1
    BY <1>1, <1>2, <1>4, <1>5, FirstEnd, Zenon
  <1> HIDE DEF m
  <1>7. SubSeq(op, 1, (0 + 1) - 1) = <<>>
    BY Beginning, SubSeqEmpty, Zenon
  <1>8. m - 1 = (0 + 1) - 1
    BY <1>6, Zenon
  <1> QED BY <1>3, <1>7, <1>8, Zenon

\* The invariant contains what is promised.
LEMMA HuaweiShown == ASSUME HuaweiInv PROVE H!InStep /\ H!OwnData /\ H!Gone
  <1>1. ValShape(val) /\ OwnedValues(val) /\ GivenOK(given) /\ DOMAIN val.text = Texts
    BY DEF HuaweiInv, ValShape
  <1>2. H!OwnData
    BY <1>1 DEF OwnedValues, H!OwnData
  <1>3. H!Gone
    <2> SUFFICES ASSUME connected = 0, call.at = "idle" PROVE
          val.rssi = 0 /\ val.sub_mode = 0 /\ val.flow = H!NoFlow /\ val.rate = <<0, 1>>
          /\ H!my_operator(val) = <<>> /\ \A fn \in DOMAIN val.text : val.text[fn] = H!Empty
      BY DEF H!Gone
    <2>1. Blank(val)
      BY DEF HuaweiInv, Connection
    <2>2. H!my_operator(val) = <<>>
      BY <1>1, <2>1, NothingNamed DEF Blank
    <2> QED BY <1>1, <2>1, <2>2 DEF Blank
  <1>4. H!InStep
    <2> SUFFICES ASSUME ~lost, call.at = "idle" PROVE
        /\ wire = <<>>
        /\ given.rssi \in 0 .. 31 => H!Value(val, "quality", "rssi") = <<given.rssi>>
        /\ given.mode # -1 => H!Value(val, "mode", "number") = <<given.mode>>
        /\ given.named => SubSeq(H!Value(val, "operator", ""), 1, Len(given.operator)) = given.operator
        /\ given.flows > 0 => val.flow = given.flow /\ H!Value(val, "flowreport", "total_tx") = <<given.flow.tx>>
        /\ given.flows = 2 =>
             H!Value(val, "flowreport", "tx_rate") =
                 IF given.flow.tx = given.before.tx THEN <<0, 1>>
                 ELSE <<given.flow.tx - given.before.tx, given.flow.time - given.before.time>>
        /\ \A fn \in DOMAIN val.text : val.text[fn] \in {H!Empty, H!Line("data", H!Command(fn), <<H!Command(fn)>>)}
      BY DEF H!InStep
    <2>1. wire = <<>> /\ Agree(val, given)
      BY DEF HuaweiInv, AnswerStage
    <2>2. ASSUME given.rssi \in 0 .. 31 PROVE H!Value(val, "quality", "rssi") = <<given.rssi>>
      <3>1. val.rssi = given.rssi
        BY <2>1, <2>2, Zenon DEF Agree
      <3>2. ~(val.rssi > 31)
        BY <2>2, <3>1
      <3> QED BY <3>1, <3>2 DEF H!Value, H!my_quality
    <2>3. ASSUME given.mode # -1 PROVE H!Value(val, "mode", "number") = <<given.mode>>
      BY <2>1, <2>3 DEF Agree, H!Value, H!my_mode
    <2>4. ASSUME given.named PROVE SubSeq(H!Value(val, "operator", ""), 1, Len(given.operator)) = given.operator
      <3>1. given.operator \in Operators /\ \A i \in 1 .. Len(given.operator) : val.operator[i] = given.operator[i]
        BY <1>1, <2>1, <2>4 DEF GivenOK, Agree
      <3>2. H!Value(val, "operator", "") = H!my_operator(val)
        BY DEF H!Value
      <3> QED BY <1>1, <3>1, <3>2, NameShown
    <2>5. ASSUME given.flows > 0
          PROVE  val.flow = given.flow /\ H!Value(val, "flowreport", "total_tx") = <<given.flow.tx>>
      <3>1. val.flow = given.flow /\ val.prev = given.flow
        BY <2>1, <2>5, Zenon DEF Agree
      <3>2. H!Value(val, "flowreport", "total_tx") = <<val.prev.tx>>
        BY DEF H!Value, H!my_flowreport
      <3> QED BY <3>1, <3>2
    <2>6. ASSUME given.flows = 2
          PROVE  H!Value(val, "flowreport", "tx_rate") = RateOf(given)
      BY <2>1, <2>6 DEF Agree, H!Value, H!my_flowreport
    <2>7. \A fn \in DOMAIN val.text : val.text[fn] \in {H!Empty, H!Line("data", H!Command(fn), <<H!Command(fn)>>)}
      BY <1>1, <2>1 DEF Agree
    <2> QED BY <2>1, <2>2, <2>3, <2>4, <2>5, <2>6, <2>7 DEF RateOf
  <1> QED BY <1>2, <1>3, <1>4

----------------------------------------------------------------------------
\* Pages, entries and memories.
AnyPage == [number : Nat, size : Nat, error : {0, 1}]
Cell == {<<>>} \union ({"line", "stop", "time"} \X Nat \X Nat)
Entry == [line : Cell, station : Cell, time : Cell]
Memory == [entries : 0 .. MAX_LINES, error : {0, 1}, entry : [1 .. MAX_LINES -> Entry]]
Scan == [page : AnyPage, i : Nat \ {0}, class : {"lineNum", "stopname", "none"},
         last_was_stop : {0, 1}, overflow : {0, 1}]

KeptOf(n) == IF n < MAX_LINES THEN n ELSE MAX_LINES

\* The entry of departure i when its next cell is of class "class".
Begun(p, i) == [line |-> K!Departure(p, i).line, station |-> <<>>, time |-> <<>>]
Stopped(p, i) == [line |-> K!Departure(p, i).line, station |-> K!Departure(p, i).station, time |-> <<>>]

\* The variables of the client are those it needs for the cell that comes next.
CellDue ==
    /\ scan.i <= scan.page.size + 1
    /\ scan.i = scan.page.size + 1 => scan.class = "lineNum"
    /\ scan.last_was_stop = 1 <=> scan.class = "none"
    /\ scan.overflow = 1 <=> scan.i > (IF scan.class = "lineNum" THEN MAX_LINES + 1 ELSE MAX_LINES)

\* What it has written: whole departures, and the cells of the one it is at.
Written ==
    /\ shm.error = scan.page.error
    /\ shm.entries = KeptOf(IF scan.class = "lineNum" THEN scan.i - 1 ELSE scan.i)
    /\ \A k \in 1 .. shm.entries : k < scan.i => shm.entry[k] = K!Departure(scan.page, k)
    /\ scan.class = "stopname" /\ scan.i <= MAX_LINES => shm.entry[scan.i] = Begun(scan.page, scan.i)
    /\ scan.class = "none" /\ scan.i <= MAX_LINES => shm.entry[scan.i] = Stopped(scan.page, scan.i)

\* The semaphore has one owner, and the memory is there while someone runs who
\* uses it.
OwnedMemory ==
    /\ at = "read" => mutex = "program"
    /\ client = "scan" => mutex = "client"
    /\ mutex = "client" => client \in {"scan", "dead"}
    /\ client \notin {"none", "dead"} => shm # K!NoMemory
    /\ ~initialized => shm = K!NoMemory /\ client = "none" /\ page = K!NoPage

KvvInv ==
    /\ shm \in Memory \union {K!NoMemory} /\ scan \in Scan /\ page \in AnyPage
    /\ OwnedMemory
    /\ client = "wait" => \E p \in K!Pages : scan = K!Begin(p)
    /\ client = "scan" => CellDue /\ Written
    /\ K!WholePages

----------------------------------------------------------------------------
\* A memory is not the one that is not there.
LEMMA MemoryThere == ASSUME NEW m \in Memory PROVE m # K!NoMemory
<1>1. m.entries \in 0 .. MAX_LINES
  BY DEF Memory
<1>2. K!NoMemory.entries = -1
  BY DEF K!NoMemory
<1> QED BY <1>1, <1>2

LEMMA EmptyIsMemory ==
    ASSUME MAX_LINES \in Nat \ {0}
    PROVE K!Empty \in Memory /\ K!Empty # K!NoMemory /\ K!Shows(K!Empty, K!NoPage)
<1>1. K!NoEntry \in Entry
  BY DEF K!NoEntry, Entry, Cell
<1>2. K!Empty \in Memory
  BY <1>1 DEF K!Empty, Memory
<1>3. K!Shows(K!Empty, K!NoPage)
  BY DEF K!Empty, K!Shows, K!NoPage
<1> QED BY <1>2, <1>3, MemoryThere

LEMMA BeginsWell == ASSUME NEW p \in AnyPage PROVE K!Begin(p) \in Scan
BY DEF K!Begin, Scan

LEMMA NoPageIsPage == K!NoPage \in AnyPage
BY DEF K!NoPage, AnyPage

\* What is written into an entry.
LEMMA EntriesRight ==
    ASSUME NEW p \in AnyPage, NEW i \in Nat
    PROVE /\ Begun(p, i) \in Entry /\ Stopped(p, i) \in Entry /\ K!Departure(p, i) \in Entry
          /\ [K!NoEntry EXCEPT !.line = K!Departure(p, i).line] = Begun(p, i)
          /\ [Begun(p, i) EXCEPT !.station = K!Departure(p, i).station] = Stopped(p, i)
          /\ [Stopped(p, i) EXCEPT !.time = K!Departure(p, i).time] = K!Departure(p, i)
<1>1. p.number \in Nat
  BY DEF AnyPage
<1>2. \A name \in {"line", "stop", "time"} : <<name, p.number, i>> \in Cell
  BY <1>1 DEF Cell
<1>3. <<>> \in Cell
  BY DEF Cell
<1>4. Begun(p, i) \in Entry /\ Stopped(p, i) \in Entry /\ K!Departure(p, i) \in Entry
  BY <1>2, <1>3 DEF Begun, Stopped, K!Departure, Entry
<1> QED BY <1>4 DEF Begun, Stopped, K!Departure, K!NoEntry

\* The first cell of a departure for which there is room.
LEMMA LineScanned ==
    ASSUME NEW d, scan.class = "lineNum", scan.last_was_stop # 1, shm.entries < MAX_LINES
    PROVE K!Scanned(shm, d) = [shm EXCEPT !.entries = shm.entries + 1,
                                        !.entry[shm.entries + 1] = [K!NoEntry EXCEPT !.line = d.line]]
BY Zenon DEF K!Scanned

LEMMA KvvStart == ASSUME MAX_LINES \in Nat \ {0} PROVE K!Init => KvvInv
BY BeginsWell, NoPageIsPage DEF K!Init, KvvInv, OwnedMemory, K!WholePages

\* The first evaluation makes the memory, in which no page is shown.
LEMMA KvvEvaluates ==
    ASSUME MAX_LINES \in Nat \ {0}, KvvInv, NEW fn, NEW index, K!Evaluate(fn, index)
    PROVE KvvInv'
<1>1. PICK memory, forked \in BOOLEAN : K!kvv_fork(memory, forked)
  BY DEF K!Evaluate
<1>2. /\ at = "idle" /\ at' \in {"idle", "lock"}
      /\ mutex' = mutex /\ scan' = scan /\ page' = page
  BY DEF K!Evaluate
<1>3. CASE initialized
  <2>1. shm' = shm /\ client' = client /\ initialized'
    BY <1>1, <1>3 DEF K!kvv_fork
  <2> QED BY <1>2, <1>3, <2>1 DEF KvvInv, OwnedMemory, K!WholePages, CellDue, Written
<1>4. CASE ~initialized
  <2>1. shm = K!NoMemory /\ client = "none" /\ page = K!NoPage /\ mutex # "client"
    BY <1>4 DEF KvvInv, OwnedMemory
  <2>2. /\ initialized' = TRUE /\ shm' \in {K!Empty, K!NoMemory}
        /\ client' \in {"none", "open"} /\ (client' = "open" => shm' = K!Empty)
    BY <1>1, <1>4, <2>1 DEF K!kvv_fork
  <2> QED BY <1>2, <2>1, <2>2, EmptyIsMemory DEF KvvInv, OwnedMemory, K!WholePages
<1> QED BY <1>3, <1>4

\* The program only reads; the end removes the memory with the client.
LEMMA KvvProgramKeeps ==
    ASSUME MAX_LINES \in Nat \ {0}, KvvInv, K!Lock \/ K!ReadAndUnlock \/ K!plugin_exit_kvv
    PROVE KvvInv'
<1>1. CASE K!Lock
  BY <1>1 DEF K!Lock, K!ClientVars, KvvInv, OwnedMemory, K!WholePages, CellDue, Written
<1>2. CASE K!ReadAndUnlock
  BY <1>2 DEF K!ReadAndUnlock, K!ClientVars, KvvInv, OwnedMemory, K!WholePages, CellDue, Written
<1>3. CASE K!plugin_exit_kvv
  BY <1>3 DEF K!plugin_exit_kvv, KvvInv, OwnedMemory, K!WholePages
<1> QED BY <1>1, <1>2, <1>3

\* Steps of the client that leave the memory alone.
LEMMA ClientMoves ==
    ASSUME MAX_LINES \in Nat \ {0}, Sizes \subseteq Nat, MaxPages \in Nat, KvvInv,
           K!http_open \/ K!Receive \/ K!Sleep \/ K!ClientDies
    PROVE KvvInv'
<1>1. CASE K!http_open
  BY <1>1 DEF K!http_open, K!ProgramVars, KvvInv, OwnedMemory, K!WholePages
<1>2. CASE K!Receive
  <2>1. scan' = scan \/ \E p \in K!Pages : scan' = K!Begin(p)
    BY <1>2 DEF K!Receive
  <2>2. ASSUME NEW p \in K!Pages PROVE p \in AnyPage
    <3>1. p \in [number : 1 .. MaxPages, size : Sizes, error : {0, 1}]
      BY DEF K!Pages
    <3>2. p = [number |-> p.number, size |-> p.size, error |-> p.error]
      BY <3>1
    <3>3. p.number \in 1 .. MaxPages /\ p.size \in Sizes /\ p.error \in {0, 1}
      BY <3>1
    <3>4. \A n \in 1 .. MaxPages : n \in Nat
      OBVIOUS
    <3>5. p.number \in Nat /\ p.size \in Nat
      BY <3>3, <3>4, Zenon
    <3> QED BY <3>2, <3>3, <3>5 DEF AnyPage
  <2>3. scan' \in Scan
    BY <2>1, <2>2, BeginsWell DEF KvvInv
  <2> QED BY <1>2, <2>1, <2>3 DEF K!Receive, K!ProgramVars, KvvInv, OwnedMemory, K!WholePages
<1>3. CASE K!Sleep
  BY <1>3 DEF K!Sleep, K!ProgramVars, KvvInv, OwnedMemory, K!WholePages
<1>4. CASE K!ClientDies
  BY <1>4 DEF K!ClientDies, K!ProgramVars, KvvInv, OwnedMemory, K!WholePages
<1> QED BY <1>1, <1>2, <1>3, <1>4

LEMMA ClientLockKeeps ==
    ASSUME MAX_LINES \in Nat \ {0}, KvvInv, K!ClientLocks
    PROVE KvvInv'
<1>1. /\ client' = "scan" /\ mutex' = "client" /\ scan' = scan
      /\ at' = at /\ initialized' = initialized /\ page' = page
      /\ shm' = [shm EXCEPT !.entries = 0, !.error = scan.page.error]
      /\ mutex = "none" /\ client = "wait"
  BY DEF K!ClientLocks, K!ProgramVars
<1>2. PICK p \in K!Pages : scan = K!Begin(p)
  BY <1>1 DEF KvvInv
<1>3. shm \in Memory /\ initialized /\ scan \in Scan
  BY <1>1 DEF KvvInv, OwnedMemory
<1>4. scan.page \in AnyPage /\ scan.page.size \in Nat /\ scan.page.error \in {0, 1}
  BY <1>3 DEF Scan, AnyPage
<1>5. /\ scan.page = p /\ scan.i = 1 /\ scan.class = "lineNum"
      /\ scan.last_was_stop = 0 /\ scan.overflow = 0
  BY <1>2 DEF K!Begin
<1>6. shm' \in Memory /\ shm'.entries = 0 /\ shm'.error = scan.page.error
  <2>1. shm = [entries |-> shm.entries, error |-> shm.error, entry |-> shm.entry]
    BY <1>3 DEF Memory
  <2>2. shm' = [entries |-> 0, error |-> scan.page.error, entry |-> shm.entry]
    BY <1>1, <2>1
  <2> QED BY <1>3, <1>4, <2>2 DEF Memory
<1>7. CellDue'
  BY <1>1, <1>4, <1>5 DEF CellDue
<1>8. Written'
  BY <1>1, <1>5, <1>6 DEF Written, KeptOf
<1>9. OwnedMemory'
  BY <1>1, <1>3, <1>6, MemoryThere DEF KvvInv, OwnedMemory
<1> QED BY <1>1, <1>6, <1>7, <1>8, <1>9 DEF KvvInv, K!WholePages

\* One more cell: the next entry is begun, or the last one gets its stop or its
\* time, unless the departure was one too many.
LEMMA ClientScanKeeps ==
    ASSUME MAX_LINES \in Nat \ {0}, KvvInv, K!ClientScans
    PROVE KvvInv'
<1> DEFINE p == scan.page
           i == scan.i
           wrote(e) == [entries |-> i, error |-> shm.error, entry |-> [shm.entry EXCEPT ![i] = e]]
<1>1. /\ client = "scan" /\ mutex = "client" /\ i <= p.size
      /\ client' = client /\ mutex' = mutex /\ page' = page
      /\ at' = at /\ initialized' = initialized
      /\ shm' = K!Scanned(shm, K!Departure(p, i))
  BY DEF K!ClientScans, K!ProgramVars, KvvInv, OwnedMemory
<1>2. CellDue /\ Written /\ shm \in Memory /\ initialized /\ scan \in Scan
  BY <1>1 DEF KvvInv, OwnedMemory
<1>3. /\ i \in Nat \ {0} /\ p \in AnyPage /\ p.size \in Nat
      /\ scan.class \in {"lineNum", "stopname", "none"}
      /\ scan.last_was_stop \in {0, 1} /\ scan.overflow \in {0, 1}
  BY <1>2 DEF Scan, AnyPage
<1>4. /\ scan' \in Scan /\ scan'.page = p
      /\ scan'.i = (IF scan.class = "none" THEN i + 1 ELSE i)
      /\ scan'.class = K!NextClass(scan.class)
      /\ scan'.last_was_stop = (IF scan.class = "stopname" THEN 1 ELSE 0)
      /\ scan'.overflow = (IF scan.class = "lineNum" /\ shm.entries = MAX_LINES THEN 1 ELSE scan.overflow)
  <2> DEFINE next == IF scan.class = "none" THEN i + 1 ELSE i
             stop == IF scan.class = "stopname" THEN 1 ELSE 0
             over == IF scan.class = "lineNum" /\ shm.entries = MAX_LINES THEN 1 ELSE scan.overflow
  <2>1. scan = [page |-> p, i |-> i, class |-> scan.class,
                last_was_stop |-> scan.last_was_stop, overflow |-> scan.overflow]
    BY <1>2 DEF Scan
  <2>2. scan' = [scan EXCEPT !.i = next, !.class = K!NextClass(scan.class), !.last_was_stop = stop,
                             !.overflow = over]
    BY DEF K!ClientScans
  <2>3. next \in Nat \ {0} /\ stop \in {0, 1} /\ over \in {0, 1}
    BY <1>3
  <2>4. K!NextClass(scan.class) \in {"lineNum", "stopname", "none"}
    BY DEF K!NextClass
  <2> HIDE DEF next, stop, over
  <2>5. scan' = [page |-> p, i |-> next, class |-> K!NextClass(scan.class), last_was_stop |-> stop,
                 overflow |-> over]
    BY <2>1, <2>2
  <2>6. scan' \in Scan
    BY <1>3, <2>3, <2>4, <2>5 DEF Scan
  <2> QED BY <2>5, <2>6 DEF next, stop, over
<1>5. /\ Begun(p, i) \in Entry /\ Stopped(p, i) \in Entry /\ K!Departure(p, i) \in Entry
      /\ [K!NoEntry EXCEPT !.line = K!Departure(p, i).line] = Begun(p, i)
      /\ [Begun(p, i) EXCEPT !.station = K!Departure(p, i).station] = Stopped(p, i)
      /\ [Stopped(p, i) EXCEPT !.time = K!Departure(p, i).time] = K!Departure(p, i)
  BY <1>3, EntriesRight
<1>6. ASSUME i <= MAX_LINES, NEW e \in Entry
      PROVE /\ wrote(e) \in Memory /\ wrote(e).entry[i] = e
            /\ \A k \in 1 .. MAX_LINES : k # i => wrote(e).entry[k] = shm.entry[k]
            /\ wrote(e).entries = i /\ wrote(e).error = shm.error
  <2>1. i \in 1 .. MAX_LINES
    BY <1>3, <1>6
  <2> QED BY <1>2, <1>6, <2>1 DEF Memory
<1>7. CellDue' /\ Written' /\ shm' \in Memory
  <2>1. CASE scan.class = "lineNum"
    <3>1. /\ scan'.class = "stopname" /\ scan'.i = i /\ scan.last_was_stop = 0 /\ scan'.last_was_stop = 0
          /\ shm.entries = KeptOf(i - 1) /\ (scan.overflow = 1 <=> i > MAX_LINES + 1)
      BY <1>2, <1>3, <1>4, <2>1 DEF K!NextClass, CellDue, Written
    <3>2. CASE i <= MAX_LINES
      <4>1. shm.entries = i - 1 /\ shm.entries < MAX_LINES /\ shm.entries + 1 = i
        BY <1>3, <3>1, <3>2 DEF KeptOf
      <4>2. shm' = wrote(Begun(p, i))
        <5>1. shm' = [shm EXCEPT !.entries = shm.entries + 1,
                                 !.entry[shm.entries + 1] = [K!NoEntry EXCEPT !.line = K!Departure(p, i).line]]
          <6>1. scan.last_was_stop # 1
            BY <3>1
          <6> QED BY <1>1, <2>1, <4>1, <6>1, LineScanned, Zenon
        <5> QED BY <1>2, <1>5, <4>1, <5>1 DEF Memory
      <4>3. CellDue'
        BY <1>1, <1>3, <1>4, <2>1, <3>1, <3>2, <4>1 DEF CellDue
      <4>4. Written'
        BY <1>2, <1>3, <1>4, <1>5, <1>6, <3>1, <3>2, <4>1, <4>2 DEF Written, KeptOf
      <4> QED BY <1>5, <1>6, <3>2, <4>2, <4>3, <4>4
    <3>3. CASE i > MAX_LINES
      <4>1. shm.entries = MAX_LINES
        BY <1>3, <3>1, <3>3 DEF KeptOf
      <4>2. shm' = shm
        BY <1>1, <2>1, <3>1, <4>1 DEF K!Scanned
      <4>3. CellDue'
        BY <1>1, <1>3, <1>4, <2>1, <3>1, <3>3, <4>1 DEF CellDue
      <4>4. Written'
        BY <1>2, <1>3, <1>4, <3>1, <3>3, <4>1, <4>2 DEF Written, KeptOf
      <4> QED BY <1>2, <4>2, <4>3, <4>4
    <3> QED BY <1>3, <3>2, <3>3
  <2>2. CASE scan.class = "stopname"
    <3>1. /\ scan'.class = "none" /\ scan'.i = i /\ scan.last_was_stop = 0 /\ scan'.last_was_stop = 1
          /\ shm.entries = KeptOf(i) /\ (scan.overflow = 1 <=> i > MAX_LINES) /\ scan'.overflow = scan.overflow
      BY <1>2, <1>3, <1>4, <2>2 DEF K!NextClass, CellDue, Written
    <3>2. CellDue'
      BY <1>1, <1>3, <1>4, <3>1 DEF CellDue
    <3>3. CASE i <= MAX_LINES
      <4>1. shm.entries = i /\ shm.entry[i] = Begun(p, i)
        BY <1>2, <1>3, <2>2, <3>1, <3>3 DEF KeptOf, Written
      <4>2. shm' = wrote(Stopped(p, i))
        <5>1. shm' = [shm EXCEPT !.entry[shm.entries].station = K!Departure(p, i).station]
          BY <1>1, <1>3, <2>2, <3>1, <3>3 DEF K!Scanned
        <5> QED BY <1>2, <1>5, <4>1, <5>1 DEF Memory
      <4>3. Written'
        BY <1>2, <1>3, <1>4, <1>5, <1>6, <3>1, <3>3, <4>1, <4>2 DEF Written, KeptOf
      <4> QED BY <1>5, <1>6, <3>2, <3>3, <4>2, <4>3
    <3>4. CASE i > MAX_LINES
      <4>1. shm' = shm /\ shm.entries = MAX_LINES
        BY <1>1, <1>3, <2>2, <3>1, <3>4 DEF K!Scanned, KeptOf
      <4>2. Written'
        BY <1>2, <1>3, <1>4, <3>1, <3>4, <4>1 DEF Written, KeptOf
      <4> QED BY <1>2, <3>2, <4>1, <4>2
    <3> QED BY <1>3, <3>3, <3>4
  <2>3. CASE scan.class = "none"
    <3>1. /\ scan'.class = "lineNum" /\ scan'.i = i + 1 /\ scan.last_was_stop = 1 /\ scan'.last_was_stop = 0
          /\ shm.entries = KeptOf(i) /\ (scan.overflow = 1 <=> i > MAX_LINES) /\ scan'.overflow = scan.overflow
      BY <1>2, <1>4, <2>3 DEF K!NextClass, CellDue, Written
    <3>2. CellDue'
      BY <1>1, <1>3, <1>4, <3>1 DEF CellDue
    <3>3. CASE i <= MAX_LINES
      <4>1. shm.entries = i /\ shm.entry[i] = Stopped(p, i)
        BY <1>2, <1>3, <2>3, <3>1, <3>3 DEF KeptOf, Written
      <4>2. shm' = wrote(K!Departure(p, i))
        <5>1. shm' = [shm EXCEPT !.entry[shm.entries].time = K!Departure(p, i).time]
          BY <1>1, <1>3, <2>3, <3>1, <3>3 DEF K!Scanned
        <5> QED BY <1>2, <1>5, <4>1, <5>1 DEF Memory
      <4>3. Written'
        BY <1>2, <1>3, <1>4, <1>5, <1>6, <3>1, <3>3, <4>1, <4>2 DEF Written, KeptOf
      <4> QED BY <1>5, <1>6, <3>2, <3>3, <4>2, <4>3
    <3>4. CASE i > MAX_LINES
      <4>1. shm' = shm /\ shm.entries = MAX_LINES
        BY <1>1, <1>3, <2>3, <3>1, <3>4 DEF K!Scanned, KeptOf
      <4>2. Written'
        BY <1>2, <1>3, <1>4, <3>1, <3>4, <4>1 DEF Written, KeptOf
      <4> QED BY <1>2, <3>2, <4>1, <4>2
    <3> QED BY <1>3, <3>3, <3>4
  <2> QED BY <1>3, <2>1, <2>2, <2>3
<1>8. OwnedMemory'
  BY <1>1, <1>2, <1>7, MemoryThere DEF KvvInv, OwnedMemory
<1>9. page' \in AnyPage
  BY <1>1 DEF KvvInv
<1> QED BY <1>1, <1>4, <1>7, <1>8, <1>9 DEF KvvInv, K!WholePages

\* When the last cell has been read, the memory shows the page.
LEMMA ClientUnlockKeeps ==
    ASSUME MAX_LINES \in Nat \ {0}, KvvInv, K!ClientUnlocks
    PROVE KvvInv'
<1>1. /\ client = "scan" /\ mutex = "client" /\ scan.i > scan.page.size
      /\ client' = "sleep" /\ mutex' = "none" /\ page' = scan.page /\ scan' = K!Begin(K!NoPage)
      /\ at' = at /\ initialized' = initialized /\ shm' = shm
  BY DEF K!ClientUnlocks, K!ProgramVars, KvvInv, OwnedMemory
<1>2. CellDue /\ Written /\ shm \in Memory /\ initialized /\ at # "read" /\ scan \in Scan
  BY <1>1 DEF KvvInv, OwnedMemory
<1>3. scan.page \in AnyPage /\ scan.page.size \in Nat /\ scan.i \in Nat
  BY <1>2 DEF Scan, AnyPage
<1>4. scan.i = scan.page.size + 1 /\ scan.class = "lineNum"
  BY <1>1, <1>2, <1>3 DEF CellDue
<1>5. K!Shows(shm, scan.page)
  BY <1>2, <1>3, <1>4 DEF K!Shows, Written, KeptOf
<1>6. K!Shows(shm, page)'
  BY <1>1, <1>5 DEF K!Shows
<1>7. OwnedMemory'
  BY <1>1, <1>2, MemoryThere DEF KvvInv, OwnedMemory
<1> QED BY <1>1, <1>2, <1>3, <1>6, <1>7, BeginsWell, NoPageIsPage DEF KvvInv, K!WholePages

\* Every step keeps the invariant.
LEMMA KvvStep ==
    ASSUME MAX_LINES \in Nat \ {0}, Sizes \subseteq Nat, MaxPages \in Nat, KvvInv, [K!Next]_(K!vars)
    PROVE KvvInv'
<1>1. CASE \E fn \in {"line", "station", "time"}, index \in 1 .. MAX_LINES : K!Evaluate(fn, index)
  BY <1>1, KvvEvaluates
<1>2. CASE K!Program \/ K!plugin_exit_kvv
  BY <1>2, KvvProgramKeeps DEF K!Program
<1>3. CASE K!Client \/ K!ClientDies
  BY <1>3, ClientMoves, ClientLockKeeps, ClientScanKeeps, ClientUnlockKeeps DEF K!Client
<1>4. CASE UNCHANGED K!vars
  BY <1>4 DEF K!vars, KvvInv, OwnedMemory, K!WholePages, CellDue, Written
<1> QED BY <1>1, <1>2, <1>3, <1>4 DEF K!Next

----------------------------------------------------------------------------
\* Whoever gets the semaphore finds the first departures of one page, each with
\* its own stop and time, whatever ends in between (kvv_client, kvv_line...).
THEOREM PagesWhole == K!Spec => []K!WholePages
<1>1. K!Init => KvvInv
  BY KvvAssumption, KvvStart
<1>2. KvvInv /\ [K!Next]_(K!vars) => KvvInv'
  BY KvvAssumption, KvvStep
<1>3. KvvInv => K!WholePages
  BY DEF KvvInv
<1> QED BY <1>1, <1>2, <1>3, PTL DEF K!Spec

\* Whichever is observed, the others keep what they have.
ServersInv == MpdInv /\ M!Fresh /\ HuaweiInv /\ KvvInv

\* What is not observed does not step.
LEMMA Unobserved ==
    /\ UNCHANGED mpdVars => [M!Next]_(M!vars)
    /\ UNCHANGED huaweiVars => [H!Next]_(H!vars)
    /\ UNCHANGED kvvVars => [K!Next]_(K!vars)
BY DEF mpdVars, huaweiVars, kvvVars, M!vars, H!vars, K!vars

\* What the functions of the plugins MPD, Huawei and KVV answer is what their
\* servers said (mpd_update and the functions mpd::, huawei_send_receive and the
\* functions huawei::, kvv_client and the functions kvv::).
THEOREM ServersTruthful == AllSpec => []ServersAnswer
<1>1. AllInit => ServersInv
  <2>1. M!Init => MpdInv /\ M!Fresh
    BY MpdStart
  <2>2. H!Init => HuaweiInv
    BY HuaweiStart
  <2>3. K!Init => KvvInv
    BY KvvAssumption, KvvStart
  <2> QED BY <2>1, <2>2, <2>3 DEF AllInit, ServersInv
<1>2. ServersInv /\ [AllNext]_allVars => ServersInv'
  <2> SUFFICES ASSUME ServersInv, [AllNext]_allVars PROVE ServersInv'
    OBVIOUS
  <2>1. [M!Next]_(M!vars) /\ [H!Next]_(H!vars) /\ [K!Next]_(K!vars)
    <3>1. CASE Tables(Next)
      BY <3>1, Unobserved DEF Tables
    <3>2. CASE OfMpd(M!Next)
      BY <3>2, Unobserved DEF OfMpd
    <3>3. CASE OfHuawei(H!Next)
      BY <3>3, Unobserved DEF OfHuawei
    <3>4. CASE OfKvv(K!Next)
      BY <3>4, Unobserved DEF OfKvv
    <3>5. CASE UNCHANGED allVars
      BY <3>5, Unobserved DEF allVars
    <3> QED BY <3>1, <3>2, <3>3, <3>4, <3>5 DEF AllNext
  <2>2. MpdInv' /\ M!Fresh'
    BY <2>1, MpdStep DEF ServersInv
  <2>3. HuaweiInv'
    BY <2>1, HuaweiStep DEF ServersInv
  <2>4. KvvInv'
    BY <2>1, KvvAssumption, KvvStep DEF ServersInv
  <2> QED BY <2>2, <2>3, <2>4 DEF ServersInv
<1>3. ServersInv => ServersAnswer
  <2>1. MpdInv => M!SongAndTimes
    BY DEF MpdInv
  <2>2. HuaweiInv => H!InStep /\ H!OwnData /\ H!Gone
    BY HuaweiShown
  <2>3. KvvInv => K!WholePages
    BY DEF KvvInv
  <2> QED BY <2>1, <2>2, <2>3 DEF ServersInv, ServersAnswer
<1> QED BY <1>1, <1>2, <1>3, PTL DEF AllSpec

-----------------------------------------------------------------------------
LineValues == Lines \union {<<0, 0>>}
Slot == [value : LineValues, timestamp : Nat]
RawItem(n) == [key : KeySet, nSlot : {n}, index : 0 .. n - 1, slot : [0 .. n - 1 -> Slot]]
Item(n) == {it \in RawItem(n) : Newest(it).timestamp # 0 /\ Newest(it).value # <<>>}

\* Behind the end of a ring its begin follows.
LEMMA AroundRing ==
    ASSUME NEW n \in Nat \ {0}, NEW a \in 0 .. n - 1, NEW b \in 0 .. n - 1
    PROVE  (a + b) % n = IF a + b < n THEN a + b ELSE a + b - n
<1>1. n > 0 /\ a + b \in Int
  OBVIOUS
<1>2. (a + b) % n \in 0 .. n - 1 /\ a + b = n * ((a + b) \div n) + ((a + b) % n) /\ (a + b) \div n \in Int
  BY <1>1
<1> DEFINE q == (a + b) \div n
           r == (a + b) % n
<1>3. q \in Int /\ r \in 0 .. n - 1 /\ a + b = n * q + r
  BY <1>2
<1> HIDE DEF q, r
<1>4. CASE q = 0
  BY <1>3, <1>4 DEF r
<1>5. CASE q = 1
  BY <1>3, <1>5 DEF r
<1>6. CASE q >= 2
  <2>1. n * q >= n * 2
    BY <1>3, <1>6
  <2> QED
    BY <1>3, <2>1
<1>7. CASE q <= -1
  <2>1. n * q <= n * (-1)
    BY <1>3, <1>7
  <2> QED
    BY <1>3, <2>1
<1> QED
  BY <1>3, <1>4, <1>5, <1>6, <1>7

\* What a store leaves in a ring: the new slot, and the others one further back.
LEMMA RingStored ==
    ASSUME NEW n \in Nat \ {0}, NEW it \in RawItem(n),
           NEW v \in LineValues \ {<<>>}, NEW t \in Nat \ {0}
    PROVE  LET new == Stored(it, v, t)
           IN /\ new \in Item(n) /\ new.key = it.key
              /\ Newest(new) = [value |-> v, timestamp |-> t]
              /\ Back(new, 0) = [value |-> v, timestamp |-> t]
              /\ \A i \in 1 .. n - 1 : Back(new, i) = Back(it, i - 1)
<1> DEFINE new == Stored(it, v, t)
           s == [value |-> v, timestamp |-> t]
           k == Previous(it)
<1>1. k \in 0 .. n - 1 /\ k = IF it.index = 0 THEN n - 1 ELSE it.index - 1
  BY DEF Previous, RawItem
<1>2. s \in Slot
  BY DEF Slot
<1>3. new = [it EXCEPT !.index = k, !.slot = [it.slot EXCEPT ![k] = s]]
  BY DEF Stored
<1> HIDE DEF k, s, new
<1>4. new \in RawItem(n) /\ new.index = k /\ new.nSlot = n /\ new.slot = [it.slot EXCEPT ![k] = s] /\ new.key = it.key
  BY <1>1, <1>2, <1>3 DEF RawItem
<1>5. Newest(new) = s
  BY <1>1, <1>4 DEF Newest, RawItem
<1>6. new \in Item(n)
  BY <1>4, <1>5 DEF Item, s
<1>7. Back(new, 0) = s
  <2>0. 0 \in 0 .. n - 1 /\ k + 0 < n /\ k + 0 = k
    BY <1>1
  <2>1. (k + 0) % n = IF k + 0 < n THEN k + 0 ELSE k + 0 - n
    BY <1>1, <2>0, AroundRing, Zenon
  <2> QED
    BY <1>1, <1>4, <2>0, <2>1 DEF Back, RawItem
<1>8. ASSUME NEW i \in 1 .. n - 1 PROVE Back(new, i) = Back(it, i - 1)
  <2>0. i \in 0 .. n - 1
    OBVIOUS
  <2>1. (k + i) % n = IF k + i < n THEN k + i ELSE k + i - n
    BY <1>1, <2>0, AroundRing, Zenon
  <2>2. it.index \in 0 .. n - 1 /\ it.nSlot = n /\ i - 1 \in 0 .. n - 1
    BY DEF RawItem
  <2>3. (it.index + (i - 1)) % n = IF it.index + (i - 1) < n THEN it.index + (i - 1) ELSE it.index + (i - 1) - n
    BY <2>2, AroundRing, Zenon
  <2>a. (IF k + i < n THEN k + i ELSE k + i - n) = (IF it.index + (i - 1) < n THEN it.index + (i - 1) ELSE it.index + (i - 1) - n)
    BY <1>1, <2>2
  <2>b. (IF k + i < n THEN k + i ELSE k + i - n) \in 0 .. n - 1
    BY <1>1, <2>2
  <2>c. (IF k + i < n THEN k + i ELSE k + i - n) # k
    BY <1>1, <2>2
  <2> DEFINE x == IF k + i < n THEN k + i ELSE k + i - n
             y == (k + i) % n
             z == (it.index + (i - 1)) % n
  <2>d. y = x /\ z = x /\ x \in 0 .. n - 1 /\ x # k
    BY <2>1, <2>3, <2>a, <2>b, <2>c, Zenon
  <2>e. y = z /\ y \in 0 .. n - 1 /\ y # k
    <3> HIDE DEF x, y, z
    <3> QED
      BY <2>d
  <2>3a. Back(new, i) = new.slot[y] /\ Back(it, i - 1) = it.slot[z]
    BY <1>4, <2>2 DEF Back
  <2> QED
    <3> HIDE DEF x, y, z
    <3> QED
      BY <1>4, <2>2, <2>e, <2>3a DEF RawItem
<1> QED
  BY <1>4, <1>5, <1>6, <1>7, <1>8 DEF s, new

-----------------------------------------------------------------------------
\* A table has one item for a key.
Table(n) == {tab \in [items : Seq(Item(n)), sorted : BOOLEAN, timestamp : Nat] :
               \A i, j \in DOMAIN tab.items : tab.items[i].key = tab.items[j].key => i = j}
Has(tab, k) == \E i \in DOMAIN tab.items : tab.items[i].key = k
Place(tab, k) == CHOOSE i \in DOMAIN tab.items : tab.items[i].key = k
ItemOf(tab, k) == tab.items[Place(tab, k)]
RingOf(tab, k, n) == IF Has(tab, k) THEN ItemOf(tab, k) ELSE NewItem(k, n)

\* What a table consists of.
LEMMA TableShape ==
    ASSUME NEW n \in Nat \ {0}, NEW tab \in Table(n)
    PROVE  /\ tab.items \in Seq(Item(n)) /\ Len(tab.items) \in Nat
           /\ DOMAIN tab.items = 1 .. Len(tab.items)
           /\ \A i \in DOMAIN tab.items : tab.items[i] \in Item(n) /\ tab.items[i].key \in KeySet
           /\ \A i, j \in DOMAIN tab.items : tab.items[i].key = tab.items[j].key => i = j
           /\ tab.sorted \in BOOLEAN /\ tab.timestamp \in Nat
  BY DEF Table, Item, RawItem

\* A sequence that is not empty has a first element.
LEMMA SomeElements ==
    ASSUME NEW S, NEW s \in Seq(S), s # <<>>
    PROVE  /\ Len(s) \in Nat /\ DOMAIN s = 1 .. Len(s) /\ 1 \in DOMAIN s
           /\ \A i \in DOMAIN s : s[i] \in S
  BY EmptySeq

\* Keys that are the same but for their case are the same.
LEMMA KeysDiffer ==
    /\ \A k \in KeySet, l \in KeySet : Fold(k) = Fold(l) => k = l
    /\ \A i \in DOMAIN Keys : Keys[i] \in KeySet
    /\ \A i, j \in DOMAIN Keys : Keys[i] = Keys[j] => i = j
    /\ \A k \in KeySet : \E i \in DOMAIN Keys : Keys[i] = k
    /\ Len(Keys) \in Nat /\ DOMAIN Keys = 1 .. Len(Keys) /\ 1 \in DOMAIN Keys
    /\ "" \notin KeySet
<1>1. \A i, j \in DOMAIN Keys : Fold(Keys[i]) = Fold(Keys[j]) => i = j
  BY TablesAssumption
<1>2. Keys \in Seq(STRING \ {""}) /\ Keys # <<>>
  BY TablesAssumption
<1>3. \A k \in KeySet : \E i \in DOMAIN Keys : Keys[i] = k
  BY DEF KeySet, Range
<1>4. \A i \in DOMAIN Keys : Keys[i] \in KeySet
  BY DEF KeySet, Range
<1>5. Len(Keys) \in Nat /\ DOMAIN Keys = 1 .. Len(Keys) /\ 1 \in DOMAIN Keys
      /\ \A i \in DOMAIN Keys : Keys[i] \in STRING \ {""}
  BY <1>2, SomeElements
<1> QED
  BY <1>1, <1>3, <1>4, <1>5

\* A lookup finds the item of the key, in a sorted table and in an unsorted one.
LEMMA LookupFinds ==
    ASSUME NEW n \in Nat \ {0}, NEW tab \in Table(n), NEW k \in KeySet
    PROVE  /\ Has(tab, k) => /\ hash_lookup(tab, k) = {Place(tab, k)}
                             /\ Place(tab, k) \in DOMAIN tab.items
                             /\ ItemOf(tab, k) \in Item(n) /\ ItemOf(tab, k).key = k
           /\ ~Has(tab, k) => hash_lookup(tab, k) = {}
<1>1. \A i \in DOMAIN tab.items : tab.items[i].key \in KeySet /\ tab.items[i] \in Item(n)
  BY TableShape
<1>2. \A i, j \in DOMAIN tab.items : tab.items[i].key = tab.items[j].key => i = j
  BY TableShape
<1>3. \A i \in DOMAIN tab.items : Fold(tab.items[i].key) = Fold(k) <=> tab.items[i].key = k
  BY <1>1, KeysDiffer
<1>4. \A i \in DOMAIN tab.items : i <= i
  BY TableShape
<1> DEFINE exact == {i \in DOMAIN tab.items : tab.items[i].key = k}
<1>5. {i \in DOMAIN tab.items : Fold(tab.items[i].key) = Fold(k)} = exact
  BY <1>3
<1>6. CASE Has(tab, k)
  <2>1. Place(tab, k) \in DOMAIN tab.items /\ tab.items[Place(tab, k)].key = k
    BY <1>6 DEF Has, Place
  <2>2. exact = {Place(tab, k)}
    BY <1>2, <2>1
  <2>3. {i \in exact : \A j \in exact : i <= j} = {Place(tab, k)}
    BY <1>4, <2>1, <2>2
  <2>4. hash_lookup(tab, k) = {Place(tab, k)}
    BY <1>5, <2>2, <2>3 DEF hash_lookup
  <2> QED
    BY <1>1, <1>6, <2>1, <2>4 DEF ItemOf
<1>7. CASE ~Has(tab, k)
  <2>1. exact = {}
    BY <1>7 DEF Has
  <2> QED
    BY <1>5, <1>7, <2>1 DEF hash_lookup
<1> QED
  BY <1>6, <1>7

\* Sorting changes nothing that a lookup tells.
LEMMA SortingKeeps ==
    ASSUME NEW n \in Nat \ {0}, NEW tab \in Table(n)
    PROVE  /\ Sorted(tab) \in Table(n) /\ Sorted(tab).items = tab.items
           /\ Sorted(tab).timestamp = tab.timestamp
           /\ \A k : /\ Has(Sorted(tab), k) <=> Has(tab, k)
                     /\ Place(Sorted(tab), k) = Place(tab, k)
                     /\ ItemOf(Sorted(tab), k) = ItemOf(tab, k)
<1>1. Sorted(tab) \in Table(n) /\ Sorted(tab).items = tab.items /\ Sorted(tab).timestamp = tab.timestamp
  BY DEF Sorted, Table
<1> QED
  BY <1>1 DEF Has, Place, ItemOf

\* What the lookups of the functions return.
LEMMA NewestFound ==
    ASSUME NEW n \in Nat \ {0}, NEW tab \in Table(n), NEW k \in KeySet
    PROVE  /\ hash_get(tab, k, -1) = IF Has(tab, k) THEN Newest(ItemOf(tab, k)).value ELSE <<>>
           /\ \A column, delay : hash_get_delta(tab, k, column, delay) =
                IF Has(tab, k) THEN ItemDelta(ItemOf(tab, k), column, delay) ELSE 0
           /\ \A t : hash_age_key(tab, k, t) =
                IF Has(tab, k) THEN t - Newest(ItemOf(tab, k)).timestamp ELSE -1
           /\ hash_lookup(Sorted(tab), k) = {} <=> ~Has(tab, k)
<1>1. Sorted(tab) \in Table(n) /\ Sorted(tab).items = tab.items
  BY SortingKeeps
<1>2. (Has(Sorted(tab), k) <=> Has(tab, k)) /\ Place(Sorted(tab), k) = Place(tab, k)
  BY SortingKeeps
<1>3. Has(tab, k) => hash_lookup(Sorted(tab), k) = {Place(tab, k)}
  BY <1>1, <1>2, LookupFinds
<1>4. ~Has(tab, k) => hash_lookup(Sorted(tab), k) = {}
  BY <1>1, <1>2, LookupFinds
<1>5. Has(tab, k) => (CHOOSE i \in {Place(tab, k)} : TRUE) = Place(tab, k)
  OBVIOUS
<1>6. CASE Has(tab, k)
  BY <1>3, <1>5, <1>6 DEF hash_get, hash_get_delta, hash_age_key, split, ItemOf
<1>7. CASE ~Has(tab, k)
  BY <1>4, <1>7 DEF hash_get, hash_get_delta, hash_age_key
<1> QED
  BY <1>6, <1>7

\* A place is the only one with its key.
LEMMA PlaceIs ==
    ASSUME NEW tab, NEW i \in DOMAIN tab.items,
           \A a, b \in DOMAIN tab.items : tab.items[a].key = tab.items[b].key => a = b
    PROVE  Has(tab, tab.items[i].key) /\ Place(tab, tab.items[i].key) = i
           /\ ItemOf(tab, tab.items[i].key) = tab.items[i]
  BY DEF Has, Place, ItemOf

\* The ring of a key, or a new one, that a store goes into.
LEMMA RingIsRaw ==
    ASSUME NEW n \in Nat \ {0}, NEW tab \in Table(n), NEW k \in KeySet
    PROVE  RingOf(tab, k, n) \in RawItem(n) /\ RingOf(tab, k, n).key = k
           /\ Enlarged(RingOf(tab, k, n), n) = RingOf(tab, k, n)
<1>1. RingOf(tab, k, n) \in RawItem(n) /\ RingOf(tab, k, n).key = k
  <2>1. CASE Has(tab, k)
    BY <2>1, LookupFinds DEF RingOf, Item
  <2>2. CASE ~Has(tab, k)
    <3>1. EmptySlot \in Slot
      BY DEF EmptySlot, Slot, LineValues, Lines
    <3>2. NewItem(k, n) \in RawItem(n) /\ NewItem(k, n).key = k
      BY <3>1 DEF NewItem, RawItem
    <3> QED
      BY <2>2, <3>2 DEF RingOf
  <2> QED
    BY <2>1, <2>2
<1>2. RingOf(tab, k, n).nSlot = n
  BY <1>1 DEF RawItem
<1> QED
  BY <1>1, <1>2 DEF Enlarged

\* Storing a value of a key: the ring of the key takes it, the others stay.
LEMMA SetStores ==
    ASSUME NEW n \in Nat \ {0}, NEW tab \in Table(n), NEW k \in KeySet,
           NEW v \in LineValues \ {<<>>}, NEW t \in Nat \ {0}
    PROVE  LET new == hash_set(tab, k, v, n, t)
           IN /\ new \in Table(n) /\ new.timestamp = t
              /\ Has(new, k) /\ ItemOf(new, k) = Stored(RingOf(tab, k, n), v, t)
              /\ \A l \in KeySet \ {k} : (Has(new, l) <=> Has(tab, l)) /\ (Has(tab, l) => ItemOf(new, l) = ItemOf(tab, l))
<1> DEFINE new == hash_set(tab, k, v, n, t)
           it == Stored(RingOf(tab, k, n), v, t)
           N == Len(tab.items)
<1>1. it \in Item(n) /\ it.key = k
  BY RingIsRaw, RingStored
<1>2. /\ tab.items \in Seq(Item(n)) /\ N \in Nat /\ DOMAIN tab.items = 1 .. N
      /\ tab.sorted \in BOOLEAN /\ tab.timestamp \in Nat
      /\ \A i, j \in DOMAIN tab.items : tab.items[i].key = tab.items[j].key => i = j
  BY TableShape
<1>0. tab \in [items : Seq(Item(n)), sorted : BOOLEAN, timestamp : Nat]
  BY DEF Table
<1>3. CASE Has(tab, k)
  <2> DEFINE p == Place(tab, k)
  <2>1. p \in 1 .. N /\ hash_lookup(tab, k) = {p} /\ tab.items[p].key = k
    BY <1>2, <1>3, LookupFinds DEF ItemOf
  <2>2. RingOf(tab, k, n) = tab.items[p]
    BY <1>3 DEF RingOf, ItemOf
  <2>3. (CHOOSE j \in {p} : TRUE) = p
    OBVIOUS
  <2>4. new = [tab EXCEPT !.timestamp = t, !.items[p] = it]
    <3>1. Enlarged(tab.items[p], n) = tab.items[p]
      BY <2>2, RingIsRaw
    <3>2. new = [tab EXCEPT !.timestamp = t, !.items[p] = Stored(Enlarged(@, n), v, t)]
      <4> HIDE DEF p
      <4>1. hash_lookup(tab, k) # {} /\ (CHOOSE j \in hash_lookup(tab, k) : TRUE) = p
        BY <2>1, <2>3
      <4> QED
        BY <4>1 DEF hash_set
    <3> QED
      BY <2>2, <3>1, <3>2
  <2> HIDE DEF new, it, p, N
  <2>5. new.items = [tab.items EXCEPT ![p] = it] /\ new.timestamp = t /\ new.sorted = tab.sorted
        /\ new = [items |-> new.items, sorted |-> new.sorted, timestamp |-> new.timestamp]
    BY <1>0, <2>4
  <2>6. new.items \in Seq(Item(n)) /\ DOMAIN new.items = 1 .. N
    BY <1>1, <1>2, <2>1, <2>5
  <2>7. \A i \in 1 .. N : new.items[i].key = tab.items[i].key /\ (i # p => new.items[i] = tab.items[i])
    BY <1>1, <1>2, <2>1, <2>5
  <2>8. new.items[p] = it
    BY <1>2, <2>1, <2>5
  <2>9. \A i, j \in DOMAIN new.items : new.items[i].key = new.items[j].key => i = j
    BY <1>2, <2>6, <2>7
  <2>10. new \in Table(n)
    BY <1>2, <2>5, <2>6, <2>9 DEF Table
  <2>11. Has(new, k) /\ ItemOf(new, k) = it
    <3>1. p \in DOMAIN new.items /\ new.items[p].key = k
      BY <1>1, <2>1, <2>6, <2>8
    <3> QED
      BY <2>8, <2>9, <3>1, PlaceIs
  <2>12. ASSUME NEW l \in KeySet \ {k}
         PROVE  (Has(new, l) <=> Has(tab, l)) /\ (Has(tab, l) => ItemOf(new, l) = ItemOf(tab, l))
    <3>1. Has(new, l) <=> Has(tab, l)
      BY <1>2, <2>6, <2>7 DEF Has
    <3>2. ASSUME Has(tab, l) PROVE ItemOf(new, l) = ItemOf(tab, l)
      <4>1. PICK i \in 1 .. N : tab.items[i].key = l
        BY <1>2, <3>2 DEF Has
      <4>2. i # p /\ new.items[i] = tab.items[i]
        BY <2>1, <2>7, <4>1
      <4>3. ItemOf(tab, l) = tab.items[i]
        BY <1>2, <4>1, PlaceIs
      <4>4. ItemOf(new, l) = new.items[i]
        BY <2>6, <2>9, <4>1, <4>2, PlaceIs
      <4> QED
        BY <4>2, <4>3, <4>4
    <3> QED
      BY <3>1, <3>2
  <2> QED
    BY <2>5, <2>10, <2>11, <2>12 DEF new, it
<1>4. CASE ~Has(tab, k)
  <2>1. hash_lookup(tab, k) = {} /\ RingOf(tab, k, n) = NewItem(k, n)
    BY <1>4, LookupFinds DEF RingOf
  <2>4. new = [tab EXCEPT !.sorted = FALSE, !.timestamp = t, !.items = Append(tab.items, it)]
    BY <2>1 DEF hash_set
  <2> HIDE DEF new, it, N
  <2>5. new.items = Append(tab.items, it) /\ new.timestamp = t /\ new.sorted = FALSE
        /\ new = [items |-> new.items, sorted |-> new.sorted, timestamp |-> new.timestamp]
    BY <1>0, <2>4
  <2>6. new.items \in Seq(Item(n)) /\ DOMAIN new.items = 1 .. N + 1
    BY <1>1, <1>2, <2>5 DEF N
  <2>7. \A i \in 1 .. N : new.items[i] = tab.items[i] /\ tab.items[i].key # k
    <3>1. \A i \in 1 .. N : new.items[i] = tab.items[i]
      BY <1>1, <1>2, <2>5 DEF N
    <3> QED
      BY <1>2, <1>4, <3>1 DEF Has
  <2>8. new.items[N + 1] = it
    BY <1>1, <1>2, <2>5 DEF N
  <2>9. \A i, j \in DOMAIN new.items : new.items[i].key = new.items[j].key => i = j
    <3>1. \A i \in 1 .. N + 1 : i \in 1 .. N \/ i = N + 1
      BY <1>2
    <3> QED
      BY <1>1, <1>2, <2>6, <2>7, <2>8, <3>1
  <2>10. new \in Table(n)
    BY <1>2, <2>5, <2>6, <2>9 DEF Table
  <2>a. N + 1 \in DOMAIN new.items
    BY <1>2, <2>6
  <2>11. Has(new, k) /\ ItemOf(new, k) = it
    BY <1>1, <2>a, <2>8, <2>9, PlaceIs
  <2>12. ASSUME NEW l \in KeySet \ {k}
         PROVE  (Has(new, l) <=> Has(tab, l)) /\ (Has(tab, l) => ItemOf(new, l) = ItemOf(tab, l))
    <3>0. \A i \in 1 .. N : i \in 1 .. N + 1
      BY <1>2
    <3>1. ASSUME Has(tab, l) PROVE Has(new, l) /\ ItemOf(new, l) = ItemOf(tab, l)
      <4>1. PICK i \in 1 .. N : tab.items[i].key = l
        BY <1>2, <3>1 DEF Has
      <4>2. i \in DOMAIN new.items /\ new.items[i] = tab.items[i]
        BY <2>6, <2>7, <3>0
      <4>3. ItemOf(tab, l) = tab.items[i]
        BY <1>2, <4>1, PlaceIs
      <4>4. Has(new, l) /\ ItemOf(new, l) = new.items[i]
        BY <2>9, <4>1, <4>2, PlaceIs
      <4> QED
        BY <4>2, <4>3, <4>4
    <3>2. ASSUME Has(new, l) PROVE Has(tab, l)
      <4>1. PICK i \in 1 .. N + 1 : new.items[i].key = l
        BY <2>6, <3>2 DEF Has
      <4>2. i \in 1 .. N
        BY <1>1, <1>2, <2>8, <4>1
      <4> QED
        BY <1>2, <2>7, <4>1, <4>2 DEF Has
    <3> QED
      BY <3>1, <3>2
  <2> QED
    BY <2>5, <2>10, <2>11, <2>12 DEF new, it
<1> QED
  BY <1>3, <1>4

-----------------------------------------------------------------------------
\* The lines of the keys in S have been put into a table.
SlotsOf(delta) == IF delta THEN DELTA_SLOTS ELSE 1
Takes(tab, new, S, lines, n) ==
    /\ new \in Table(n)
    /\ new.timestamp = IF \E k \in S : lines[k] # <<>> THEN now ELSE tab.timestamp
    /\ \A k \in S : lines[k] # <<>> =>
         Has(new, k) /\ ItemOf(new, k) = Stored(RingOf(tab, k, n), lines[k], now)
    /\ \A k \in KeySet : k \notin S \/ lines[k] = <<>> =>
         /\ Has(new, k) <=> Has(tab, k)
         /\ Has(tab, k) => ItemOf(new, k) = ItemOf(tab, k)

\* A new item has at least one slot.
LEMMA SlotsOfType == ASSUME NEW delta \in BOOLEAN PROVE SlotsOf(delta) \in Nat \ {0}
<1>1. DELTA_SLOTS \in Nat \ {0}
  BY TablesAssumption
<1> QED
  BY <1>1 DEF SlotsOf

\* One line more.
LEMMA PutTakes ==
    ASSUME NEW delta \in BOOLEAN, now \in Nat \ {0}, NEW lines \in [KeySet -> LineValues],
           NEW tab \in Table(SlotsOf(delta)), NEW mid, NEW S \in SUBSET KeySet,
           Takes(tab, mid, S, lines, SlotsOf(delta)), NEW k \in KeySet \ S
    PROVE  Takes(tab, Put(mid, k, lines[k], delta), S \union {k}, lines, SlotsOf(delta))
<1> DEFINE n == SlotsOf(delta)
           new == Put(mid, k, lines[k], delta)
<1>0. n \in Nat \ {0} /\ mid \in Table(n) /\ lines[k] \in LineValues
  BY SlotsOfType DEF Takes
<1>1. CASE lines[k] = <<>>
  <2>1. new = mid
    BY <1>1 DEF Put
  <2>2. (\E l \in S \union {k} : lines[l] # <<>>) <=> (\E l \in S : lines[l] # <<>>)
    BY <1>1
  <2> HIDE DEF new, n
  <2>3. \A l \in S \union {k} : lines[l] # <<>> => l \in S
    BY <1>1
  <2>4. \A l \in KeySet : l \notin S \union {k} \/ lines[l] = <<>> => l \notin S \/ lines[l] = <<>>
    OBVIOUS
  <2>5. Takes(tab, mid, S, lines, n)
    BY DEF n
  <2>6. Takes(tab, mid, S \union {k}, lines, n)
    BY <2>2, <2>3, <2>4, <2>5 DEF Takes
  <2> QED
    BY <2>1, <2>6 DEF n, new
<1>2. CASE lines[k] # <<>>
  <2>1. new = hash_set(mid, k, lines[k], n, now)
    BY <1>2 DEF Put, hash_put, hash_put_delta, SlotsOf
  <2> HIDE DEF new, n
  <2>2. /\ new \in Table(n) /\ new.timestamp = now
        /\ Has(new, k) /\ ItemOf(new, k) = Stored(RingOf(mid, k, n), lines[k], now)
        /\ \A l \in KeySet \ {k} : (Has(new, l) <=> Has(mid, l)) /\ (Has(mid, l) => ItemOf(new, l) = ItemOf(mid, l))
    BY <1>0, <1>2, <2>1, SetStores
  <2>3. (Has(mid, k) <=> Has(tab, k)) /\ (Has(tab, k) => ItemOf(mid, k) = ItemOf(tab, k))
    BY DEF Takes, n
  <2>4. RingOf(mid, k, n) = RingOf(tab, k, n)
    BY <2>3 DEF RingOf
  <2>5. ASSUME NEW l \in S \union {k}, lines[l] # <<>>
        PROVE  Has(new, l) /\ ItemOf(new, l) = Stored(RingOf(tab, l, n), lines[l], now)
    <3>1. CASE l = k
      BY <2>2, <2>4, <3>1
    <3>2. CASE l # k
      <4>1. l \in S /\ l \in KeySet \ {k}
        BY <3>2
      <4>2. Has(mid, l) /\ ItemOf(mid, l) = Stored(RingOf(tab, l, n), lines[l], now)
        BY <2>5, <4>1 DEF Takes, n
      <4>3. Has(mid, l) => Has(new, l) /\ ItemOf(new, l) = ItemOf(mid, l)
        BY <2>2, <4>1
      <4> QED
        BY <4>2, <4>3
    <3> QED
      BY <3>1, <3>2
  <2>6. ASSUME NEW l \in KeySet, l \notin S \union {k} \/ lines[l] = <<>>
        PROVE  (Has(new, l) <=> Has(tab, l)) /\ (Has(tab, l) => ItemOf(new, l) = ItemOf(tab, l))
    <3>1. l \in KeySet \ {k} /\ (l \notin S \/ lines[l] = <<>>)
      BY <1>2, <2>6
    <3>2. (Has(mid, l) <=> Has(tab, l)) /\ (Has(tab, l) => ItemOf(mid, l) = ItemOf(tab, l))
      BY <3>1 DEF Takes
    <3>3. (Has(new, l) <=> Has(mid, l)) /\ (Has(mid, l) => ItemOf(new, l) = ItemOf(mid, l))
      BY <2>2, <3>1
    <3> QED
      BY <3>2, <3>3
  <2>7. \E l \in S \union {k} : lines[l] # <<>>
    BY <1>2
  <2>8. Takes(tab, new, S \union {k}, lines, n)
    BY <2>2, <2>5, <2>6, <2>7 DEF Takes
  <2> QED
    BY <2>8 DEF n, new
<1> QED
  BY <1>1, <1>2

\* The loop over the lines.
LEMMA LinesTaken ==
    ASSUME NEW delta \in BOOLEAN, now \in Nat \ {0}, NEW lines \in [KeySet -> LineValues],
           NEW tab \in Table(SlotsOf(delta))
    PROVE  Takes(tab, PutLines(tab, lines, delta), KeySet, lines, SlotsOf(delta))
<1> DEFINE N == Len(Keys)
           n == SlotsOf(delta)
           S == Table(n)
           Turn(t, i) == Put(t, Keys[i], lines[Keys[i]], delta)
           step == [i \in 1 .. N |-> [t \in S |-> Turn(t, i)]]
           Is(f) == f = [i \in 0 .. N |-> IF i = 0 THEN tab ELSE Turn(f[i - 1], i)]
           after == CHOOSE f : Is(f)
           Before(i) == {Keys[j] : j \in 1 .. i}
<1>1. N \in Nat /\ \A i \in 1 .. N : Keys[i] \in KeySet
  BY KeysDiffer
<1>2. ASSUME NEW t \in S, NEW i \in 1 .. N PROVE Turn(t, i) \in S
  <2>1. Takes(t, t, {}, lines, n)
    BY DEF Takes
  <2>2. Keys[i] \in KeySet \ {} /\ {} \in SUBSET KeySet
    BY <1>1
  <2> HIDE DEF n
  <2>3. Takes(t, Turn(t, i), {} \union {Keys[i]}, lines, n)
    BY <2>1, <2>2, PutTakes DEF n
  <2> QED
    BY <2>3 DEF Takes
<1>3. LoopOf(N, S, tab, step)
  <2> HIDE DEF Turn, N
  <2> QED
    BY <1>2 DEF LoopOf
<1>4. PICK f : IsRun(f, N, S, tab, step)
  <2> HIDE DEF N, S, step
  <2> QED
    BY <1>1, <1>3, LoopRuns
<1>5. Is(f)
  <2> HIDE DEF N, S, Turn
  <2>1. ASSUME NEW i \in 1 .. N PROVE f[i] = Turn(f[i - 1], i)
    <3>1. i - 1 \in 0 .. N
      BY <1>1
    <3>2. f[i - 1] \in S /\ f[i] = step[i][f[i - 1]]
      BY <1>4, <3>1 DEF IsRun
    <3> QED
      BY <3>2
  <2> QED
    BY <1>1, <1>4, <2>1 DEF IsRun
<1>6. Is(after)
  BY <1>5
<1>7. after[0] = tab /\ \A i \in 1 .. N : after[i] = Turn(after[i - 1], i)
  <2> HIDE DEF after, Turn, N
  <2>1. \A i \in 1 .. N : i \in 0 .. N /\ i # 0
    BY <1>1
  <2>2. 0 \in 0 .. N
    BY <1>1
  <2> QED
    BY <1>6, <2>1, <2>2
<1>8. PutLines(tab, lines, delta) = after[N]
  BY DEF PutLines
<1> DEFINE P == {i \in 0 .. N : Takes(tab, after[i], Before(i), lines, n)}
<1>9. 0 \in P
  <2>1. Before(0) = {}
    OBVIOUS
  <2>2. Takes(tab, tab, {}, lines, n)
    BY DEF Takes
  <2> HIDE DEF after, Before, n, N
  <2> QED
    BY <1>1, <1>7, <2>1, <2>2
<1>10. ASSUME NEW i \in 1 .. N, i - 1 \in P PROVE i \in P
  <2>1. Before(i) = Before(i - 1) \union {Keys[i]}
    <3>1. \A j : j \in 1 .. i <=> j \in 1 .. (i - 1) \/ j = i
      BY <1>1
    <3> QED
      BY <3>1
  <2>2. Keys[i] \notin Before(i - 1) /\ Before(i - 1) \in SUBSET KeySet
    <3>1. \A j \in 1 .. (i - 1) : j \in 1 .. N /\ j # i
      BY <1>1
    <3>2. \A j \in 1 .. (i - 1) : Keys[j] \in KeySet /\ Keys[j] # Keys[i]
      <4> TAKE j \in 1 .. (i - 1)
      <4>1. j \in DOMAIN Keys /\ i \in DOMAIN Keys /\ j # i
        BY <3>1, KeysDiffer
      <4> QED
        BY <4>1, KeysDiffer
    <3> QED
      BY <3>2
  <2>3. Takes(tab, after[i - 1], Before(i - 1), lines, n)
    BY <1>10
  <2> HIDE DEF after, Before
  <2>4. Takes(tab, Turn(after[i - 1], i), Before(i - 1) \union {Keys[i]}, lines, n)
    BY <1>1, <2>2, <2>3, PutTakes
  <2> HIDE DEF n, Turn
  <2>5. i \in 0 .. N
    BY <1>1
  <2> QED
    BY <1>7, <2>1, <2>4, <2>5
<1>11. N \in P
  <2> HIDE DEF P, N
  <2>1. \A i \in 0 .. N : i \in P
    BY <1>1, <1>9, <1>10, LoopInvariant
  <2> QED
    BY <1>1, <2>1
<1>12. Before(N) = KeySet
  <2>1. DOMAIN Keys = 1 .. N
    BY KeysDiffer
  <2>2. \A j \in 1 .. N : Keys[j] \in KeySet
    BY <1>1
  <2>3. \A k \in KeySet : \E j \in 1 .. N : Keys[j] = k
    BY <2>1, KeysDiffer
  <2> HIDE DEF N
  <2> QED
    BY <2>2, <2>3
<1> QED
  BY <1>8, <1>11, <1>12

-----------------------------------------------------------------------------
\* The plugins that work with rings, and those that never read again after a failure.
Ringed == plugin \in Counting \union {"proc_stat"}
GivesUp == {"apm", "cps", "loadavg", "uptime"}
Rings == SlotsOf(Ringed)
StateFields == {"table", "fd", "nelem", "off"}
IsState(s) == /\ s = [f \in StateFields |-> s[f]]
              /\ s.fd \in {-2, -1, 3} /\ s.nelem \in {-1, 3} /\ s.off \in SUBSET KeySet
              /\ s.fd = -1 => plugin \in GivesUp \union {"ppp"}
Sample == [value : LineValues \ {<<>>}, at : Nat \ {0}]

TablesOK ==
    /\ plugin \in TablePlugins /\ now \in 1 .. MaxNow /\ file \in [KeySet -> Lines]
    /\ readable \in BOOLEAN /\ stepped \in BOOLEAN /\ changed \in [KeySet -> Nat]
    /\ IsState(state) /\ state.table \in Table(Rings)
    /\ samples \in [KeySet -> Seq(Sample)]

\* What a read finds.
Found(s) == [k \in KeySet |-> Counted(k, s)]

\* What the function of a plugin does to its state.
Reads(r, key) ==
    /\ r.ok \in BOOLEAN /\ r.read \in BOOLEAN /\ IsState(r.s)
    /\ state.fd = -1 => r.s.fd = -1
    /\ state.off \subseteq r.s.off
    /\ r.read => /\ plugin # "i2c" /\ r.ok
                 /\ \A k \in KeySet : Counted(k, r.s) = Counted(k, state)
                 /\ r.s.table = PutLines(state.table, Found(r.s), Ringed)
    /\ plugin # "i2c" /\ ~r.read => r.s.table = state.table

\* When a plugin does without a read, or fails, though its file can be read.
Excused(r, key) ==
    /\ plugin # "i2c" /\ r.ok /\ ~r.read /\ ~stepped /\ state.table.timestamp <= now =>
         state.fd = -1 \/ now - state.table.timestamp <= KeepTime
    /\ plugin # "i2c" /\ readable /\ ~r.ok => plugin \in GivesUp /\ r.s.fd = -1

\* What the state of a plugin consists of.
LEMMA StateShape ==
    ASSUME TablesOK
    PROVE  /\ state = [f \in StateFields |-> state[f]]
           /\ state.fd \in {-2, -1, 3} /\ state.nelem \in {-1, 3} /\ state.off \in SUBSET KeySet
           /\ Rings \in Nat \ {0} /\ state.table \in Table(Rings)
           /\ state.table.timestamp \in Nat /\ now \in Nat \ {0}
           /\ Ringed \in BOOLEAN
<1>1. Ringed \in BOOLEAN
  BY DEF Ringed
<1>2. Rings \in Nat \ {0}
  BY <1>1, SlotsOfType DEF Rings
<1>3. state.table \in Table(Rings)
  BY DEF TablesOK
<1>4. state.table.timestamp \in Nat
  BY <1>2, <1>3, TableShape
<1>5. now \in Nat \ {0}
  <2>1. MaxNow \in Nat
    BY TablesAssumption
  <2> QED
    BY <2>1 DEF TablesOK
<1> QED
  BY <1>1, <1>2, <1>3, <1>4, <1>5 DEF TablesOK, IsState

\* What is found in most files are their lines.
LEMMA LinesFound ==
    ASSUME TablesOK, NEW s, plugin \notin {"ppp", "dvb"}
    PROVE  Found(s) = file /\ \A k \in KeySet : Counted(k, s) = file[k]
  BY DEF TablesOK, Found, Counted

\* A table that is young enough was read not long ago.
LEMMA CachedAge ==
    ASSUME TablesOK, NEW w \in Nat, Cached(state, w)
    PROVE  now - state.table.timestamp <= w
  BY StateShape DEF Cached, hash_age

\* The three ends of a read.
LEMMA KeptReads ==
    ASSUME TablesOK, NEW key, state.fd = -1 \/ now - state.table.timestamp <= KeepTime
    PROVE  Reads(Kept(state), key) /\ Excused(Kept(state), key)
<1> DEFINE r == Kept(state)
<1>1. r.s = state /\ r.ok = TRUE /\ r.read = FALSE
  BY DEF Kept
<1> HIDE DEF r
<1> SUFFICES Reads(r, key) /\ Excused(r, key)
  BY DEF r
<1> QED
  BY <1>1 DEF TablesOK, Reads, Excused

\* A read that failed leaves the table.
LEMMA FailedReads ==
    ASSUME TablesOK, NEW key, NEW s, IsState(s), s.table = state.table, s.off = state.off,
           state.fd = -1 => s.fd = -1, readable => plugin \in GivesUp /\ s.fd = -1
    PROVE  Reads(Failed(s), key) /\ Excused(Failed(s), key)
<1> DEFINE r == Failed(s)
<1>1. r.s = s /\ r.ok = FALSE /\ r.read = FALSE
  BY DEF Failed
<1> HIDE DEF r
<1> SUFFICES Reads(r, key) /\ Excused(r, key)
  BY DEF r
<1> QED
  BY <1>1 DEF Reads, Excused

\* A read that was made took the lines found.
LEMMA DoneReads ==
    ASSUME TablesOK, NEW key, NEW s, IsState(s), plugin # "i2c",
           s.table = PutLines(state.table, Found(s), Ringed), state.off \subseteq s.off,
           state.fd = -1 => s.fd = -1, \A k \in KeySet : Counted(k, s) = Counted(k, state)
    PROVE  Reads(Done(s), key) /\ Excused(Done(s), key)
<1> DEFINE r == Done(s)
<1>1. r.s = s /\ r.ok = TRUE /\ r.read = TRUE
  BY DEF Done
<1> HIDE DEF r
<1> SUFFICES Reads(r, key) /\ Excused(r, key)
  BY DEF r
<1> QED
  BY <1>1 DEF Reads, Excused

\* The state after the whole file was read.
AllRead(s) ==
    /\ IsState(s) /\ s.table = PutLines(state.table, file, Ringed)
    /\ s.off = state.off /\ s.nelem \in {state.nelem, 3} /\ s.fd \in {state.fd, 3}

\* The table after all lines were put.
LEMMA AllReads ==
    ASSUME TablesOK, NEW key, NEW s, AllRead(s), plugin \notin {"i2c", "ppp", "dvb"}, state.fd # -1
    PROVE  Reads(Done(s), key) /\ Excused(Done(s), key)
<1>1. Found(s) = file /\ \A k \in KeySet : Counted(k, s) = file[k] /\ Counted(k, state) = file[k]
  BY LinesFound
<1> QED
  BY <1>1, DoneReads DEF AllRead

\* Reading the file, before and after a change of the other fields.
ReadsFile(s) == [s EXCEPT !.table = PutLines(@, file, Ringed)]

\* A state by its fields.
StateOf(t, d, e, o) ==
    [f \in StateFields |-> IF f = "table" THEN t ELSE IF f = "fd" THEN d
                           ELSE IF f = "nelem" THEN e ELSE o]

\* The fields of a state that is given by them.
LEMMA FieldsOf ==
    ASSUME NEW t, NEW d, NEW e, NEW o
    PROVE  LET s == StateOf(t, d, e, o)
           IN /\ s = [f \in StateFields |-> s[f]]
              /\ s.table = t /\ s.fd = d /\ s.nelem = e /\ s.off = o
  BY DEF StateFields, StateOf

\* Every state is given by its fields.
LEMMA StateIs ==
    ASSUME TablesOK
    PROVE  state = StateOf(state.table, state.fd, state.nelem, state.off)
<1>1. state = [f \in StateFields |-> state[f]]
  BY DEF TablesOK, IsState
<1> QED
  BY <1>1 DEF StateFields, StateOf

\* What a read of the file leaves.
LEMMA FileRead ==
    ASSUME NEW d, NEW e, NEW s, s = StateOf(state.table, d, e, state.off)
    PROVE  ReadsFile(s) = StateOf(PutLines(state.table, file, Ringed), d, e, state.off)
  BY DEF ReadsFile, StateFields, StateOf

\* The same, wherever the descriptor is set.
LEMMA TableRead ==
    ASSUME TablesOK
    PROVE  /\ AllRead(ReadsFile(state))
           /\ AllRead([ReadsFile(state) EXCEPT !.fd = 3])
           /\ AllRead(ReadsFile([state EXCEPT !.fd = 3]))
           /\ AllRead(ReadsFile([state EXCEPT !.fd = 3, !.nelem = 3]))
<1> DEFINE t == state.table
           o == state.off
           x == PutLines(state.table, file, Ringed)
<1>0. IsState(state)
  BY DEF TablesOK
<1>1. ASSUME NEW d \in {state.fd, 3}, NEW e \in {state.nelem, 3}
      PROVE  AllRead(StateOf(x, d, e, o))
  <2> DEFINE u == StateOf(x, d, e, o)
  <2>1. /\ u = [f \in StateFields |-> u[f]]
        /\ u.table = x /\ u.fd = d /\ u.nelem = e /\ u.off = state.off
    BY FieldsOf
  <2> HIDE DEF u
  <2>2. AllRead(u)
    BY <1>0, <2>1 DEF AllRead, IsState
  <2> QED
    BY <2>2 DEF u
<1>2. ReadsFile(state) = StateOf(x, state.fd, state.nelem, o)
  BY StateIs, FileRead, Zenon
<1>3. [ReadsFile(state) EXCEPT !.fd = 3] = StateOf(x, 3, state.nelem, o)
  BY <1>2 DEF StateFields, StateOf
<1>4. [state EXCEPT !.fd = 3] = StateOf(t, 3, state.nelem, o)
  BY StateIs DEF StateFields, StateOf
<1>5. ReadsFile([state EXCEPT !.fd = 3]) = StateOf(x, 3, state.nelem, o)
  BY <1>4, FileRead, Zenon
<1>6. [[state EXCEPT !.fd = 3] EXCEPT !.nelem = 3] = StateOf(t, 3, 3, o)
  BY <1>4 DEF StateFields, StateOf
<1>7. ReadsFile([state EXCEPT !.fd = 3, !.nelem = 3]) = StateOf(x, 3, 3, o)
  BY <1>6, FileRead, Zenon
<1> QED
  BY <1>1, <1>2, <1>3, <1>5, <1>7, Zenon

\* The plugins that keep their file open.
LEMMA OpenOnceReads ==
    ASSUME TablesOK, NEW key, KeepTime \in Nat,
           plugin \in {"cpuinfo", "meminfo", "diskstats", "netdev", "proc_stat"}
    PROVE  LET r == OpenOnce(state, KeepTime, ReadsFile(state))
           IN Reads(r, key) /\ Excused(r, key)
<1> DEFINE s == [ReadsFile(state) EXCEPT !.fd = 3]
           r == OpenOnce(state, KeepTime, ReadsFile(state))
<1>0. state.fd # -1 /\ IsState(state) /\ plugin \notin {"i2c", "ppp", "dvb"}
  BY DEF TablesOK, GivesUp, IsState
<1>1. AllRead(s)
  BY TableRead
<1>2. \/ r = Kept(state) /\ Cached(state, KeepTime)
      \/ r = Failed(state) /\ ~readable
      \/ r = Done(s)
  BY Zenon DEF OpenOnce
<1> HIDE DEF s, r
<1> SUFFICES Reads(r, key) /\ Excused(r, key)
  BY Zenon DEF r
<1>3. CASE r = Kept(state) /\ Cached(state, KeepTime)
  BY <1>3, CachedAge, KeptReads
<1>4. CASE r = Failed(state) /\ ~readable
  BY <1>0, <1>4, FailedReads
<1>5. CASE r = Done(s)
  BY <1>0, <1>1, <1>5, AllReads
<1> QED
  BY <1>2, <1>3, <1>4, <1>5

\* Files that are opened each time.
LEMMA OpenedReads ==
    ASSUME TablesOK, NEW key, NEW r, plugin \in {"seti", "isdn"},
           \/ r = Kept(state) /\ Cached(state, KeepTime)
           \/ r = Failed(state) /\ ~readable
           \/ r = Done(ReadsFile(state)),
           KeepTime \in Nat
    PROVE  Reads(r, key) /\ Excused(r, key)
<1>0. state.fd # -1 /\ IsState(state) /\ plugin \notin {"i2c", "ppp", "dvb"}
  BY DEF TablesOK, GivesUp, IsState
<1>3. CASE r = Kept(state) /\ Cached(state, KeepTime)
  BY <1>3, CachedAge, KeptReads
<1>4. CASE r = Failed(state) /\ ~readable
  BY <1>0, <1>4, FailedReads
<1>5. CASE r = Done(ReadsFile(state))
  BY <1>0, <1>5, TableRead, AllReads
<1> QED
  BY <1>3, <1>4, <1>5

\* Giving up: the descriptor becomes or stays -1.
LEMMA GivenUp ==
    ASSUME TablesOK, plugin \in GivesUp \union {"ppp"}
    PROVE  LET s == [state EXCEPT !.fd = -1]
               u == [state EXCEPT !.fd = IF @ = -2 THEN -1 ELSE @, !.nelem = -1]
           IN /\ IsState(s) /\ s.table = state.table /\ s.off = state.off /\ s.fd = -1
              /\ IsState(u) /\ u.table = state.table /\ u.off = state.off /\ (state.fd = -1 => u.fd = -1)
<1> DEFINE d == IF state.fd = -2 THEN -1 ELSE state.fd
           s == StateOf(state.table, -1, state.nelem, state.off)
           u == StateOf(state.table, d, -1, state.off)
<1>1. [state EXCEPT !.fd = -1] = s
  BY StateIs DEF StateFields, StateOf
<1>2. [state EXCEPT !.fd = IF @ = -2 THEN -1 ELSE @, !.nelem = -1] = u
  BY StateIs DEF StateFields, StateOf
<1>3. /\ s = [f \in StateFields |-> s[f]]
      /\ s.table = state.table /\ s.fd = -1 /\ s.nelem = state.nelem /\ s.off = state.off
  BY FieldsOf
<1>4. /\ u = [f \in StateFields |-> u[f]]
      /\ u.table = state.table /\ u.fd = d /\ u.nelem = -1 /\ u.off = state.off
  BY FieldsOf
<1>0. IsState(state)
  BY DEF TablesOK
<1>5. /\ IsState(s) /\ s.table = state.table /\ s.off = state.off /\ s.fd = -1
      /\ IsState(u) /\ u.table = state.table /\ u.off = state.off /\ (state.fd = -1 => u.fd = -1)
  <2> HIDE DEF s, u
  <2> QED
    BY <1>0, <1>3, <1>4 DEF IsState
<1> QED
  BY <1>1, <1>2, <1>5, Zenon

\* Files that are opened once, and given up after a failure.
LEMMA GivenUpReads ==
    ASSUME TablesOK, NEW key, NEW r, plugin \in GivesUp,
           \/ r = Kept(state) /\ now - state.table.timestamp <= KeepTime
           \/ /\ r = Failed([state EXCEPT !.fd = -1])
              /\ readable => state.fd = -1
           \/ /\ r = Failed([state EXCEPT !.fd = IF @ = -2 THEN -1 ELSE @, !.nelem = -1])
              /\ readable => state.fd = -1
           \/ r = Done(ReadsFile([state EXCEPT !.fd = 3])) /\ state.fd # -1
           \/ r = Done(ReadsFile([state EXCEPT !.fd = 3, !.nelem = 3])) /\ state.fd # -1
    PROVE  Reads(r, key) /\ Excused(r, key)
<1> DEFINE s == [state EXCEPT !.fd = -1]
           u == [state EXCEPT !.fd = IF @ = -2 THEN -1 ELSE @, !.nelem = -1]
           a == ReadsFile([state EXCEPT !.fd = 3])
           b == ReadsFile([state EXCEPT !.fd = 3, !.nelem = 3])
<1>0. plugin \notin {"i2c", "ppp", "dvb"}
  BY DEF GivesUp
<1>1. \/ r = Kept(state) /\ now - state.table.timestamp <= KeepTime
      \/ r = Failed(s) /\ (readable => state.fd = -1)
      \/ r = Failed(u) /\ (readable => state.fd = -1)
      \/ r = Done(a) /\ state.fd # -1
      \/ r = Done(b) /\ state.fd # -1
  BY Zenon
<1>2. /\ IsState(s) /\ s.table = state.table /\ s.off = state.off /\ s.fd = -1
      /\ IsState(u) /\ u.table = state.table /\ u.off = state.off /\ (state.fd = -1 => u.fd = -1)
  BY GivenUp, Zenon
<1>3. AllRead(a) /\ AllRead(b)
  BY TableRead, Zenon
<1> SUFFICES ASSUME TRUE PROVE Reads(r, key) /\ Excused(r, key)
  OBVIOUS
<1> HIDE DEF s, u, a, b
<1>5. CASE r = Kept(state) /\ now - state.table.timestamp <= KeepTime
  BY <1>5, KeptReads
<1>6. CASE r = Failed(s) /\ (readable => state.fd = -1)
  BY <1>2, <1>6, FailedReads
<1>7. CASE r = Failed(u) /\ (readable => state.fd = -1)
  BY <1>2, <1>7, FailedReads
<1>8. CASE r = Done(a) /\ state.fd # -1
  BY <1>0, <1>3, <1>8, AllReads
<1>9. CASE r = Done(b) /\ state.fd # -1
  BY <1>0, <1>3, <1>9, AllReads
<1> QED
  BY <1>1, <1>5, <1>6, <1>7, <1>8, <1>9

\* The frontend: the numbers it does not give are 0, those of its driver from then on.
LEMMA FrontendReads ==
    ASSUME TablesOK, NEW key, plugin = "dvb", KeepTime = Ms1000, KeepTime \in Nat
    PROVE  Reads(get_dvb_stats(state), key) /\ Excused(get_dvb_stats(state), key)
<1> DEFINE r == get_dvb_stats(state)
           gone == {k \in KeySet : file[k] = <<>>}
           off == state.off \union (gone \intersect enosys)
           lines == [k \in KeySet |-> IF k \in state.off \union gone THEN <<0, 0>> ELSE file[k]]
           new == PutLines(state.table, lines, FALSE)
           s == [state EXCEPT !.off = off, !.table = PutLines(@, lines, FALSE)]
           u == StateOf(new, state.fd, state.nelem, off)
<1>0. state.fd # -1 /\ IsState(state) /\ plugin # "i2c" /\ Ringed = FALSE /\ state.off \in SUBSET KeySet
  BY DEF TablesOK, GivesUp, IsState, Ringed, Counting
<1>1. \/ r = Kept(state) /\ Cached(state, Ms1000)
      \/ r = Failed(state) /\ ~readable
      \/ r = Done(s)
  BY Zenon DEF get_dvb_stats
<1>2. s = u
  <2> HIDE DEF off, lines
  <2> QED
    BY StateIs DEF StateFields, StateOf
<1>3. /\ u = [f \in StateFields |-> u[f]]
      /\ u.table = new /\ u.fd = state.fd /\ u.nelem = state.nelem /\ u.off = off
  <2> HIDE DEF off, new
  <2> QED
    BY FieldsOf
<1>4. off \in SUBSET KeySet /\ state.off \subseteq off
  BY <1>0
<1>5. /\ \A k \in KeySet : Counted(k, u) = Counted(k, state)
      /\ Found(u) = lines
  <2>1. \A k \in KeySet : (k \in off \/ file[k] = <<>>) <=> (k \in state.off \union gone)
    OBVIOUS
  <2>2. \A k \in KeySet : Counted(k, u) = lines[k] /\ Counted(k, state) = lines[k]
    <3> HIDE DEF u
    <3> QED
      BY <1>3, <2>1 DEF Counted
  <2> HIDE DEF u, off, gone
  <2> QED
    BY <2>2 DEF Found
<1> SUFFICES Reads(r, key) /\ Excused(r, key)
  BY Zenon
<1> HIDE DEF r, s, u, off, gone, lines
<1>6. CASE r = Kept(state) /\ Cached(state, Ms1000)
  BY <1>6, CachedAge, KeptReads
<1>7. CASE r = Failed(state) /\ ~readable
  BY <1>0, <1>7, FailedReads
<1>8. CASE r = Done(s)
  <2>1. IsState(u)
    BY <1>0, <1>3, <1>4 DEF IsState
  <2>2. u.table = PutLines(state.table, Found(u), Ringed)
    BY <1>0, <1>3, <1>5
  <2> QED
    BY <1>0, <1>2, <1>3, <1>4, <1>5, <1>8, <2>1, <2>2, DoneReads
<1> QED
  BY <1>1, <1>6, <1>7, <1>8

\* PPP: without a socket every unit has counted nothing.
LEMMA UnitsRead ==
    ASSUME TablesOK, NEW key, plugin = "ppp", KeepTime = Ms10, KeepTime \in Nat
    PROVE  Reads(get_ppp_stats(state), key) /\ Excused(get_ppp_stats(state), key)
<1> DEFINE r == get_ppp_stats(state)
           d == IF state.fd # -2 THEN state.fd ELSE IF readable THEN 3 ELSE -1
           stats == [k \in KeySet |-> IF d # -1 /\ file[k] # <<>> THEN file[k] ELSE <<0, 0>>]
           new == PutLines(state.table, stats, TRUE)
           s == [state EXCEPT !.fd = d, !.table = PutLines(@, stats, TRUE)]
           u == StateOf(new, d, state.nelem, state.off)
           v == [state EXCEPT !.fd = -1]
<1>0. IsState(state) /\ plugin # "i2c" /\ Ringed
  BY DEF TablesOK, Ringed, Counting
<1>1. \/ r = Kept(state) /\ Cached(state, Ms10)
      \/ r = Failed(v) /\ state.fd = -2 /\ d = -1
      \/ r = Done(s) /\ ~(state.fd = -2 /\ d = -1)
  BY Zenon DEF get_ppp_stats
<1>2. s = u
  <2> HIDE DEF d, stats
  <2> QED
    BY StateIs DEF StateFields, StateOf
<1>3. /\ u = [f \in StateFields |-> u[f]]
      /\ u.table = new /\ u.fd = d /\ u.nelem = state.nelem /\ u.off = state.off
  <2> HIDE DEF d, new
  <2> QED
    BY FieldsOf
<1>4. /\ IsState(v) /\ v.table = state.table /\ v.off = state.off /\ v.fd = -1
  BY GivenUp, Zenon
<1>5. d \in {-2, -1, 3} /\ (d = -1 <=> (state.fd = -1 \/ (state.fd = -2 /\ ~readable)))
  <2>1. state.fd \in {-2, -1, 3}
    BY <1>0 DEF IsState
  <2>2. readable \in BOOLEAN
    BY DEF TablesOK
  <2> QED
    BY <2>1, <2>2
<1>a. \A k \in KeySet : stats[k] = IF d # -1 /\ file[k] # <<>> THEN file[k] ELSE <<0, 0>>
  OBVIOUS
<1>b. stats = [k \in KeySet |-> stats[k]]
  OBVIOUS
<1> SUFFICES Reads(r, key) /\ Excused(r, key)
  BY Zenon
<1> HIDE DEF r, s, u, v, d, stats
<1>6. CASE r = Kept(state) /\ Cached(state, Ms10)
  BY <1>6, CachedAge, KeptReads
<1>7. CASE r = Failed(v) /\ state.fd = -2 /\ d = -1
  <2>1. ~readable
    BY <1>5, <1>7
  <2> QED
    BY <1>0, <1>4, <1>7, <2>1, FailedReads
<1>8. CASE r = Done(s) /\ ~(state.fd = -2 /\ d = -1)
  <2>1. IsState(u) /\ (d = -1 <=> state.fd = -1)
    BY <1>0, <1>3, <1>5, <1>8 DEF IsState
  <2>2. \A k \in KeySet : Counted(k, u) = stats[k] /\ Counted(k, state) = stats[k]
    BY <1>3, <1>a, <2>1 DEF Counted
  <2>3. Found(u) = stats
    BY <1>b, <2>2 DEF Found
  <2>4. u.table = PutLines(state.table, Found(u), Ringed)
    BY <1>0, <1>3, <2>3
  <2>5. state.off \subseteq u.off
    BY <1>3
  <2> QED
    BY <1>0, <1>2, <1>3, <1>8, <2>1, <2>2, <2>4, <2>5, DoneReads
<1> QED
  BY <1>1, <1>6, <1>7, <1>8

\* Every plugin but the sensors.
LEMMA PluginReads ==
    ASSUME TablesOK, NEW key \in KeySet, plugin # "i2c"
    PROVE  Reads(Read(state, key), key) /\ Excused(Read(state, key), key)
<1>0. Ms10 \in Nat /\ Ms100 \in Nat /\ Ms250 \in Nat /\ Ms1000 \in Nat
  BY TablesAssumption
<1>1. KeepTime \in Nat
  BY <1>0 DEF KeepTime
<1>2. /\ ~Ringed => ReadAll(state) = ReadsFile(state) /\ \A s : ReadAll(s) = ReadsFile(s)
      /\ Ringed => ReadAllDelta(state) = ReadsFile(state) /\ \A s : ReadAllDelta(s) = ReadsFile(s)
  <2>1. CASE Ringed
    <3>1. Ringed = TRUE
      BY <2>1 DEF Ringed
    <3> QED
      BY <3>1, Zenon DEF ReadAllDelta, ReadsFile
  <2>2. CASE ~Ringed
    <3>1. Ringed = FALSE
      BY <2>2 DEF Ringed
    <3> QED
      BY <3>1, Zenon DEF ReadAll, ReadsFile
  <2> QED
    BY <2>1, <2>2
<1>3. CASE plugin \in {"cpuinfo", "meminfo", "diskstats", "netdev", "proc_stat"}
  <2>1. CASE plugin = "cpuinfo"
    <3>1. KeepTime = Ms1000 /\ ~Ringed
      BY <2>1 DEF KeepTime, Ringed, Counting
    <3>2. Read(state, key) = OpenOnce(state, KeepTime, ReadsFile(state))
      BY <1>2, <2>1, <3>1 DEF Read, parse_cpuinfo
    <3> QED
      BY <1>1, <1>3, <3>2, OpenOnceReads, Zenon
  <2>2. CASE plugin = "meminfo"
    <3>1. KeepTime = Ms10 /\ ~Ringed
      BY <2>2 DEF KeepTime, Ringed, Counting
    <3>2. Read(state, key) = OpenOnce(state, KeepTime, ReadsFile(state))
      BY <1>2, <2>2, <3>1 DEF Read, parse_meminfo
    <3> QED
      BY <1>1, <1>3, <3>2, OpenOnceReads, Zenon
  <2>3. CASE plugin \in {"diskstats", "netdev", "proc_stat"}
    <3>1. KeepTime = Ms10 /\ Ringed
      BY <2>3 DEF KeepTime, Ringed, Counting
    <3>2. Read(state, key) = OpenOnce(state, KeepTime, ReadsFile(state))
      BY <1>2, <2>3, <3>1 DEF Read, parse_diskstats, parse_netdev, parse_proc_stat
    <3> QED
      BY <1>1, <1>3, <3>2, OpenOnceReads, Zenon
  <2> QED
    BY <1>3, <2>1, <2>2, <2>3
<1>4. CASE plugin \in {"seti", "isdn"}
  <2>0. state.fd # -1 /\ ~Ringed /\ KeepTime = IF plugin = "seti" THEN Ms100 ELSE Ms10
    BY <1>4 DEF TablesOK, IsState, GivesUp, Ringed, Counting, KeepTime
  <2>1. \/ Read(state, key) = Kept(state) /\ Cached(state, KeepTime)
        \/ Read(state, key) = Failed(state) /\ ~readable
        \/ Read(state, key) = Done(ReadsFile(state))
    <3>1. CASE plugin = "seti"
      <4>1. Read(state, key) = parse_seti(state) /\ KeepTime = Ms100 /\ ReadAll(state) = ReadsFile(state)
        BY <1>2, <2>0, <3>1 DEF Read
      <4> QED
        BY <2>0, <4>1 DEF parse_seti
    <3>2. CASE plugin = "isdn"
      <4>1. Read(state, key) = parse_isdninfo(state) /\ KeepTime = Ms10 /\ ReadAll(state) = ReadsFile(state)
        BY <1>2, <2>0, <3>2 DEF Read
      <4> QED
        BY <4>1 DEF parse_isdninfo
    <3> QED
      BY <1>4, <3>1, <3>2
  <2> QED
    BY <1>1, <1>4, <2>1, OpenedReads
<1>5. CASE plugin \in GivesUp
  <2> DEFINE s == [state EXCEPT !.fd = -1]
             u == [state EXCEPT !.fd = IF @ = -2 THEN -1 ELSE @, !.nelem = -1]
             v == [state EXCEPT !.fd = 3]
             x == [state EXCEPT !.fd = 3, !.nelem = 3]
  <2>a. state.fd = -1 => state.fd # -2
    OBVIOUS
  <2>1. CASE plugin = "apm"
    <3>1. KeepTime = Ms10 /\ ~Ringed
      BY <2>1 DEF KeepTime, Ringed, Counting
    <3>2. Read(state, key) = IF Cached(state, Ms10) THEN Kept(state)
                             ELSE IF state.fd = -1 \/ ~readable THEN Failed(s) ELSE Done(ReadsFile(v))
      <4> HIDE DEF s, v
      <4>1. Read(state, key) = parse_proc_apm(state)
        BY <2>1 DEF Read
      <4>2. ReadAll(v) = ReadsFile(v)
        BY <1>2, <3>1
      <4>3. parse_proc_apm(state) = IF Cached(state, Ms10) THEN Kept(state)
                                    ELSE IF state.fd = -1 \/ ~readable THEN Failed(s) ELSE Done(ReadAll(v))
        BY Zenon DEF parse_proc_apm, s, v
      <4> QED
        BY <4>1, <4>2, <4>3
    <3>3. Cached(state, Ms10) => now - state.table.timestamp <= KeepTime
      BY <1>0, <3>1, CachedAge
    <3> QED
      BY <1>5, <3>2, <3>3, GivenUpReads, Zenon
  <2>2. CASE plugin = "cps"
    <3>1. KeepTime = Ms10 /\ Ringed
      BY <2>2 DEF KeepTime, Ringed, Counting
    <3>2. Read(state, key) = IF Cached(state, Ms10) THEN Kept(state)
                             ELSE IF state.fd = -1 \/ ~readable THEN Failed(s) ELSE Done(ReadsFile(v))
      <4> HIDE DEF s, v
      <4>1. Read(state, key) = get_cps(state)
        BY <2>2 DEF Read
      <4>2. ReadAllDelta(v) = ReadsFile(v)
        BY <1>2, <3>1
      <4>3. get_cps(state) = IF Cached(state, Ms10) THEN Kept(state)
                             ELSE IF state.fd = -1 \/ ~readable THEN Failed(s) ELSE Done(ReadAllDelta(v))
        BY Zenon DEF get_cps, s, v
      <4> QED
        BY <4>1, <4>2, <4>3
    <3>3. Cached(state, Ms10) => now - state.table.timestamp <= KeepTime
      BY <1>0, <3>1, CachedAge
    <3> QED
      BY <1>5, <3>2, <3>3, GivenUpReads, Zenon
  <2>3. CASE plugin \in {"loadavg", "uptime"}
    <3> DEFINE w == IF plugin = "loadavg" THEN Ms10 ELSE Ms100
    <3>1. KeepTime = w /\ ~Ringed
      BY <2>3 DEF KeepTime, Ringed, Counting
    <3>2. ReadAll(x) = ReadsFile(x)
      BY <1>2, <3>1, Zenon
    <3>3. /\ getloadavg(state) = IF state.fd = -1 \/ ~readable THEN Failed(u) ELSE Done(ReadAll(x))
          /\ getuptime(state) = IF state.fd = -1 \/ ~readable THEN Failed(u) ELSE Done(ReadAll(x))
      BY Zenon DEF getloadavg, getuptime
    <3> HIDE DEF u, x
    <3>4. \/ Read(state, key) = Kept(state) /\ ~Stale(state, w)
          \/ Read(state, key) = Failed(u) /\ (readable => state.fd = -1)
          \/ Read(state, key) = Done(ReadsFile(x)) /\ state.fd # -1
      BY <2>3, <3>2, <3>3 DEF Read, my_loadavg, my_uptime
    <3>5. ~Stale(state, w) => now - state.table.timestamp <= KeepTime
      BY <1>0, <3>1, StateShape DEF Stale, hash_age
    <3> QED
      BY <1>5, <3>4, <3>5, GivenUpReads, Zenon DEF u, x
  <2> QED
    BY <1>5, <2>1, <2>2, <2>3 DEF GivesUp
<1>6. CASE plugin = "dvb"
  <2>1. KeepTime = Ms1000 /\ Read(state, key) = get_dvb_stats(state)
    BY <1>6 DEF KeepTime, Read
  <2> QED
    BY <1>1, <1>6, <2>1, FrontendReads
<1>7. CASE plugin = "ppp"
  <2>1. KeepTime = Ms10 /\ Read(state, key) = get_ppp_stats(state)
    BY <1>7 DEF KeepTime, Read
  <2> QED
    BY <1>1, <1>7, <2>1, UnitsRead
<1> QED
  BY <1>3, <1>4, <1>5, <1>6, <1>7 DEF TablesOK, TablePlugins, GivesUp

\* uptime keeps its value, loses it or reads it.
LEMMA UptimeReads ==
    ASSUME TablesOK, NEW key, plugin = "uptime"
    PROVE  LET r == Read(state, key)
           IN \/ r = Kept(state)
              \/ ~r.ok /\ ~r.read /\ r.s.nelem = -1
              \/ r.read /\ r.s.nelem = 3
<1> DEFINE r == Read(state, key)
           d == IF state.fd = -2 THEN -1 ELSE state.fd
           w == [state EXCEPT !.fd = IF @ = -2 THEN -1 ELSE @, !.nelem = -1]
           x == [state EXCEPT !.fd = 3, !.nelem = 3]
           u == StateOf(state.table, d, -1, state.off)
           v == StateOf(state.table, 3, 3, state.off)
           y == StateOf(PutLines(state.table, file, FALSE), 3, 3, state.off)
<1>1. w = u /\ x = v
  BY StateIs DEF StateFields, StateOf
<1>2. ReadAll(v) = y
  <2>1. v.table = state.table /\ ReadAll(v) = [v EXCEPT !.table = PutLines(@, file, FALSE)]
    BY DEF ReadAll, StateFields, StateOf
  <2> QED
    BY <2>1 DEF StateFields, StateOf
<1>3. u.nelem = -1 /\ y.nelem = 3
  <2> DEFINE z == PutLines(state.table, file, FALSE)
  <2> HIDE DEF d, z
  <2>1. u.nelem = -1
    BY FieldsOf
  <2>2. StateOf(z, 3, 3, state.off).nelem = 3
    BY FieldsOf
  <2> QED
    BY <2>1, <2>2 DEF z
<1>4. getuptime(state) = IF state.fd = -1 \/ ~readable THEN Failed(w) ELSE Done(ReadAll(x))
  BY Zenon DEF getuptime
<1>5. r = Kept(state) \/ r = getuptime(state)
  BY DEF Read, my_uptime
<1> HIDE DEF r, d, w, x, u, v, y
<1>6. r = Kept(state) \/ r = Failed(u) \/ r = Done(y)
  BY <1>1, <1>2, <1>4, <1>5
<1> QED
  BY <1>3, <1>6 DEF Failed, Done, r
-----------------------------------------------------------------------------
\* What is found are lines.
LEMMA FoundLines ==
    ASSUME TablesOK, NEW s
    PROVE  Found(s) \in [KeySet -> LineValues] /\ \A k \in KeySet : Found(s)[k] = Counted(k, s)
<1>1. \A k \in KeySet : Counted(k, s) \in LineValues
  BY DEF TablesOK, Counted, LineValues
<1> QED
  BY <1>1 DEF Found

\* One sensor.
LEMMA SensorReads ==
    ASSUME TablesOK, NEW key \in KeySet, plugin = "i2c"
    PROVE  LET r == Read(state, key)
               held == Has(state.table, key)
               elapsed == now - Newest(ItemOf(state.table, key)).timestamp
           IN /\ IsState(r.s) /\ r.s.fd = state.fd /\ r.s.off = state.off
              /\ r.ok \in BOOLEAN /\ r.read = FALSE
              /\ r.ok <=> Has(r.s.table, key)
              /\ \/ r.s.table = state.table /\ (~readable \/ (held /\ elapsed <= Ms250))
                 \/ readable /\ Takes(state.table, r.s.table, {key}, file, 1)
<1> DEFINE r == Read(state, key)
           x == Put(state.table, key, file[key], FALSE)
           u == StateOf(x, state.fd, state.nelem, state.off)
           s == [state EXCEPT !.table = Put(@, key, file[key], FALSE)]
           t == IF hash_age_key(state.table, key, now) < 0 \/ hash_age_key(state.table, key, now) > Ms250
                THEN parse_i2c_sensors_sysfs(state, key) ELSE state
<1>0. /\ IsState(state) /\ Ringed = FALSE /\ Rings = 1 /\ Ms250 \in Nat /\ SlotsOf(FALSE) = 1
  <2>1. IsState(state) /\ Ms250 \in Nat
    BY TablesAssumption DEF TablesOK
  <2>2. Ringed = FALSE
    BY DEF Ringed, Counting
  <2> QED
    BY <2>1, <2>2 DEF Rings, SlotsOf
<1>1. s = u
  BY StateIs DEF StateFields, StateOf
<1>2. /\ u = [f \in StateFields |-> u[f]]
      /\ u.table = x /\ u.fd = state.fd /\ u.nelem = state.nelem /\ u.off = state.off
  <2> HIDE DEF x
  <2> QED
    BY FieldsOf
<1>3. r = IF hash_lookup(Sorted(t.table), key) = {} THEN Failed(t) ELSE Kept(t)
  <2>1. r = my_i2c_sensors(state, key)
    BY SMT DEF Read
  <2> QED
    BY <2>1, Zenon DEF my_i2c_sensors
<1>4. t = state \/ (t = u /\ readable)
  <2>1. parse_i2c_sensors_sysfs(state, key) = IF readable THEN s ELSE state
    BY Zenon DEF parse_i2c_sensors_sysfs
  <2> HIDE DEF s, u
  <2> QED
    BY <1>1, <2>1
<1>5. t = state => ~readable \/ t = u \/ (Has(state.table, key) /\ now - Newest(ItemOf(state.table, key)).timestamp <= Ms250)
  <2>1. parse_i2c_sensors_sysfs(state, key) = IF readable THEN s ELSE state
    BY Zenon DEF parse_i2c_sensors_sysfs
  <2>2. hash_age_key(state.table, key, now) =
          IF Has(state.table, key) THEN now - Newest(ItemOf(state.table, key)).timestamp ELSE -1
    BY <1>0, StateShape, NewestFound
  <2> DEFINE g == now - Newest(ItemOf(state.table, key)).timestamp
  <2>3. -1 < 0
    OBVIOUS
  <2> HIDE DEF s, u, g
  <2>4. Has(state.table, key) => g \in Int
    <3>1. Has(state.table, key) => ItemOf(state.table, key) \in Item(1)
      BY <1>0, StateShape, LookupFinds
    <3>2. Has(state.table, key) => Newest(ItemOf(state.table, key)).timestamp \in Nat
      BY <3>1 DEF Item, RawItem, Newest, Slot
    <3> QED
      BY <3>2, StateShape DEF g
  <2>5. hash_age_key(state.table, key, now) = IF Has(state.table, key) THEN g ELSE -1
    BY <2>2 DEF g
  <2>6. ~(hash_age_key(state.table, key, now) < 0 \/ hash_age_key(state.table, key, now) > Ms250)
          => Has(state.table, key) /\ g <= Ms250
    BY <1>0, <2>3, <2>4, <2>5
  <2> QED
    BY <1>1, <2>1, <2>6 DEF g
<1>6. Takes(state.table, x, {key}, file, 1)
  <2>1. file \in [KeySet -> LineValues] /\ state.table \in Table(1) /\ now \in Nat \ {0}
    BY <1>0, StateShape DEF TablesOK, LineValues
  <2>2. Takes(state.table, state.table, {}, file, 1)
    BY <2>1 DEF Takes
  <2>3. Takes(state.table, x, {} \union {key}, file, SlotsOf(FALSE))
    BY <1>0, <2>1, <2>2, PutTakes
  <2> QED
    BY <1>0, <2>3
<1>7. /\ IsState(t) /\ t.fd = state.fd /\ t.off = state.off
      /\ \/ t.table = state.table
            /\ (~readable \/ (Has(state.table, key) /\ now - Newest(ItemOf(state.table, key)).timestamp <= Ms250))
         \/ readable /\ Takes(state.table, t.table, {key}, file, 1)
  <2> HIDE DEF t, u, s, x
  <2>1. CASE t = u /\ readable
    BY <1>0, <1>2, <1>6, <2>1 DEF IsState
  <2>2. CASE ~(t = u /\ readable)
    BY <1>0, <1>4, <1>5, <2>2
  <2> QED
    BY <2>1, <2>2
<1>8. t.table \in Table(1)
  BY <1>0, <1>7, StateShape DEF Takes
<1>9. hash_lookup(Sorted(t.table), key) = {} <=> ~Has(t.table, key)
  <2> HIDE DEF t
  <2> QED
    BY <1>8, NewestFound
<1>10. /\ r.s = t /\ r.read = FALSE /\ r.ok = Has(t.table, key)
  <2> HIDE DEF t, r
  <2>1. CASE Has(t.table, key)
    BY <1>3, <1>9, <2>1 DEF Kept, Has
  <2>2. CASE ~Has(t.table, key)
    BY <1>3, <1>9, <2>2 DEF Failed, Has
  <2> QED
    BY <2>1, <2>2
<1>11. r.ok \in BOOLEAN
  BY <1>10 DEF Has
<1> QED
  BY <1>7, <1>10, <1>11

\* Every evaluation takes the lines of some keys: all, one or none.
LEMMA Evaluation ==
    ASSUME TablesOK, NEW key \in KeySet
    PROVE  LET r == Read(state, key)
           IN /\ IsState(r.s) /\ r.ok \in BOOLEAN /\ r.read \in BOOLEAN
              /\ state.fd = -1 => r.s.fd = -1
              /\ state.off \subseteq r.s.off
              /\ r.read => \A k \in KeySet : Counted(k, r.s) = Counted(k, state)
              /\ \E S \in SUBSET KeySet :
                   /\ Takes(state.table, r.s.table, S, Found(r.s), Rings)
                   /\ r.read => S = KeySet
                   /\ ~r.read /\ plugin # "i2c" => S = {}
<1> DEFINE r == Read(state, key)
<1>1. CASE plugin # "i2c"
  <2>1. Reads(r, key)
    BY <1>1, PluginReads
  <2> HIDE DEF r
  <2>2. Found(r.s) \in [KeySet -> LineValues]
    BY FoundLines
  <2>3. CASE r.read
    <3>1. Takes(state.table, r.s.table, KeySet, Found(r.s), Rings)
      <4>1. r.s.table = PutLines(state.table, Found(r.s), Ringed)
        BY <2>1, <2>3 DEF Reads
      <4> QED
        BY <2>2, <4>1, StateShape, LinesTaken DEF Rings
    <3> QED
      BY <2>1, <2>3, <3>1 DEF r, Reads
  <2>4. CASE ~r.read
    <3>1. r.s.table = state.table
      BY <1>1, <2>1, <2>4 DEF Reads
    <3>2. Takes(state.table, r.s.table, {}, Found(r.s), Rings)
      BY <3>1, StateShape DEF Takes
    <3> QED
      BY <1>1, <2>1, <2>4, <3>2 DEF r, Reads
  <2> QED
    BY <2>3, <2>4
<1>2. CASE plugin = "i2c"
  <2>1. /\ IsState(r.s) /\ r.s.fd = state.fd /\ r.s.off = state.off
        /\ r.ok \in BOOLEAN /\ r.read = FALSE
        /\ r.s.table = state.table \/ Takes(state.table, r.s.table, {key}, file, 1)
    BY <1>2, SensorReads
  <2>2. Found(r.s) = file /\ Rings = 1
    <3>1. Ringed = FALSE
      BY <1>2 DEF Ringed, Counting
    <3> QED
      BY <1>2, <3>1, LinesFound DEF Rings, SlotsOf
  <2> HIDE DEF r
  <2>3. CASE r.s.table = state.table
    <3>1. Takes(state.table, r.s.table, {}, Found(r.s), Rings)
      BY <2>3, StateShape DEF Takes
    <3>2. \E S \in SUBSET KeySet : Takes(state.table, r.s.table, S, Found(r.s), Rings)
      <4>1. {} \in SUBSET KeySet
        OBVIOUS
      <4> QED
        BY <3>1, <4>1
    <3> QED
      BY <1>2, <2>1, <3>2 DEF r
  <2>4. CASE Takes(state.table, r.s.table, {key}, file, 1)
    BY <1>2, <2>1, <2>2, <2>4 DEF r
  <2> QED
    BY <2>1, <2>3, <2>4
<1> QED
  BY <1>1, <1>2

\* The state after an evaluation.
LEMMA EvaluatedState ==
    ASSUME TablesOK, NEW key \in KeySet, Evaluate(key)
    PROVE  LET r == Read(state, key)
           IN /\ IsState(state)' /\ state'.table = Sorted(r.s.table)
              /\ state'.fd = r.s.fd /\ state'.off = r.s.off /\ state'.nelem = r.s.nelem
              /\ UNCHANGED <<plugin, now, file, readable, changed, stepped>>
<1> DEFINE r == Read(state, key)
           new == [r.s EXCEPT !.table = Sorted(@)]
           u == StateOf(Sorted(r.s.table), r.s.fd, r.s.nelem, r.s.off)
<1>1. IsState(r.s)
  BY Evaluation, Zenon
<1>2. state' = new /\ UNCHANGED <<plugin, now, file, readable, changed, stepped>>
  BY Zenon DEF Evaluate
<1>3. new = u
  <2> HIDE DEF r
  <2>1. r.s = [f \in StateFields |-> r.s[f]]
    BY <1>1 DEF IsState
  <2> QED
    BY <2>1 DEF StateFields, StateOf
<1>4. /\ u = [f \in StateFields |-> u[f]]
      /\ u.table = Sorted(r.s.table) /\ u.fd = r.s.fd /\ u.nelem = r.s.nelem /\ u.off = r.s.off
  <2> HIDE DEF r
  <2> QED
    BY FieldsOf
<1>5. state' = u
  BY <1>2, <1>3, Zenon
<1> HIDE DEF r, u, new
<1>6. IsState(state)' <=> /\ state' = [f \in StateFields |-> (state')[f]]
                          /\ (state').fd \in {-2, -1, 3} /\ (state').nelem \in {-1, 3} /\ (state').off \in SUBSET KeySet
                          /\ (state').fd = -1 => plugin' \in GivesUp \union {"ppp"}
  BY DEF IsState
<1> QED
  BY <1>1, <1>2, <1>4, <1>5, <1>6 DEF IsState, r

-----------------------------------------------------------------------------
\* A line that may be told has not changed since a time, and nothing sets it aside.
Settled(k, t) == changed[k] < t /\ file[k] # <<>> /\ k \notin state.off /\ state.fd # -1
NewestOf(tab, k) == Newest(ItemOf(tab, k))
Held(k) == Has(state.table, k) /\ NewestOf(state.table, k).value = file[k]

\* While the clock was never set back: the table, or with the sensors each entry
\* of it, holds the lines that have not changed since it was read.
UpToDate ==
    ~stepped =>
      /\ state.table.timestamp <= now
      /\ \A k \in KeySet : changed[k] <= now
      /\ \A k \in KeySet : Has(state.table, k) => NewestOf(state.table, k).timestamp <= now
      /\ plugin # "i2c" => \A k \in KeySet : Settled(k, state.table.timestamp) => Held(k)
      /\ plugin = "i2c" => \A k \in KeySet :
           Has(state.table, k) /\ Settled(k, NewestOf(state.table, k).timestamp) => Held(k)

\* A ring and the samples it was filled from.
Alike(it, h) ==
    /\ Len(h) \in 1 .. DELTA_SLOTS
    /\ \A i \in 1 .. Len(h) : h[i].value = Back(it, i - 1).value /\ h[i].at = Back(it, i - 1).timestamp
    /\ \A i \in Len(h) .. DELTA_SLOTS - 1 : Back(it, i).timestamp = 0
Remembers ==
    Ringed => \A k \in KeySet :
                /\ Has(state.table, k) <=> samples[k] # <<>>
                /\ Has(state.table, k) => Alike(ItemOf(state.table, k), samples[k])

TablesInv == TablesOK /\ UpToDate /\ Remembers

\* What is new for a key whose line was taken.
LEMMA Taken ==
    ASSUME TablesOK, NEW lines \in [KeySet -> LineValues], NEW S \in SUBSET KeySet, NEW new,
           Takes(state.table, new, S, lines, Rings), NEW k \in S, lines[k] # <<>>
    PROVE  LET it == ItemOf(new, k)
           IN /\ Has(new, k) /\ it \in Item(Rings)
              /\ Newest(it) = [value |-> lines[k], timestamp |-> now]
              /\ Back(it, 0) = [value |-> lines[k], timestamp |-> now]
              /\ \A i \in 1 .. Rings - 1 : Back(it, i) = Back(RingOf(state.table, k, Rings), i - 1)
<1>1. Has(new, k) /\ ItemOf(new, k) = Stored(RingOf(state.table, k, Rings), lines[k], now)
  BY DEF Takes
<1>2. RingOf(state.table, k, Rings) \in RawItem(Rings)
  BY StateShape, RingIsRaw
<1>3. lines[k] \in LineValues \ {<<>>}
  OBVIOUS
<1> QED
  BY <1>1, <1>2, <1>3, StateShape, RingStored

\* The newest slot of an entry.
LEMMA NewestSlot ==
    ASSUME NEW n \in Nat \ {0}, NEW tab \in Table(n), NEW k \in KeySet, Has(tab, k)
    PROVE  /\ NewestOf(tab, k).timestamp \in Nat \ {0}
           /\ NewestOf(tab, k).value \in LineValues \ {<<>>}
<1>1. ItemOf(tab, k) \in Item(n)
  BY LookupFinds
<1> QED
  BY <1>1 DEF NewestOf, Newest, Item, RawItem, Slot

\* A sample more, of which the newest are kept.
WithNewest(x, h) == LET all == <<x>> \o h IN SubSeq(all, 1, Min({Len(all), DELTA_SLOTS}))
\* The newest sample comes first.
LEMMA Sampling ==
    ASSUME NEW x \in Sample, NEW h \in Seq(Sample)
    PROVE  LET new == WithNewest(x, h)
           IN /\ new \in Seq(Sample)
              /\ Len(new) = IF Len(h) + 1 <= DELTA_SLOTS THEN Len(h) + 1 ELSE DELTA_SLOTS
              /\ new[1] = x
              /\ \A i \in 2 .. Len(new) : new[i] = h[i - 1]
<1> DEFINE one == <<x>>
           all == one \o h
           m == Min({Len(all), DELTA_SLOTS})
           new == WithNewest(x, h)
<1>0. new = SubSeq(all, 1, m)
  BY Zenon DEF WithNewest
<1> HIDE DEF new
<1>a. DELTA_SLOTS \in Nat \ {0}
  BY TablesAssumption
<1>1. one \in Seq(Sample) /\ Len(one) = 1 /\ one[1] = x
  OBVIOUS
<1>2. /\ all \in Seq(Sample) /\ Len(all) = Len(h) + 1 /\ Len(h) \in Nat
      /\ \A i \in 1 .. Len(all) : all[i] = IF i = 1 THEN x ELSE h[i - 1]
  <2> HIDE DEF one
  <2>1. /\ all \in Seq(Sample) /\ Len(all) = Len(one) + Len(h)
        /\ \A i \in 1 .. Len(one) + Len(h) : all[i] = IF i <= Len(one) THEN one[i] ELSE h[i - Len(one)]
    BY <1>1, ConcatProperties, Zenon
  <2>2. Len(h) \in Nat
    OBVIOUS
  <2> HIDE DEF all
  <2> QED
    BY <1>1, <2>1, <2>2
<1> HIDE DEF all
<1>3. {Len(all), DELTA_SLOTS} \in SUBSET Nat /\ {Len(all), DELTA_SLOTS} # {}
  BY <1>2, <1>a
<1>4. Min({Len(all), DELTA_SLOTS}) \in {Len(all), DELTA_SLOTS} /\ \A y \in {Len(all), DELTA_SLOTS} : Min({Len(all), DELTA_SLOTS}) <= y
  BY <1>3, MinProperty, Zenon
<1>5. m \in 1 .. Len(all) /\ m = IF Len(h) + 1 <= DELTA_SLOTS THEN Len(h) + 1 ELSE DELTA_SLOTS
  BY <1>2, <1>4, <1>a
<1> HIDE DEF m
<1>6. new \in Seq(Sample) /\ Len(new) = m /\ \A i \in 1 .. m : new[i] = all[i]
  BY <1>0, <1>2, <1>5
<1> QED
  BY <1>2, <1>5, <1>6 DEF new

\* An evaluation leaves a state of the plugin, and samples of lines.
LEMMA EvaluateTyped ==
    ASSUME TablesOK, NEW key \in KeySet, Evaluate(key)
    PROVE  TablesOK'
<1> DEFINE r == Read(state, key)
<1>1. /\ IsState(state)' /\ state'.table = Sorted(r.s.table)
      /\ UNCHANGED <<plugin, now, file, readable, changed, stepped>>
  BY EvaluatedState, Zenon
<1>2. r.s.table \in Table(Rings)
  BY Evaluation DEF Takes
<1>3. Sorted(r.s.table) \in Table(Rings)
  <2> HIDE DEF r
  <2> QED
    BY <1>2, StateShape, SortingKeeps
<1>4. Rings' = Rings /\ Ringed' = Ringed
  BY <1>1 DEF Rings, Ringed, SlotsOf, Counting
<1>5. (state.table \in Table(Rings))'
  <2>1. (state').table \in Table(Rings)
    BY <1>1, <1>3, Zenon
  <2> QED
    BY <1>4, <2>1
<1>6. samples' \in [KeySet -> Seq(Sample)]
  <2>1. samples \in [KeySet -> Seq(Sample)]
    BY DEF TablesOK
  <2>2. ASSUME NEW k \in KeySet PROVE Sampled(k, r) \in Seq(Sample)
    <3> DEFINE v == Counted(k, r.s)
    <3>1. v \in LineValues
      BY FoundLines
    <3>2. CASE v = <<>> \/ ~r.read
      BY <2>1, <3>2 DEF Sampled
    <3>3. CASE v # <<>> /\ r.read
      <4>1. [value |-> v, at |-> now] \in Sample
        <5> HIDE DEF v
        <5> QED
          BY <3>1, <3>3, StateShape DEF Sample
      <4>2. DELTA_SLOTS \in Nat \ {0} /\ samples[k] \in Seq(Sample)
        BY <2>1, TablesAssumption
      <4>3. Sampled(k, r) = WithNewest([value |-> v, at |-> now], samples[k])
        BY <3>3, Zenon DEF Sampled, WithNewest
      <4> HIDE DEF v, r
      <4> QED
        BY <4>1, <4>2, <4>3, Sampling
    <3> QED
      BY <3>2, <3>3
  <2>3. samples' = [k \in KeySet |-> Sampled(k, r)] \/ samples' = samples
    BY Zenon DEF Evaluate
  <2> HIDE DEF r
  <2> QED
    BY <2>1, <2>2, <2>3
<1> QED
  BY <1>1, <1>5, <1>6 DEF TablesOK

\* A table is up to date after an evaluation.
\* A line that may be told after a step.
Later(k, t) == changed'[k] < t /\ file'[k] # <<>> /\ k \notin (state').off /\ (state').fd # -1

\* What a step has to show for the table to stay up to date.
LEMMA NextUpToDate ==
    ASSUME ~stepped' =>
             /\ (state').table.timestamp <= now'
             /\ \A k \in KeySet : changed'[k] <= now'
             /\ \A k \in KeySet : Has((state').table, k) => NewestOf((state').table, k).timestamp <= now'
             /\ plugin' # "i2c" => \A k \in KeySet : Later(k, (state').table.timestamp) => Held(k)'
             /\ plugin' = "i2c" => \A k \in KeySet :
                  Has((state').table, k) /\ Later(k, NewestOf((state').table, k).timestamp) => Held(k)'
    PROVE  UpToDate'
<1>1. \A k : /\ Has(state.table, k)' <=> Has((state').table, k)
             /\ NewestOf(state.table, k)' = NewestOf((state').table, k)
  BY DEF Has, NewestOf, ItemOf, Place, Newest
<1>2. \A k : /\ Settled(k, state.table.timestamp)' <=> Later(k, (state').table.timestamp)
             /\ Settled(k, NewestOf(state.table, k).timestamp)' <=> Later(k, NewestOf((state').table, k).timestamp)
  BY <1>1 DEF Settled, Later
<1> QED
  BY <1>1, <1>2 DEF UpToDate

\* An evaluation, whether it reads or not, leaves no line older than it was.
LEMMA EvaluateUpToDate ==
    ASSUME TablesInv, NEW key \in KeySet, Evaluate(key)
    PROVE  UpToDate'
<1> DEFINE r == Read(state, key)
           new == r.s.table
<1>0. TablesOK /\ UpToDate
  BY DEF TablesInv
<1>1. /\ state'.table = Sorted(new) /\ state'.fd = r.s.fd /\ state'.off = r.s.off
      /\ UNCHANGED <<plugin, now, file, readable, changed, stepped>>
  BY <1>0, EvaluatedState, Zenon
<1>2. PICK S \in SUBSET KeySet :
        /\ Takes(state.table, new, S, Found(r.s), Rings)
        /\ r.read => S = KeySet
        /\ ~r.read /\ plugin # "i2c" => S = {}
  BY <1>0, Evaluation, Zenon
<1>3. /\ state.fd = -1 => r.s.fd = -1
      /\ state.off \subseteq r.s.off /\ r.read \in BOOLEAN
  BY <1>0, Evaluation, Zenon
<1>4. Found(r.s) \in [KeySet -> LineValues] /\ \A k \in KeySet : Found(r.s)[k] = Counted(k, r.s)
  BY <1>0, FoundLines
<1>5. new \in Table(Rings) /\ Rings \in Nat \ {0} /\ now \in Nat \ {0} /\ state.table.timestamp \in Nat
  BY <1>0, <1>2, StateShape DEF Takes
<1> HIDE DEF r, new
<1>6. /\ (state').table.timestamp = new.timestamp
      /\ \A k : (Has((state').table, k) <=> Has(new, k)) /\ NewestOf((state').table, k) = NewestOf(new, k)
  BY <1>1, <1>5, SortingKeeps DEF NewestOf
<1>7. \A k \in S : Found(r.s)[k] # <<>> =>
        Has(new, k) /\ NewestOf(new, k) = [value |-> Found(r.s)[k], timestamp |-> now]
  BY <1>0, <1>2, <1>4, Taken DEF NewestOf
<1>8. \A k \in KeySet : k \notin S \/ Found(r.s)[k] = <<>> =>
        /\ Has(new, k) <=> Has(state.table, k)
        /\ Has(state.table, k) => NewestOf(new, k) = NewestOf(state.table, k)
  BY <1>2 DEF Takes, NewestOf
<1>9. SUFFICES ASSUME ~stepped PROVE UpToDate'
  BY <1>1 DEF UpToDate
<1>10. /\ state.table.timestamp <= now
       /\ \A k \in KeySet : changed[k] <= now
       /\ \A k \in KeySet : Has(state.table, k) => NewestOf(state.table, k).timestamp <= now
       /\ plugin # "i2c" => \A k \in KeySet : Settled(k, state.table.timestamp) => Held(k)
       /\ plugin = "i2c" => \A k \in KeySet :
            Has(state.table, k) /\ Settled(k, NewestOf(state.table, k).timestamp) => Held(k)
  BY <1>0, <1>9 DEF UpToDate
<1>11. ASSUME NEW k \in KeySet, NEW t, Later(k, t)
       PROVE  Settled(k, t) /\ Found(r.s)[k] = file[k] /\ file[k] # <<>>
  <2>1. /\ changed[k] < t /\ file[k] # <<>> /\ k \notin r.s.off /\ r.s.fd # -1
    BY <1>1, <1>11 DEF Later
  <2>2. Counted(k, r.s) = file[k]
    BY <2>1 DEF Counted
  <2> QED
    BY <1>3, <1>4, <2>1, <2>2 DEF Settled
<1>12. new.timestamp = IF \E k \in S : Found(r.s)[k] # <<>> THEN now ELSE state.table.timestamp
  BY <1>2 DEF Takes
<1>13. ASSUME NEW k \in KeySet
       PROVE  Held(k)' <=> Has(new, k) /\ NewestOf(new, k).value = file[k]
  BY <1>1, <1>6 DEF Held
<1>14. ASSUME NEW k \in KeySet, Has(new, k)
       PROVE  NewestOf(new, k).timestamp <= now
  BY <1>5, <1>7, <1>8, <1>10, <1>14
<1>15. ASSUME NEW k \in KeySet, plugin # "i2c", Later(k, new.timestamp)
       PROVE  Held(k)'
  <2>1. Settled(k, new.timestamp) /\ Found(r.s)[k] = file[k] /\ file[k] # <<>>
    BY <1>11, <1>15
  <2>2. CASE k \in S
    BY <1>7, <1>13, <2>1, <2>2
  <2>3. CASE k \notin S
    <3>1. S = {}
      BY <1>2, <1>3, <1>15, <2>3
    <3>2. new.timestamp = state.table.timestamp
      BY <1>12, <3>1
    <3>3. Held(k)
      BY <1>10, <1>15, <2>1, <3>2
    <3> QED
      BY <1>8, <1>13, <2>3, <3>3 DEF Held
  <2> QED
    BY <2>2, <2>3
<1>16. ASSUME NEW k \in KeySet, plugin = "i2c", Has(new, k), Later(k, NewestOf(new, k).timestamp)
       PROVE  Held(k)'
  <2>1. Settled(k, NewestOf(new, k).timestamp) /\ Found(r.s)[k] = file[k] /\ file[k] # <<>>
    BY <1>11, <1>16
  <2>2. CASE k \in S
    BY <1>7, <1>13, <2>1, <2>2
  <2>3. CASE k \notin S
    BY <1>8, <1>10, <1>13, <1>16, <2>1, <2>3 DEF Held
  <2> QED
    BY <2>2, <2>3
<1>17. new.timestamp <= now
  BY <1>5, <1>10, <1>12
<1>18. ASSUME NEW k \in KeySet, plugin # "i2c", Later(k, (state').table.timestamp)
       PROVE  Held(k)'
  BY <1>6, <1>15, <1>18
<1>19. ASSUME NEW k \in KeySet, plugin = "i2c", Has((state').table, k),
              Later(k, NewestOf((state').table, k).timestamp)
       PROVE  Held(k)'
  BY <1>6, <1>16, <1>19
<1> QED
  BY <1>1, <1>6, <1>10, <1>14, <1>17, <1>18, <1>19, NextUpToDate

\* The ring of a key without an item is empty.
LEMMA NothingStored ==
    ASSUME NEW k, NEW n \in Nat \ {0}, NEW i \in 0 .. n - 1
    PROVE  Back(NewItem(k, n), i).timestamp = 0
<1>1. 0 \in 0 .. n - 1
  OBVIOUS
<1>2. (0 + i) % n = IF 0 + i < n THEN 0 + i ELSE 0 + i - n
  BY <1>1, AroundRing, Zenon
<1>3. (0 + i) % n = i
  BY <1>2
<1>4. NewItem(k, n).index = 0 /\ NewItem(k, n).nSlot = n
      /\ NewItem(k, n).slot = [j \in 0 .. n - 1 |-> EmptySlot]
  BY DEF NewItem
<1> QED
  BY <1>3, <1>4 DEF Back, EmptySlot

\* A sample and a slot more.
LEMMA AlikeStored ==
    ASSUME NEW T, NEW x \in T, NEW h \in Seq(T), NEW old, NEW it, DELTA_SLOTS \in Nat \ {0},
           h # <<>> => Alike(old, h),
           h = <<>> => \A i \in 0 .. DELTA_SLOTS - 1 : Back(old, i).timestamp = 0,
           Back(it, 0).value = x.value, Back(it, 0).timestamp = x.at,
           \A i \in 1 .. DELTA_SLOTS - 1 : Back(it, i) = Back(old, i - 1),
           NEW new \in Seq(T), new[1] = x,
           Len(new) = IF Len(h) + 1 <= DELTA_SLOTS THEN Len(h) + 1 ELSE DELTA_SLOTS,
           \A i \in 2 .. Len(new) : new[i] = h[i - 1]
    PROVE  Alike(it, new)
<1> DEFINE n == DELTA_SLOTS
           l == Len(h)
           m == Len(new)
<1>1. /\ n \in Nat /\ l \in Nat /\ m \in Nat /\ l \in 0 .. n /\ m \in 1 .. n
      /\ m = IF l + 1 <= n THEN l + 1 ELSE n
  <2>1. h = <<>> => l = 0
    OBVIOUS
  <2>2. h # <<>> => l \in 1 .. n
    BY DEF Alike
  <2> QED
    BY <2>1, <2>2
<1>2. \A i \in l .. n - 1 : Back(old, i).timestamp = 0
  BY <1>1 DEF Alike
<1>3. \A i \in 1 .. l : h[i].value = Back(old, i - 1).value /\ h[i].at = Back(old, i - 1).timestamp
  <2>1. CASE h = <<>>
    BY <2>1
  <2>2. CASE h # <<>>
    BY <2>2 DEF Alike
  <2> QED
    BY <2>1, <2>2
<1> HIDE DEF l, m, n
<1>4. ASSUME NEW i \in 1 .. m
      PROVE  new[i].value = Back(it, i - 1).value /\ new[i].at = Back(it, i - 1).timestamp
  <2>1. CASE i = 1
    <3>1. i - 1 = 0
      BY <2>1
    <3> QED
      BY <2>1, <3>1
  <2>2. CASE i # 1
    <3>a. m <= l + 1 /\ m <= n /\ m \in Nat /\ l \in Nat /\ n \in Nat
      BY <1>1
    <3>b. i \in Nat /\ 2 <= i /\ i <= m
      BY <2>2, <3>a
    <3>1. i \in 2 .. m /\ i - 1 \in 1 .. l /\ i - 1 \in 1 .. n - 1
      BY <3>a, <3>b
    <3>2. new[i] = h[i - 1]
      BY <3>1 DEF m
    <3>3. Back(it, i - 1) = Back(old, (i - 1) - 1)
      BY <3>1 DEF n
    <3> QED
      BY <1>3, <3>1, <3>2, <3>3
  <2> QED
    BY <2>1, <2>2
<1>5. ASSUME NEW i \in m .. n - 1 PROVE Back(it, i).timestamp = 0
  <2>1. i \in 1 .. n - 1 /\ i - 1 \in l .. n - 1
    BY <1>1
  <2>2. Back(it, i) = Back(old, i - 1)
    BY <2>1 DEF n
  <2> QED
    BY <1>2, <2>1, <2>2
<1> QED
  BY <1>1, <1>4, <1>5 DEF Alike, m, n

\* The rings and the samples take the same lines.
LEMMA EvaluateRemembers ==
    ASSUME TablesInv, NEW key \in KeySet, Evaluate(key)
    PROVE  Remembers'
<1> DEFINE r == Read(state, key)
           new == r.s.table
           found == Found(r.s)
<1>0. TablesOK /\ Remembers
  BY DEF TablesInv
<1>1. state'.table = Sorted(new) /\ UNCHANGED plugin
  BY <1>0, EvaluatedState, Zenon
<1>2. PICK S \in SUBSET KeySet :
        /\ Takes(state.table, new, S, found, Rings)
        /\ r.read => S = KeySet
        /\ ~r.read /\ plugin # "i2c" => S = {}
  BY <1>0, Evaluation, Zenon
<1>3. r.read \in BOOLEAN
  BY <1>0, Evaluation, Zenon
<1>4. found \in [KeySet -> LineValues] /\ \A k \in KeySet : found[k] = Counted(k, r.s)
  BY <1>0, FoundLines
<1>5. new \in Table(Rings) /\ Rings \in Nat \ {0} /\ now \in Nat \ {0}
  BY <1>0, <1>2, StateShape DEF Takes
<1>6. samples \in [KeySet -> Seq(Sample)] /\ DELTA_SLOTS \in Nat \ {0}
  BY <1>0, TablesAssumption DEF TablesOK
<1>7. plugin \in Counting \union {"proc_stat"} => samples' = [k \in KeySet |-> Sampled(k, r)]
  BY Zenon DEF Evaluate
<1> HIDE DEF r, new, found
<1>8. \A k : (Has(state.table, k)' <=> Has(new, k)) /\ ItemOf(state.table, k)' = ItemOf(new, k)
  <2>1. \A k : ItemOf(state.table, k)' = ItemOf((state').table, k) /\ (Has(state.table, k)' <=> Has((state').table, k))
    BY DEF ItemOf, Place, Has
  <2> QED
    BY <1>1, <1>5, <2>1, SortingKeeps
<1>9. SUFFICES ASSUME Ringed, NEW k \in KeySet
               PROVE  /\ Has(new, k) <=> samples'[k] # <<>>
                      /\ Has(new, k) => Alike(ItemOf(new, k), samples'[k])
  <2>1. Ringed' <=> Ringed
    BY <1>1 DEF Ringed, Counting
  <2> QED
    BY <1>8, <2>1 DEF Remembers
<1>10. Rings = DELTA_SLOTS /\ plugin # "i2c" /\ samples'[k] = Sampled(k, r)
  BY <1>7, <1>9 DEF Rings, SlotsOf, Ringed, Counting
<1>11. /\ Has(state.table, k) <=> samples[k] # <<>>
       /\ Has(state.table, k) => Alike(ItemOf(state.table, k), samples[k])
  BY <1>0, <1>9 DEF Remembers
<1>12. CASE r.read /\ found[k] # <<>>
  <2> DEFINE x == [value |-> found[k], at |-> now]
             h == samples[k]
             old == RingOf(state.table, k, Rings)
             it == ItemOf(new, k)
  <2>1. /\ Has(new, k)
        /\ Back(it, 0) = [value |-> found[k], timestamp |-> now]
        /\ \A i \in 1 .. DELTA_SLOTS - 1 : Back(it, i) = Back(old, i - 1)
    <3>1. k \in S
      BY <1>2, <1>12
    <3> QED
      BY <1>0, <1>2, <1>4, <1>10, <1>12, <3>1, Taken
  <2>2. samples'[k] = WithNewest(x, h)
    BY <1>4, <1>10, <1>12, Zenon DEF Sampled, WithNewest
  <2>3. x \in Sample /\ h \in Seq(Sample)
    BY <1>4, <1>5, <1>6, <1>12 DEF Sample
  <2>4. h # <<>> => Alike(old, h)
    BY <1>11 DEF RingOf
  <2>5. h = <<>> => \A i \in 0 .. DELTA_SLOTS - 1 : Back(old, i).timestamp = 0
    BY <1>6, <1>10, <1>11, NothingStored DEF RingOf
  <2>6. Back(it, 0).value = x.value /\ Back(it, 0).timestamp = x.at
    BY <2>1
  <2>7. /\ samples'[k] \in Seq(Sample) /\ samples'[k][1] = x
        /\ Len(samples'[k]) = IF Len(h) + 1 <= DELTA_SLOTS THEN Len(h) + 1 ELSE DELTA_SLOTS
        /\ \A i \in 2 .. Len(samples'[k]) : samples'[k][i] = h[i - 1]
    <3> HIDE DEF x, h
    <3> QED
      BY <2>2, <2>3, Sampling
  <2> HIDE DEF x, h, old, it
  <2>8. Alike(it, samples'[k])
    BY <1>6, <2>1, <2>3, <2>4, <2>5, <2>6, <2>7, AlikeStored
  <2>9. samples'[k] # <<>>
    BY <2>8, <1>6 DEF Alike
  <2> QED
    BY <2>1, <2>8, <2>9 DEF it
<1>13. CASE ~(r.read /\ found[k] # <<>>)
  <2>1. samples'[k] = samples[k]
    BY <1>4, <1>10, <1>13 DEF Sampled
  <2>2. k \notin S \/ found[k] = <<>>
    BY <1>2, <1>10, <1>13
  <2>3. /\ Has(new, k) <=> Has(state.table, k)
        /\ Has(state.table, k) => ItemOf(new, k) = ItemOf(state.table, k)
    BY <1>2, <2>2 DEF Takes
  <2> QED
    BY <1>11, <2>1, <2>3
<1> QED
  BY <1>12, <1>13
-----------------------------------------------------------------------------
\* An empty table holds nothing.
LEMMA TablesStart == ASSUME Init PROVE TablesInv
<1>0. /\ Ms1000 \in Nat /\ MaxNow \in Nat /\ MaxNow > Ms1000 + 1 /\ MaxValue \in Nat
      /\ Plugins \subseteq TablePlugins
  BY TablesAssumption
<1>1. /\ plugin \in Plugins /\ now = Ms1000 + 1 /\ file = [k \in KeySet |-> <<0, MaxValue>>]
      /\ readable \in BOOLEAN /\ stepped = FALSE
      /\ changed = [k \in KeySet |-> 0] /\ samples = [k \in KeySet |-> <<>>]
  BY DEF Init
<1>2. state = [table |-> hash_create, fd |-> -2, nelem |-> -1, off |-> {}]
  BY DEF Init
<1> DEFINE u == StateOf(hash_create, -2, -1, {})
<1>3. state = u
  BY <1>2 DEF StateFields, StateOf
<1>4. u = [f \in StateFields |-> u[f]] /\ u.table = hash_create /\ u.fd = -2 /\ u.nelem = -1 /\ u.off = {}
  BY FieldsOf
<1> HIDE DEF u
<1>5. IsState(state)
  BY <1>3, <1>4 DEF IsState
<1>6. Rings \in Nat \ {0}
  <2>1. Ringed \in BOOLEAN
    BY DEF Ringed
  <2> QED
    BY <2>1, SlotsOfType DEF Rings
<1>7. /\ hash_create \in Table(Rings) /\ hash_create.timestamp = 0
      /\ \A k : ~Has(hash_create, k)
  <2>1. hash_create.items = <<>> /\ DOMAIN hash_create.items = {}
    BY DEF hash_create
  <2>2. hash_create \in [items : Seq(Item(Rings)), sorted : BOOLEAN, timestamp : Nat]
    BY DEF hash_create
  <2> QED
    BY <2>1, <2>2 DEF Table, Has, hash_create
<1>8. TablesOK
  <2>1. file \in [KeySet -> Lines]
    <3>1. <<0, MaxValue>> \in Lines
      BY <1>0 DEF Lines
    <3> QED
      BY <1>1, <3>1
  <2>2. samples \in [KeySet -> Seq(Sample)] /\ changed \in [KeySet -> Nat] /\ now \in 1 .. MaxNow
    BY <1>0, <1>1
  <2>3. state.table \in Table(Rings)
    BY <1>3, <1>4, <1>7
  <2> QED
    BY <1>0, <1>1, <1>5, <2>1, <2>2, <2>3 DEF TablesOK
<1>9. UpToDate
  <2>1. \A k \in KeySet : ~Settled(k, 0)
    BY <1>1 DEF Settled
  <2>2. state.table.timestamp = 0 /\ \A k : ~Has(state.table, k)
    BY <1>3, <1>4, <1>7
  <2> QED
    BY <1>0, <1>1, <2>1, <2>2 DEF UpToDate
<1>10. Remembers
  BY <1>1, <1>3, <1>4, <1>7 DEF Remembers
<1> QED
  BY <1>8, <1>9, <1>10 DEF TablesInv

\* The other steps leave the table and the samples.
LEMMA TableStays ==
    ASSUME TablesOK, UNCHANGED <<plugin, state, samples>>
    PROVE  /\ IsState(state)' /\ (state.table \in Table(Rings))'
           /\ Remembers => Remembers'
           /\ \A k : /\ Has(state.table, k)' <=> Has(state.table, k)
                     /\ NewestOf(state.table, k)' = NewestOf(state.table, k)
<1>1. Ringed' = Ringed /\ Rings' = Rings
  BY DEF Rings, Ringed, SlotsOf, Counting
<1>2. IsState(state)'
  BY DEF IsState, TablesOK
<1>3. (state.table \in Table(Rings))'
  <2>1. (state').table \in Table(Rings)
    BY DEF TablesOK
  <2> QED
    BY <1>1, <2>1
<1>4. \A k : /\ Has(state.table, k)' <=> Has(state.table, k)
             /\ NewestOf(state.table, k)' = NewestOf(state.table, k)
             /\ ItemOf(state.table, k)' = ItemOf(state.table, k)
  BY DEF Has, NewestOf, ItemOf, Place, Newest
<1>5. Remembers => Remembers'
  BY <1>1, <1>4 DEF Remembers
<1> QED
  BY <1>2, <1>3, <1>4, <1>5

\* A change of a line makes it younger than the table.
LEMMA ChangeKeeps ==
    ASSUME TablesInv, NEW key \in KeySet, Change(key)
    PROVE  TablesInv'
<1>0. TablesOK /\ UpToDate /\ Remembers /\ MaxValue \in Nat
  BY TablesAssumption DEF TablesInv
<1>1. /\ UNCHANGED <<plugin, now, readable, state, samples, stepped>>
      /\ \A k \in KeySet : changed[k] < now
      /\ changed' = [changed EXCEPT ![key] = now]
      /\ file' = [file EXCEPT ![key] =
                    IF file[key] = <<>> THEN <<0, MaxValue>>
                    ELSE IF file[key][1] = MaxValue THEN <<>> ELSE <<file[key][1] + 1, file[key][2] - 1>>]
  BY DEF Change
<1>2. /\ IsState(state)' /\ (state.table \in Table(Rings))' /\ Remembers'
      /\ \A k : /\ Has(state.table, k)' <=> Has(state.table, k)
                /\ NewestOf(state.table, k)' = NewestOf(state.table, k)
  BY <1>0, <1>1, TableStays
<1>3. /\ now \in Nat /\ changed \in [KeySet -> Nat] /\ file \in [KeySet -> Lines]
  BY <1>0, StateShape DEF TablesOK
<1>4. file' \in [KeySet -> Lines] /\ \A k \in KeySet \ {key} : file'[k] = file[k]
  <2> DEFINE line == IF file[key] = <<>> THEN <<0, MaxValue>>
                     ELSE IF file[key][1] = MaxValue THEN <<>> ELSE <<file[key][1] + 1, file[key][2] - 1>>
  <2>1. line \in Lines
    <3>1. CASE file[key] = <<>>
      BY <1>0, <3>1 DEF Lines
    <3>2. CASE file[key] # <<>>
      <4>1. PICK v \in 0 .. MaxValue : file[key] = <<v, MaxValue - v>>
        BY <1>3, <3>2 DEF Lines
      <4>2. file[key][1] = v /\ file[key][2] = MaxValue - v
        BY <4>1
      <4>3. CASE v = MaxValue
        BY <3>2, <4>2, <4>3 DEF Lines
      <4>4. CASE v # MaxValue
        <5>1. v + 1 \in 0 .. MaxValue /\ (MaxValue - v) - 1 = MaxValue - (v + 1)
          BY <1>0, <4>4
        <5>2. line = <<v + 1, MaxValue - (v + 1)>>
          BY <3>2, <4>2, <4>4, <5>1
        <5> HIDE DEF line
        <5> QED
          BY <5>1, <5>2 DEF Lines
      <4> QED
        BY <4>3, <4>4
    <3> QED
      BY <3>1, <3>2
  <2>2. file' = [file EXCEPT ![key] = line]
    BY <1>1
  <2> HIDE DEF line
  <2> QED
    BY <1>3, <2>1, <2>2
<1>5. changed' \in [KeySet -> Nat] /\ changed'[key] = now /\ \A k \in KeySet \ {key} : changed'[k] = changed[k]
  BY <1>1, <1>3
<1>6. TablesOK'
  BY <1>0, <1>1, <1>2, <1>4, <1>5 DEF TablesOK
<1>7. UpToDate'
  <2> SUFFICES ASSUME ~stepped PROVE UpToDate'
    BY <1>1 DEF UpToDate
  <2>1. /\ state.table.timestamp <= now
        /\ \A k \in KeySet : Has(state.table, k) => NewestOf(state.table, k).timestamp <= now
        /\ plugin # "i2c" => \A k \in KeySet : Settled(k, state.table.timestamp) => Held(k)
        /\ plugin = "i2c" => \A k \in KeySet :
             Has(state.table, k) /\ Settled(k, NewestOf(state.table, k).timestamp) => Held(k)
    BY <1>0 DEF UpToDate
  <2>2. \A k \in KeySet : changed'[k] <= now
    BY <1>1, <1>3, <1>5
  <2>3. ASSUME NEW k \in KeySet, NEW t \in Nat, t <= now, Later(k, t)
        PROVE  Settled(k, t) /\ (Held(k) => Held(k)')
    <3>1. k # key
      BY <1>3, <1>5, <2>3 DEF Later
    <3>2. changed'[k] = changed[k] /\ file'[k] = file[k] /\ state' = state
      BY <1>1, <1>4, <1>5, <3>1
    <3> QED
      BY <1>2, <2>3, <3>2 DEF Settled, Later, Held
  <2>4. \A k \in KeySet : Has(state.table, k) => NewestOf(state.table, k).timestamp \in Nat
    BY <1>0, StateShape, NewestSlot
  <2>5. state.table.timestamp \in Nat
    BY <1>0, StateShape
  <2>6. (state').table.timestamp <= now' /\ state' = state /\ plugin' = plugin /\ now' = now
    BY <1>1, <2>1
  <2>7. ASSUME NEW k \in KeySet, plugin # "i2c", Later(k, (state').table.timestamp)
        PROVE  Held(k)'
    BY <2>1, <2>3, <2>5, <2>6, <2>7
  <2>8. ASSUME NEW k \in KeySet, plugin = "i2c", Has((state').table, k), Later(k, NewestOf((state').table, k).timestamp)
        PROVE  Held(k)'
    <3>1. Has(state.table, k) /\ Later(k, NewestOf(state.table, k).timestamp)
      BY <2>6, <2>8
    <3> QED
      BY <2>1, <2>3, <2>4, <2>8, <3>1
  <2> QED
    BY <2>1, <2>2, <2>6, <2>7, <2>8, NextUpToDate
<1> QED
  BY <1>2, <1>6, <1>7 DEF TablesInv

\* The clock stays within its bound.
LEMMA HorizonIs == Horizon \in Nat /\ Horizon <= MaxNow /\ Horizon >= 3
<1>1. MaxNow \in Nat /\ MaxNow >= 4
  BY TablesAssumption
<1> QED
  BY <1>1 DEF Horizon

\* Time makes no line change.
LEMMA TickKeeps == ASSUME TablesInv, Tick PROVE TablesInv'
<1>0. TablesOK /\ UpToDate /\ Remembers
  BY DEF TablesInv
<1>1. /\ UNCHANGED <<plugin, file, state, changed, samples, stepped>>
      /\ now' = now + 1 /\ now < Horizon /\ readable' \in BOOLEAN
  BY DEF Tick
<1>2. /\ IsState(state)' /\ (state.table \in Table(Rings))' /\ Remembers'
      /\ \A k : /\ Has(state.table, k)' <=> Has(state.table, k)
                /\ NewestOf(state.table, k)' = NewestOf(state.table, k)
  BY <1>0, <1>1, TableStays
<1>3. now \in Nat /\ now' \in 1 .. MaxNow
  <2>1. now \in Nat \ {0} /\ MaxNow \in Nat
    BY <1>0, StateShape, TablesAssumption
  <2> QED
    BY <1>1, <2>1, HorizonIs
<1>4. TablesOK'
  BY <1>0, <1>1, <1>2, <1>3 DEF TablesOK
<1>5. UpToDate'
  <2>1. state.table.timestamp \in Nat /\ changed \in [KeySet -> Nat]
    BY <1>0, StateShape DEF TablesOK
  <2>2. \A k \in KeySet : Has(state.table, k) => NewestOf(state.table, k).timestamp \in Nat
    BY <1>0, StateShape, NewestSlot
  <2>3. \A k, t : Later(k, t) <=> Settled(k, t)
    BY <1>1 DEF Later, Settled
  <2>4. \A k \in KeySet : Held(k)' <=> Held(k)
    BY <1>1, <1>2 DEF Held
  <2>5. state' = state /\ plugin' = plugin /\ stepped' = stepped /\ changed' = changed
    BY <1>1
  <2>6. \A n \in Nat : n <= now => n <= now'
    BY <1>1, <1>3
  <2> QED
    BY <1>0, <2>1, <2>2, <2>3, <2>4, <2>5, <2>6, NextUpToDate DEF UpToDate
<1> QED
  BY <1>2, <1>4, <1>5 DEF TablesInv

\* After the clock was set back nothing is told of the age of lines.
LEMMA SetBackKeeps == ASSUME TablesInv, SetBack PROVE TablesInv'
<1>0. TablesOK /\ Remembers
  BY DEF TablesInv
<1>1. /\ UNCHANGED <<plugin, file, readable, state, changed, samples>>
      /\ now' = now - 2 /\ now = Horizon /\ stepped' = TRUE
  BY DEF SetBack
<1>2. /\ IsState(state)' /\ (state.table \in Table(Rings))' /\ Remembers'
  BY <1>0, <1>1, TableStays
<1>3. now' \in 1 .. MaxNow
  <2>1. MaxNow \in Nat
    BY TablesAssumption
  <2> QED
    BY <1>1, <2>1, HorizonIs
<1>4. TablesOK'
  BY <1>0, <1>1, <1>2, <1>3 DEF TablesOK
<1>5. UpToDate'
  BY <1>1 DEF UpToDate
<1> QED
  BY <1>2, <1>4, <1>5 DEF TablesInv

\* Steps that leave the variables, but for what the source can do and the answer.
LEMMA TablesStutter ==
    ASSUME TablesInv, UNCHANGED <<plugin, now, file, state, changed, samples, stepped>>,
           readable' \in BOOLEAN
    PROVE  TablesInv'
<1>0. TablesOK /\ UpToDate /\ Remembers
  BY DEF TablesInv
<1>1. UNCHANGED <<plugin, now, file, state, changed, samples, stepped>>
  OBVIOUS
<1>2. /\ IsState(state)' /\ (state.table \in Table(Rings))' /\ Remembers'
      /\ \A k : /\ Has(state.table, k)' <=> Has(state.table, k)
                /\ NewestOf(state.table, k)' = NewestOf(state.table, k)
  BY <1>0, <1>1, TableStays
<1>4. TablesOK'
  BY <1>0, <1>1, <1>2 DEF TablesOK
<1>5. UpToDate'
  <2>1. \A k, t : Later(k, t) <=> Settled(k, t)
    BY <1>1 DEF Later, Settled
  <2>2. \A k \in KeySet : Held(k)' <=> Held(k)
    BY <1>1, <1>2 DEF Held
  <2>3. state' = state /\ plugin' = plugin /\ stepped' = stepped /\ changed' = changed /\ now' = now
    BY <1>1
  <2> QED
    BY <1>0, <2>1, <2>2, <2>3, NextUpToDate DEF UpToDate
<1> QED
  BY <1>2, <1>4, <1>5 DEF TablesInv

\* What changes is a line of the file.
LEMMA MovingKeys == Moving \subseteq KeySet
<1>1. Keys[1] \in KeySet
  BY KeysDiffer
<1> QED
  BY <1>1 DEF Moving

\* Every step keeps the invariant.
LEMMA TablesStep == ASSUME TablesInv, [Next]_vars PROVE TablesInv'
<1>1. ASSUME NEW k \in KeySet, Evaluate(k) PROVE TablesInv'
  BY <1>1, EvaluateTyped, EvaluateUpToDate, EvaluateRemembers DEF TablesInv
<1>2. ASSUME NEW k \in Moving, Change(k) PROVE TablesInv'
  BY <1>2, MovingKeys, ChangeKeeps
<1>3. CASE Toggle
  BY <1>3, TablesStutter DEF Toggle
<1>4. CASE UNCHANGED vars
  <2>1. readable \in BOOLEAN
    BY DEF TablesInv, TablesOK
  <2> QED
    BY <1>4, <2>1, TablesStutter DEF vars
<1> QED
  BY <1>1, <1>2, <1>3, <1>4, TickKeeps, SetBackKeeps DEF Next
-----------------------------------------------------------------------------
\* A quotient of naturals.
LEMMA Quotient ==
    ASSUME NEW a \in Nat, NEW b \in Nat \ {0}
    PROVE  a \div b \in Nat /\ b * (a \div b) <= a /\ a < b * (a \div b) + b
  OBVIOUS

\* A number read from a column is the natural number in it, none is 0.
LEMMA Numbers ==
    ASSUME NEW v \in LineValues
    PROVE  /\ \A column \in -1 .. 1 : atof(split(v, column)) \in Nat
           /\ v # <<>> => \A column \in 0 .. 1 : atof(split(v, column)) = v[column + 1]
           /\ v # <<>> => v[1] \in Nat /\ v[2] \in Nat
<1>1. MaxValue \in Nat
  BY TablesAssumption
<1>2. CASE v = <<>>
  <2>1. \A column \in -1 .. 1 : split(v, column) = <<>>
    BY <1>2 DEF split
  <2> QED
    BY <1>2, <2>1 DEF atof
<1>3. CASE v # <<>>
  <2>1. PICK a \in Nat, b \in Nat : v = <<a, b>>
    <3>1. CASE v = <<0, 0>>
      BY <3>1
    <3>2. CASE v # <<0, 0>>
      <4>1. PICK n \in 0 .. MaxValue : v = <<n, MaxValue - n>>
        BY <1>3, <3>2 DEF LineValues, Lines
      <4>2. n \in Nat /\ MaxValue - n \in Nat
        BY <1>1
      <4> QED
        BY <4>1, <4>2
    <3> QED
      BY <3>1, <3>2
  <2>2. Len(v) = 2 /\ v[1] = a /\ v[2] = b
    BY <2>1
  <2>3. ASSUME NEW column \in 0 .. 1 PROVE atof(split(v, column)) = v[column + 1]
    <3>1. split(v, column) = <<v[column + 1]>>
      BY <2>2 DEF split
    <3>2. <<v[column + 1]>> # <<>> /\ <<v[column + 1]>>[1] = v[column + 1]
      OBVIOUS
    <3> QED
      BY <3>1, <3>2 DEF atof
  <2>4. atof(split(v, -1)) = v[1]
    BY <1>3 DEF atof, split
  <2>5. ASSUME NEW column \in -1 .. 1 PROVE atof(split(v, column)) \in Nat
    <3>1. CASE column = -1
      BY <2>1, <2>2, <2>4, <3>1
    <3>2. CASE column = 0
      <4>1. atof(split(v, 0)) = v[0 + 1]
        BY <2>3
      <4> QED
        BY <2>1, <2>2, <3>2, <4>1
    <3>3. CASE column = 1
      <4>1. atof(split(v, 1)) = v[1 + 1]
        BY <2>3
      <4> QED
        BY <2>1, <2>2, <3>3, <4>1
    <3> QED
      BY <3>1, <3>2, <3>3
  <2> QED
    BY <2>1, <2>2, <2>3, <2>5
<1> QED
  BY <1>2, <1>3

\* A slot of a ring, and the newest.
LEMMA SlotsBack ==
    ASSUME NEW n \in Nat \ {0}, NEW it \in Item(n)
    PROVE  /\ \A i \in 0 .. n - 1 : Back(it, i) \in Slot
           /\ Back(it, 0) = Newest(it) /\ it.nSlot = n
           /\ Newest(it) \in Slot /\ Newest(it).value # <<>>
<1>1. it.index \in 0 .. n - 1 /\ it.nSlot = n /\ it.slot \in [0 .. n - 1 -> Slot] /\ Newest(it).value # <<>>
  BY DEF Item, RawItem
<1>2. ASSUME NEW i \in 0 .. n - 1 PROVE Back(it, i) \in Slot
  <2>1. (it.index + i) % n \in 0 .. n - 1
    BY <1>1
  <2> QED
    BY <1>1, <2>1 DEF Back
<1>3. Back(it, 0) = Newest(it)
  <2>1. 0 \in 0 .. n - 1
    OBVIOUS
  <2>2. (it.index + 0) % n = IF it.index + 0 < n THEN it.index + 0 ELSE it.index + 0 - n
    BY <1>1, <2>1, AroundRing, Zenon
  <2>3. (it.index + 0) % n = it.index
    BY <1>1, <2>2
  <2> QED
    BY <1>1, <2>3 DEF Back, Newest
<1> QED
  BY <1>1, <1>2, <1>3 DEF Newest

\* The search in a ring ends at one of its slots.
LEMMA SearchEnds ==
    ASSUME NEW n \in Nat \ {0}, NEW it \in Item(n), NEW end
    PROVE  DeltaSlot(it, end) \in 0 .. n - 1
<1> DEFINE stops == {i \in 1 .. n - 1 : Back(it, i).timestamp = 0 \/ Back(it, i).timestamp < end}
<1>1. it.nSlot = n
  BY SlotsBack
<1>2. DeltaSlot(it, end) = IF stops = {} THEN n - 1
                           ELSE IF Back(it, Min(stops)).timestamp = 0 THEN Min(stops) - 1 ELSE Min(stops)
  BY <1>1 DEF DeltaSlot
<1>3. stops \in SUBSET Nat /\ \A i \in stops : i \in 1 .. n - 1
  OBVIOUS
<1> HIDE DEF stops
<1>4. stops # {} => Min(stops) \in 1 .. n - 1
  BY <1>3, MinProperty
<1> DEFINE m == Min(stops)
<1>5. DeltaSlot(it, end) = IF stops = {} THEN n - 1 ELSE IF Back(it, m).timestamp = 0 THEN m - 1 ELSE m
  BY <1>2
<1>6. stops # {} => m \in 1 .. n - 1
  BY <1>4
<1> HIDE DEF m
<1> QED
  BY <1>5, <1>6

\* No rate is negative.
LEMMA RateIsNatural ==
    ASSUME NEW n \in Nat \ {0}, NEW it \in Item(n), NEW column \in -1 .. 1, NEW delay \in Nat
    PROVE  ItemDelta(it, column, delay) \in Nat
<1> DEFINE s1 == Newest(it)
           i == DeltaSlot(it, s1.timestamp - delay)
           s2 == Back(it, i)
           dv == atof(split(s1.value, column)) - atof(split(s2.value, column))
           dt == s1.timestamp - s2.timestamp
<1>1. Scale \in Nat \ {0}
  BY TablesAssumption
<1>2. i \in 0 .. n - 1
  <2> HIDE DEF s1
  <2> QED
    BY SearchEnds
<1>3. ItemDelta(it, column, delay) =
        IF delay = 0 THEN Scale * atof(split(s1.value, column))
        ELSE IF i # 0 /\ dt > 0 /\ dv >= 0 THEN (Scale * dv) \div dt ELSE 0
  BY Zenon DEF ItemDelta
<1> HIDE DEF i
<1>4. s1 \in Slot /\ s2 \in Slot
  BY <1>2, SlotsBack
<1> HIDE DEF s1, s2
<1>5. /\ atof(split(s1.value, column)) \in Nat /\ atof(split(s2.value, column)) \in Nat
      /\ s1.timestamp \in Nat /\ s2.timestamp \in Nat
  <2>1. s1.value \in LineValues /\ s2.value \in LineValues /\ s1.timestamp \in Nat /\ s2.timestamp \in Nat
    BY <1>4 DEF Slot
  <2> QED
    BY <2>1, Numbers
<1> DEFINE a == atof(split(s1.value, column))
<1>6. dv \in Int /\ dt \in Int /\ a \in Nat
  BY <1>5
<1>7. ItemDelta(it, column, delay) =
        IF delay = 0 THEN Scale * a
        ELSE IF i # 0 /\ dt > 0 /\ dv >= 0 THEN (Scale * dv) \div dt ELSE 0
  BY <1>3
<1> HIDE DEF a, dv, dt
<1>8. Scale * a \in Nat
  BY <1>1, <1>6
<1>9. ASSUME dt > 0, dv >= 0 PROVE (Scale * dv) \div dt \in Nat
  <2>1. dt \in Nat \ {0} /\ Scale * dv \in Nat
    BY <1>1, <1>6, <1>9
  <2> QED
    BY <2>1, Quotient
<1> QED
  BY <1>7, <1>8, <1>9

\* The sample a rate is counted from.
From(h, delay) ==
    LET older == {i \in 2 .. Len(h) : h[i].at < h[1].at - delay}
    IN IF older = {} THEN Len(h) ELSE Min(older)

\* The search in the ring ends at the slot of that sample.
LEMMA SearchFinds ==
    ASSUME NEW it \in Item(DELTA_SLOTS), NEW h \in Seq(Sample), Alike(it, h), NEW delay \in Nat
    PROVE  From(h, delay) \in 1 .. Len(h) /\ DeltaSlot(it, h[1].at - delay) = From(h, delay) - 1
<1> DEFINE n == DELTA_SLOTS
           l == Len(h)
           end == h[1].at - delay
           T(i) == Back(it, i).timestamp
           stops == {i \in 1 .. n - 1 : T(i) = 0 \/ T(i) < end}
           older == {i \in 2 .. l : h[i].at < end}
<1>1. n \in Nat \ {0} /\ l \in 1 .. n /\ it.nSlot = n
  <2>1. n \in Nat \ {0}
    BY TablesAssumption
  <2> QED
    BY <2>1, SlotsBack DEF Alike
<1>2. \A i \in 1 .. l : h[i].at \in Nat \ {0}
  <2>1. \A i \in 1 .. Len(h) : h[i] \in Sample
    OBVIOUS
  <2> QED
    BY <2>1 DEF Sample
<1>3. /\ \A i \in 1 .. l : h[i].at = T(i - 1)
      /\ \A i \in l .. n - 1 : T(i) = 0
  BY DEF Alike
<1>4. DeltaSlot(it, end) = IF stops = {} THEN n - 1
                           ELSE IF T(Min(stops)) = 0 THEN Min(stops) - 1 ELSE Min(stops)
  BY <1>1 DEF DeltaSlot
<1>5. From(h, delay) = IF older = {} THEN l ELSE Min(older)
  BY DEF From
<1>6. end \in Int
  BY <1>1, <1>2
<1>7. \A i \in older : i \in 2 .. l /\ h[i].at < end
  OBVIOUS
<1>8. \A i \in 2 .. l : h[i].at < end => i \in older
  OBVIOUS
<1>9. \A i \in stops : i \in 1 .. n - 1 /\ (T(i) = 0 \/ T(i) < end)
  OBVIOUS
<1>10. \A i \in 1 .. n - 1 : T(i) = 0 \/ T(i) < end => i \in stops
  OBVIOUS
<1>11. stops \in SUBSET Nat /\ older \in SUBSET Nat
  BY <1>1
<1> HIDE DEF n, l, end, T, stops, older
<1>12. CASE older = {}
  <2>1. \A i \in 1 .. n - 1 : i < l => T(i) # 0 /\ ~(T(i) < end)
    <3> TAKE i \in 1 .. n - 1
    <3> HAVE i < l
    <3>1. i + 1 \in 2 .. l /\ i + 1 \in 1 .. l /\ (i + 1) - 1 = i
      BY <1>1
    <3>2. h[i + 1].at = T(i) /\ h[i + 1].at \in Nat \ {0}
      BY <1>2, <1>3, <3>1
    <3>3. ~(h[i + 1].at < end)
      BY <1>8, <1>12, <3>1
    <3> QED
      BY <3>2, <3>3
  <2>2. CASE l = n
    <3>1. stops = {}
      BY <1>1, <1>9, <2>1, <2>2
    <3> QED
      BY <1>1, <1>4, <1>5, <1>12, <2>2, <3>1 DEF end, l
  <2>3. CASE l # n
    <3>1. l \in 1 .. n - 1 /\ l \in l .. n - 1
      BY <1>1, <2>3
    <3>2. T(l) = 0 /\ l \in stops
      BY <1>3, <1>10, <3>1
    <3>3. \A i \in stops : l <= i
      BY <1>1, <1>9, <2>1
    <3>4. Min(stops) = l
      <4>1. Min(stops) \in stops /\ \A y \in stops : Min(stops) <= y
        BY <1>11, <3>2, MinProperty
      <4>2. Min(stops) \in Nat /\ Min(stops) <= l /\ l <= Min(stops) /\ l \in Nat
        BY <1>11, <3>1, <3>2, <3>3, <4>1
      <4> QED
        BY <4>2
    <3> QED
      BY <1>1, <1>4, <1>5, <1>12, <3>2, <3>4 DEF end, l
  <2> QED
    BY <2>2, <2>3
<1>13. CASE older # {}
  <2> DEFINE m == Min(older)
  <2>1. m \in older /\ \A i \in older : m <= i
    BY <1>11, <1>13, MinProperty
  <2> HIDE DEF m
  <2>2. m \in 2 .. l /\ h[m].at < end
    BY <1>7, <2>1
  <2>3. /\ m - 1 \in 1 .. n - 1 /\ m \in 1 .. l
        /\ h[m].at = T(m - 1) /\ h[m].at \in Nat \ {0}
    BY <1>1, <1>2, <1>3, <2>2
  <2>4. m - 1 \in stops /\ T(m - 1) # 0
    BY <1>10, <2>2, <2>3
  <2>5. \A i \in stops : m - 1 <= i
    <3> SUFFICES ASSUME NEW i \in stops, i < m - 1 PROVE FALSE
      BY <1>1, <1>9, <2>3
    <3>1. i \in 1 .. n - 1 /\ (T(i) = 0 \/ T(i) < end)
      BY <1>9
    <3>2. i + 1 \in 2 .. l /\ i + 1 \in 1 .. l /\ (i + 1) - 1 = i /\ i + 1 < m
      BY <1>1, <2>2, <3>1
    <3>3. h[i + 1].at = T(i) /\ h[i + 1].at \in Nat \ {0}
      BY <1>2, <1>3, <3>2
    <3>4. i + 1 \in older
      BY <1>8, <3>1, <3>2, <3>3
    <3>5. m <= i + 1
      BY <2>1, <3>4
    <3> QED
      BY <1>1, <2>2, <3>1, <3>2, <3>5
  <2>6. Min(stops) = m - 1
    <3>1. Min(stops) \in stops /\ \A y \in stops : Min(stops) <= y
      BY <1>11, <2>4, MinProperty
    <3>2. Min(stops) \in Nat /\ Min(stops) <= m - 1 /\ m - 1 <= Min(stops) /\ m - 1 \in Nat
      BY <1>11, <2>3, <2>4, <2>5, <3>1
    <3> QED
      BY <3>2
  <2>7. From(h, delay) = m
    BY <1>5, <1>13 DEF m
  <2> QED
    BY <1>1, <1>4, <2>3, <2>4, <2>6, <2>7 DEF end, l
<1> QED
  BY <1>12, <1>13

\* The rate of a ring is the one of the samples it was filled from.
LEMMA RingRate ==
    ASSUME NEW it \in Item(DELTA_SLOTS), NEW key, samples[key] \in Seq(Sample), Alike(it, samples[key]),
           NEW column \in 0 .. 1, NEW delay \in 1 .. 3
    PROVE  ItemDelta(it, column, delay) = Rate(key, column, delay)
<1> DEFINE h == samples[key]
           m == From(h, delay)
           s1 == Newest(it)
           s2 == Back(it, m - 1)
           dv == h[1].value[column + 1] - h[m].value[column + 1]
           dt == h[1].at - h[m].at
<1>1. DELTA_SLOTS \in Nat \ {0}
  BY TablesAssumption
<1>2. Len(h) \in 1 .. DELTA_SLOTS /\ Len(h) \in Nat /\ h \in Seq(Sample)
  BY <1>1 DEF Alike
<1>3. m \in 1 .. Len(h) /\ DeltaSlot(it, h[1].at - delay) = m - 1
  <2>1. delay \in Nat /\ h \in Seq(Sample) /\ Alike(it, h)
    OBVIOUS
  <2> HIDE DEF h
  <2> QED
    BY <2>1, SearchFinds
<1>4. h[1].value = s1.value /\ h[1].at = s1.timestamp
  <2>1. 1 \in 1 .. Len(h) /\ 1 - 1 = 0
    BY <1>2
  <2>2. Back(it, 0) = s1
    BY <1>1, SlotsBack
  <2> QED
    BY <2>1, <2>2 DEF Alike
<1>5. h[m].value = s2.value /\ h[m].at = s2.timestamp
  BY <1>3 DEF Alike
<1>6. /\ h[1].value \in LineValues \ {<<>>} /\ h[m].value \in LineValues \ {<<>>}
  <2>1. h[1] \in Sample /\ h[m] \in Sample
    BY <1>2, <1>3
  <2> QED
    BY <2>1 DEF Sample
<1>7. /\ atof(split(s1.value, column)) = h[1].value[column + 1]
      /\ atof(split(s2.value, column)) = h[m].value[column + 1]
  BY <1>4, <1>5, <1>6, Numbers
<1>8. Rate(key, column, delay) = IF Len(h) > 1 /\ dt > 0 /\ dv >= 0 THEN (Scale * dv) \div dt ELSE 0
  BY Zenon DEF Rate, From
<1>9. ItemDelta(it, column, delay) = IF m - 1 # 0 /\ dt > 0 /\ dv >= 0 THEN (Scale * dv) \div dt ELSE 0
  <2>1. delay # 0
    OBVIOUS
  <2>2. DeltaSlot(it, s1.timestamp - delay) = m - 1
    BY <1>3, <1>4
  <2> HIDE DEF m
  <2>3. ItemDelta(it, column, delay) =
          IF m - 1 # 0 /\ s1.timestamp - s2.timestamp > 0
               /\ atof(split(s1.value, column)) - atof(split(s2.value, column)) >= 0
          THEN (Scale * (atof(split(s1.value, column)) - atof(split(s2.value, column)))) \div (s1.timestamp - s2.timestamp)
          ELSE 0
    BY <2>1, <2>2, Zenon DEF ItemDelta
  <2> QED
    BY <1>4, <1>5, <1>7, <2>3
<1>10. m - 1 # 0 /\ dt > 0 => Len(h) > 1
  BY <1>2, <1>3
<1>11. Len(h) > 1 /\ dt > 0 => m - 1 # 0
  <2>1. m - 1 = 0 => m = 1
    BY <1>2, <1>3
  <2>2. m = 1 => dt = 0
    <3>1. h[1] \in Sample
      BY <1>2
    <3>2. h[1].at \in Nat
      BY <3>1 DEF Sample
    <3> QED
      BY <3>2
  <2> HIDE DEF dt, m
  <2> QED
    BY <2>1, <2>2
<1> HIDE DEF h, m, dt, dv
<1> QED
  BY <1>8, <1>9, <1>10, <1>11

\* Every rate is that of the lines read.
LEMMA RatesHold == ASSUME TablesInv PROVE DeltaIsRate
<1> SUFFICES ASSUME plugin \in Counting \union {"proc_stat"},
                    NEW key \in KeySet, NEW column \in 0 .. 1, NEW delay \in 1 .. 3
             PROVE  hash_get_delta(state.table, key, column, delay) = Rate(key, column, delay)
  BY DEF DeltaIsRate
<1>1. TablesOK /\ Remembers /\ Ringed
  BY DEF TablesInv, Ringed
<1>2. Rings = DELTA_SLOTS /\ state.table \in Table(DELTA_SLOTS) /\ DELTA_SLOTS \in Nat \ {0}
  <2>1. Rings = DELTA_SLOTS
    BY <1>1 DEF Rings, SlotsOf
  <2> QED
    BY <1>1, <2>1, StateShape
<1>3. hash_get_delta(state.table, key, column, delay) =
        IF Has(state.table, key) THEN ItemDelta(ItemOf(state.table, key), column, delay) ELSE 0
  BY <1>2, NewestFound
<1>4. CASE Has(state.table, key)
  <2>1. ItemOf(state.table, key) \in Item(DELTA_SLOTS) /\ Alike(ItemOf(state.table, key), samples[key])
    BY <1>1, <1>2, <1>4, LookupFinds DEF Remembers
  <2>2. samples[key] \in Seq(Sample)
    BY <1>1 DEF TablesOK
  <2> QED
    BY <1>3, <1>4, <2>1, <2>2, RingRate
<1>5. CASE ~Has(state.table, key)
  <2>1. samples[key] = <<>>
    BY <1>1, <1>5 DEF Remembers
  <2>2. Rate(key, column, delay) = 0
    <3>1. ~(Len(samples[key]) > 1)
      BY <2>1
    <3> QED
      BY <3>1, Zenon DEF Rate
  <2> QED
    BY <1>3, <1>5, <2>2
<1> QED
  BY <1>4, <1>5

\* Types.
LEMMA TypeHolds == ASSUME TablesInv, plugin \in Plugins PROVE ProcTypeOK
<1>1. /\ TablesOK /\ now \in 1 .. MaxNow /\ file \in [KeySet -> Lines]
      /\ Rings \in Nat \ {0} /\ state.table \in Table(Rings)
      /\ state.fd \in {-2, -1, 3} /\ state.off \in SUBSET KeySet
  BY StateShape DEF TablesInv, TablesOK
<1>2. ASSUME NEW i \in DOMAIN state.table.items
      PROVE  LET item == state.table.items[i]
             IN /\ item.key \in KeySet /\ item.index \in 0 .. item.nSlot - 1
                /\ \A j \in 0 .. item.nSlot - 1 : item.slot[j].value \in Lines \union {<<0, 0>>}
  <2>1. state.table.items[i] \in Item(Rings)
    BY <1>1, TableShape
  <2> QED
    BY <2>1 DEF Item, RawItem, Slot, LineValues
<1> QED
  BY <1>1, <1>2 DEF ProcTypeOK
-----------------------------------------------------------------------------
\* The shares of a whole in percent: what rounding takes from two of them is at most one.
LEMMA Percents ==
    ASSUME NEW t \in Nat \ {0}, NEW a \in 0 .. t
    PROVE  /\ (100 * a) \div t \in 0 .. 100
           /\ (100 * a) \div t + (100 * (t - a)) \div t \in {99, 100}
<1> DEFINE x == 100 * a
           y == 100 * (t - a)
           p == x \div t
           q == y \div t
<1>1. x \in Nat /\ y \in Nat /\ x + y = t * 100 /\ x <= t * 100
  OBVIOUS
<1> HIDE DEF x, y
<1>2. p \in Nat /\ t * p <= x /\ x < t * p + t
  BY <1>1, Quotient
<1>3. q \in Nat /\ t * q <= y /\ y < t * q + t
  BY <1>1, Quotient
<1> HIDE DEF p, q
<1>4. p <= 100
  <2>1. ASSUME p >= 101 PROVE FALSE
    <3>1. t * p >= t * 101 /\ t * 101 = t * 100 + t
      BY <1>2, <2>1
    <3> QED
      BY <1>1, <1>2, <3>1
  <2> QED
    BY <1>2, <2>1
<1>5. t * (p + q) = t * p + t * q /\ p + q \in Nat
  BY <1>2, <1>3
<1> DEFINE s == p + q
           ts == t * s
<1>6. /\ ts <= t * 100 /\ t * 100 < ts + t + t /\ s \in Nat /\ ts \in Nat
  <2>1. t * p \in Nat /\ t * q \in Nat
    BY <1>2, <1>3
  <2> QED
    BY <1>1, <1>2, <1>3, <1>5, <2>1
<1>7. ts = t * s
  OBVIOUS
<1> HIDE DEF s, ts
<1>8. ASSUME s >= 101 PROVE FALSE
  <2>1. t * s >= t * 101 /\ t * 101 = t * 100 + t
    BY <1>6, <1>8
  <2> QED
    BY <1>6, <1>7, <2>1
<1>9. ASSUME s <= 98 PROVE FALSE
  <2>1. t * s <= t * 98 /\ t * 98 + t + t = t * 100
    BY <1>6, <1>9
  <2> QED
    BY <1>6, <1>7, <2>1
<1>10. s \in {99, 100}
  BY <1>6, <1>8, <1>9
<1> QED
  BY <1>2, <1>4, <1>10 DEF p, q, s, x, y

\* The time of a kind of work is never negative, whatever its key.
LEMMA TimeIsNatural ==
    ASSUME NEW n \in Nat \ {0}, NEW tab \in Table(n), NEW key, NEW delay \in Nat
    PROVE  CpuTime(tab, key, delay) \in Nat
<1> DEFINE found == hash_lookup(Sorted(tab), key)
           i == CHOOSE j \in found : TRUE
<1>1. DOMAIN Sorted(tab).items = DOMAIN tab.items
  BY SortingKeeps
<1>2. found \subseteq DOMAIN tab.items
  BY <1>1 DEF hash_lookup
<1>3. CpuTime(tab, key, delay) = IF found = {} THEN 0 ELSE ItemDelta(tab.items[i], -1, delay)
  BY Zenon DEF CpuTime, hash_get_delta
<1>4. found # {} => i \in found
  OBVIOUS
<1> HIDE DEF found, i
<1>5. ASSUME found # {} PROVE ItemDelta(tab.items[i], -1, delay) \in Nat
  <2>1. tab.items[i] \in Item(n)
    BY <1>2, <1>4, <1>5, TableShape
  <2>2. -1 \in -1 .. 1
    OBVIOUS
  <2> QED
    BY <2>1, <2>2, RateIsNatural
<1> QED
  BY <1>3, <1>5

\* The loop over the kinds of work: each of them is part of the total.
LEMMA TotalCounts ==
    ASSUME NEW n \in Nat \ {0}, NEW tab \in Table(n), NEW delay \in Nat
    PROVE  /\ CpuTotal(tab, Len(CpuKeys), delay) \in Nat
           /\ \A k \in Range(CpuKeys) : CpuTime(tab, k, delay) <= CpuTotal(tab, Len(CpuKeys), delay)
<1> DEFINE N == Len(CpuKeys)
           T(i) == CpuTime(tab, CpuKeys[i], delay)
           step == [i \in 1 .. N |-> [x \in Nat |-> x + T(i)]]
           Is(f) == f = [i \in 0 .. N |-> IF i = 0 THEN 0 ELSE f[i - 1] + CpuTime(tab, CpuKeys[i], delay)]
           sum == CHOOSE f : Is(f)
<1>1. N \in Nat /\ DOMAIN CpuKeys = 1 .. N
  <2>1. CpuKeys \in Seq(STRING \ {"busy"})
    BY TablesAssumption
  <2> QED
    BY <2>1
<1>2. \A i \in 1 .. N : T(i) \in Nat
  BY TimeIsNatural
<1>3. LoopOf(N, Nat, 0, step)
  <2> HIDE DEF N, T
  <2> QED
    BY <1>2 DEF LoopOf
<1>4. PICK f : IsRun(f, N, Nat, 0, step)
  <2> HIDE DEF N, step
  <2> QED
    BY <1>1, <1>3, LoopRuns
<1>5. Is(f)
  <2> HIDE DEF N
  <2>1. ASSUME NEW i \in 1 .. N PROVE f[i] = f[i - 1] + T(i)
    <3>1. i - 1 \in 0 .. N
      BY <1>1
    <3>2. f[i - 1] \in Nat /\ f[i] = step[i][f[i - 1]]
      BY <1>4, <3>1 DEF IsRun
    <3> HIDE DEF T
    <3> QED
      BY <3>2
  <2> QED
    BY <1>1, <1>4, <2>1 DEF IsRun
<1>6. Is(sum)
  BY <1>5
<1>7. sum[0] = 0 /\ \A i \in 1 .. N : sum[i] = sum[i - 1] + T(i)
  <2> HIDE DEF sum, N
  <2>1. \A i \in 1 .. N : i \in 0 .. N /\ i # 0
    BY <1>1
  <2>2. 0 \in 0 .. N
    BY <1>1
  <2> QED
    BY <1>6, <2>1, <2>2
<1>8. CpuTotal(tab, N, delay) = sum[N]
  BY DEF CpuTotal
<1> DEFINE P == {i \in 0 .. N : sum[i] \in Nat /\ \A j \in 1 .. i : T(j) <= sum[i]}
<1> HIDE DEF T, sum, N
<1>9. 0 \in P
  BY <1>1, <1>7
<1>10. ASSUME NEW i \in 1 .. N, i - 1 \in P PROVE i \in P
  <2>1. sum[i] = sum[i - 1] + T(i) /\ sum[i - 1] \in Nat /\ T(i) \in Nat
    BY <1>2, <1>7, <1>10
  <2>2. ASSUME NEW j \in 1 .. i PROVE T(j) <= sum[i]
    <3>1. j = i \/ j \in 1 .. i - 1
      OBVIOUS
    <3>2. CASE j = i
      BY <2>1, <3>2
    <3>3. CASE j \in 1 .. i - 1
      <4>1. T(j) <= sum[i - 1] /\ T(j) \in Nat
        <5>1. j \in 1 .. N
          BY <1>1, <3>3
        <5> QED
          BY <1>2, <1>10, <3>3, <5>1
      <4> QED
        BY <2>1, <4>1
    <3> QED
      BY <3>1, <3>2, <3>3
  <2>3. i \in 0 .. N /\ sum[i] \in Nat
    BY <1>1, <2>1
  <2> QED
    BY <2>2, <2>3
<1>11. N \in P
  <2> HIDE DEF P
  <2>1. \A i \in 0 .. N : i \in P
    BY <1>1, <1>9, <1>10, LoopInvariant
  <2> QED
    BY <1>1, <2>1
<1>12. \A k \in Range(CpuKeys) : \E i \in 1 .. N : CpuKeys[i] = k
  BY <1>1 DEF Range
<1> QED
  BY <1>8, <1>11, <1>12 DEF N, T

\* The processor's shares are percentages.
LEMMA SharesHold == ASSUME TablesInv PROVE CpuShares
<1> SUFFICES ASSUME plugin = "proc_stat", NEW delay \in 1 .. 3
             PROVE  LET share(k) == my_cpu(state.table, k, delay)
                    IN /\ \A k \in Range(CpuKeys) \union {"busy"} : share(k) \in 0 .. 100
                       /\ share("busy") + share(Last(CpuKeys)) \in {0, 99, 100}
  BY DEF CpuShares
<1> DEFINE tab == state.table
           last == Last(CpuKeys)
           total == CpuTotal(tab, Len(CpuKeys), delay)
           T(k) == CpuTime(tab, k, delay)
           share(k) == my_cpu(tab, k, delay)
           value(k) == IF k = "busy" THEN total - T(last) ELSE T(k)
<1>1. Rings \in Nat \ {0} /\ tab \in Table(Rings) /\ delay \in Nat
  BY StateShape DEF TablesInv
<1>2. last \in Range(CpuKeys) /\ "busy" \notin Range(CpuKeys)
  <2>1. CpuKeys \in Seq(STRING \ {"busy"}) /\ CpuKeys # <<>>
    BY TablesAssumption
  <2>2. /\ Len(CpuKeys) \in Nat /\ DOMAIN CpuKeys = 1 .. Len(CpuKeys) /\ 1 \in DOMAIN CpuKeys
        /\ \A i \in DOMAIN CpuKeys : CpuKeys[i] \in STRING \ {"busy"}
    BY <2>1, SomeElements
  <2>3. Len(CpuKeys) \in DOMAIN CpuKeys
    BY <2>2
  <2> QED
    BY <2>2, <2>3 DEF Range, Last
<1> HIDE DEF tab
<1>3. total \in Nat /\ \A k \in Range(CpuKeys) : T(k) \in Nat /\ T(k) <= total
  BY <1>1, TotalCounts, TimeIsNatural
<1>4. \A k : share(k) = IF total > 0 THEN (100 * value(k)) \div total ELSE 0
  BY Zenon DEF my_cpu
<1> HIDE DEF total, T, share, last
<1>5. ASSUME NEW k \in Range(CpuKeys) \union {"busy"}
      PROVE  value(k) \in 0 .. total /\ (k # "busy" => value(k) = T(k))
  <2>1. CASE k = "busy"
    BY <1>2, <1>3, <2>1
  <2>2. CASE k # "busy"
    BY <1>3, <2>2
  <2> QED
    BY <2>1, <2>2
<1>6. value("busy") = total - T(last) /\ value(last) = T(last) /\ T(last) \in 0 .. total
  BY <1>2, <1>3, <1>5
<1> HIDE DEF value
<1>7. ASSUME NEW k \in Range(CpuKeys) \union {"busy"} PROVE share(k) \in 0 .. 100
  <2>1. CASE total > 0
    <3>1. total \in Nat \ {0} /\ value(k) \in 0 .. total
      BY <1>3, <1>5, <2>1
    <3>2. (100 * value(k)) \div total \in 0 .. 100
      BY <3>1, Percents
    <3> QED
      BY <1>4, <2>1, <3>2
  <2>2. CASE ~(total > 0)
    BY <1>4, <2>2
  <2> QED
    BY <2>1, <2>2
<1>8. share("busy") + share(last) \in {0, 99, 100}
  <2>1. CASE total > 0
    <3>1. total \in Nat \ {0} /\ T(last) \in 0 .. total
      BY <1>3, <1>6, <2>1
    <3>2. (100 * T(last)) \div total + (100 * (total - T(last))) \div total \in {99, 100}
      BY <3>1, Percents
    <3>3. share("busy") = (100 * (total - T(last))) \div total /\ share(last) = (100 * T(last)) \div total
      BY <1>4, <1>6, <2>1
    <3>4. /\ (100 * T(last)) \div total \in Int /\ (100 * (total - T(last))) \div total \in Int
      BY <3>1
    <3> QED
      BY <3>2, <3>3, <3>4
  <2>2. CASE ~(total > 0)
    BY <1>4, <2>2
  <2> QED
    BY <2>1, <2>2
<1> QED
  BY <1>7, <1>8 DEF share, last, tab
-----------------------------------------------------------------------------
\* The sum over the entries that match is the number of the one entry of the key.
LEMMA OneMatches ==
    ASSUME NEW n \in Nat \ {0}, NEW tab \in Table(n), NEW key \in KeySet
    PROVE  /\ hash_get_regex(tab, {key}, 0, 0) =
                IF Has(tab, key) THEN Scale * atof(split(NewestOf(tab, key).value, 0)) ELSE 0
           /\ Has(tab, key) => hash_get_regex(tab, {key}, 0, 0) \div Scale = NewestOf(tab, key).value[1]
<1> DEFINE N == Len(tab.items)
           p == Place(tab, key)
           D == Scale * atof(split(NewestOf(tab, key).value, 0))
           W(i) == IF tab.items[i].key \notin {key} THEN 0
                   ELSE hash_get_delta(tab, tab.items[i].key, 0, 0)
           step == [i \in 1 .. N |-> [x \in Nat |-> x + W(i)]]
           Is(f) == f = [i \in 0 .. N |->
                           IF i = 0 THEN 0
                           ELSE f[i - 1] + (IF tab.items[i].key \notin {key} THEN 0
                                            ELSE hash_get_delta(tab, tab.items[i].key, 0, 0))]
           sum == CHOOSE f : Is(f)
<1>0. Scale \in Nat \ {0}
  BY TablesAssumption
<1>1. N \in Nat /\ DOMAIN tab.items = 1 .. N
      /\ \A i, j \in DOMAIN tab.items : tab.items[i].key = tab.items[j].key => i = j
  BY TableShape
<1>2. ASSUME Has(tab, key)
      PROVE  /\ p \in 1 .. N /\ tab.items[p].key = key
             /\ hash_get_delta(tab, key, 0, 0) = D /\ D \in Nat
             /\ atof(split(NewestOf(tab, key).value, 0)) = NewestOf(tab, key).value[1]
             /\ NewestOf(tab, key).value[1] \in Nat
  <2>1. p \in DOMAIN tab.items /\ tab.items[p].key = key
    BY <1>2, LookupFinds DEF ItemOf
  <2>2. hash_get_delta(tab, key, 0, 0) = ItemDelta(ItemOf(tab, key), 0, 0)
    BY <1>2, NewestFound
  <2>3. ItemDelta(ItemOf(tab, key), 0, 0) = D
    BY Zenon DEF ItemDelta, NewestOf
  <2>4. NewestOf(tab, key).value \in LineValues \ {<<>>}
    BY <1>2, NewestSlot
  <2>5. /\ atof(split(NewestOf(tab, key).value, 0)) = NewestOf(tab, key).value[0 + 1]
        /\ NewestOf(tab, key).value[1] \in Nat
    BY <2>4, Numbers
  <2>6. D \in Nat
    BY <1>0, <2>5
  <2> QED
    BY <1>1, <2>1, <2>2, <2>3, <2>5, <2>6
<1>3. ASSUME NEW i \in 1 .. N
      PROVE  W(i) = (IF Has(tab, key) /\ i = p THEN D ELSE 0) /\ W(i) \in Nat
  <2>1. CASE tab.items[i].key = key
    <3>1. Has(tab, key)
      BY <1>1, <2>1 DEF Has
    <3>2. i = p
      BY <1>1, <1>2, <2>1, <3>1
    <3> QED
      BY <1>2, <2>1, <3>1, <3>2
  <2>2. CASE tab.items[i].key # key
    <3>1. ~(Has(tab, key) /\ i = p)
      BY <1>2, <2>2
    <3> QED
      BY <2>2, <3>1
  <2> QED
    BY <2>1, <2>2
<1>4. LoopOf(N, Nat, 0, step)
  <2> HIDE DEF N, W
  <2> QED
    BY <1>3 DEF LoopOf
<1>5. PICK f : IsRun(f, N, Nat, 0, step)
  <2> HIDE DEF N, step
  <2> QED
    BY <1>1, <1>4, LoopRuns
<1>6. Is(f)
  <2> HIDE DEF N
  <2>1. ASSUME NEW i \in 1 .. N PROVE f[i] = f[i - 1] + W(i)
    <3>1. i - 1 \in 0 .. N
      BY <1>1
    <3>2. f[i - 1] \in Nat /\ f[i] = step[i][f[i - 1]]
      BY <1>5, <3>1 DEF IsRun
    <3> HIDE DEF W
    <3> QED
      BY <3>2
  <2> QED
    BY <1>1, <1>5, <2>1 DEF IsRun
<1>7. Is(sum)
  BY <1>6
<1>8. sum[0] = 0 /\ \A i \in 1 .. N : sum[i] = sum[i - 1] + W(i)
  <2> HIDE DEF sum, N
  <2>1. \A i \in 1 .. N : i \in 0 .. N /\ i # 0
    BY <1>1
  <2>2. 0 \in 0 .. N
    BY <1>1
  <2> QED
    BY <1>7, <2>1, <2>2
<1>9. hash_get_regex(tab, {key}, 0, 0) = sum[N]
  BY DEF hash_get_regex
<1> DEFINE S == {i \in 0 .. N : sum[i] = IF Has(tab, key) /\ p <= i THEN D ELSE 0}
<1> HIDE DEF W, sum, N, p, D
<1>10. 0 \in S
  BY <1>1, <1>2, <1>8
<1>11. ASSUME NEW i \in 1 .. N, i - 1 \in S PROVE i \in S
  <2>1. sum[i] = sum[i - 1] + W(i) /\ sum[i - 1] = (IF Has(tab, key) /\ p <= i - 1 THEN D ELSE 0)
    BY <1>8, <1>11
  <2>2. W(i) = IF Has(tab, key) /\ i = p THEN D ELSE 0
    BY <1>3
  <2>3. i \in 0 .. N
    BY <1>1
  <2>4. CASE Has(tab, key)
    BY <1>1, <1>2, <2>1, <2>2, <2>3, <2>4
  <2>5. CASE ~Has(tab, key)
    BY <2>1, <2>2, <2>3, <2>5
  <2> QED
    BY <2>4, <2>5
<1>12. N \in S
  <2> HIDE DEF S
  <2>1. \A i \in 0 .. N : i \in S
    BY <1>1, <1>10, <1>11, LoopInvariant
  <2> QED
    BY <1>1, <2>1
<1>13. sum[N] = IF Has(tab, key) THEN D ELSE 0
  BY <1>1, <1>2, <1>12
<1>14. Has(tab, key) => D \div Scale = NewestOf(tab, key).value[1]
  <2>1. \A x \in Nat : (Scale * x) \div Scale = x
    <3> TAKE x \in Nat
    <3> DEFINE q == (Scale * x) \div Scale
    <3>1. q \in Nat /\ Scale * q <= Scale * x /\ Scale * x < Scale * q + Scale
      BY <1>0, Quotient
    <3> HIDE DEF q
    <3>2. ASSUME q >= x + 1 PROVE FALSE
      <4>1. Scale * q >= Scale * (x + 1) /\ Scale * (x + 1) = Scale * x + Scale
        BY <1>0, <3>1, <3>2
      <4> QED
        BY <1>0, <3>1, <4>1
    <3>3. ASSUME x >= q + 1 PROVE FALSE
      <4>1. Scale * x >= Scale * (q + 1) /\ Scale * (q + 1) = Scale * q + Scale
        BY <1>0, <3>1, <3>3
      <4> QED
        BY <1>0, <3>1, <4>1
    <3>4. q = x
      BY <3>1, <3>2, <3>3
    <3> QED
      BY <3>4 DEF q
  <2> QED
    BY <1>2, <2>1 DEF D
<1> QED
  BY <1>9, <1>13, <1>14 DEF D

\* What a function tells of a key that has an entry.
LEMMA ToldLine ==
    ASSUME NEW n \in Nat \ {0}, NEW s, s.table \in Table(n), NEW key \in KeySet, Has(s.table, key),
           NewestOf(s.table, key).value = file[key], ~(plugin = "uptime" /\ s.nelem = -1)
    PROVE  Looked(s, key) = Shown(key)
<1>1. /\ hash_get_regex(s.table, {key}, 0, 0) \div Scale = file[key][1]
      /\ hash_get(s.table, key, -1) = file[key]
  <2>1. hash_get(s.table, key, -1) = Newest(ItemOf(s.table, key)).value
    BY NewestFound
  <2> QED
    BY <2>1, OneMatches DEF NewestOf
<1> QED
  BY <1>1 DEF Looked, Shown

\* A fresh answer is the line of the file, and a failure that stays is one of those
\* that the code remembers.
LEMMA AnswersTold ==
    ASSUME TablesInv, NEW key \in KeySet, Evaluate(key)
    PROVE  FreshAnswer' /\ Recovers'
<1> DEFINE r == Read(state, key)
           new == r.s.table
           v == IF r.ok THEN Looked([r.s EXCEPT !.table = Sorted(@)], key) ELSE <<>>
<1>0. TablesOK /\ UpToDate'
  BY EvaluateUpToDate DEF TablesInv
<1>1. /\ state'.table = Sorted(new) /\ state'.fd = r.s.fd /\ state'.off = r.s.off /\ state'.nelem = r.s.nelem
      /\ UNCHANGED <<plugin, now, file, readable, changed, stepped>>
  BY <1>0, EvaluatedState, Zenon
<1>2. answer' = [key |-> key, ok |-> r.ok, readable |-> readable, value |-> v]
      /\ state' = [r.s EXCEPT !.table = Sorted(@)]
  BY Zenon DEF Evaluate
<1>3. PICK S \in SUBSET KeySet :
        /\ Takes(state.table, new, S, Found(r.s), Rings)
        /\ r.read => S = KeySet
        /\ ~r.read /\ plugin # "i2c" => S = {}
  BY <1>0, Evaluation, Zenon
<1>4. /\ state.fd = -1 => r.s.fd = -1
      /\ r.read \in BOOLEAN /\ r.ok \in BOOLEAN
  BY <1>0, Evaluation, Zenon
<1>5. /\ new \in Table(Rings) /\ Rings \in Nat \ {0} /\ now \in Nat \ {0}
      /\ state.table.timestamp \in Nat /\ changed \in [KeySet -> Nat] /\ readable \in BOOLEAN
  BY <1>0, <1>3, StateShape DEF Takes, TablesOK
<1>6. /\ answer'.key = key /\ answer'.ok = r.ok /\ answer'.readable = readable
      /\ r.ok => answer'.value = Looked(state', key)
  <2> HIDE DEF r
  <2>1. v = IF r.ok THEN Looked(state', key) ELSE <<>>
    BY <1>2
  <2> HIDE DEF v
  <2> QED
    BY <1>2, <2>1
<1>7. plugin # "i2c" => Excused(r, key)
  BY <1>0, PluginReads
<1>8. plugin = "i2c" =>
        /\ r.ok <=> Has(new, key)
        /\ \/ new = state.table
              /\ (~readable \/ (Has(state.table, key) /\ now - Newest(ItemOf(state.table, key)).timestamp <= Ms250))
           \/ readable /\ Takes(state.table, new, {key}, file, 1)
  BY <1>0, SensorReads
<1>9. KeepTime \in Nat /\ KeepTime' = KeepTime /\ Ms250 \in Nat
  <2>1. Ms10 \in Nat /\ Ms100 \in Nat /\ Ms250 \in Nat /\ Ms1000 \in Nat
    BY TablesAssumption
  <2> QED
    BY <1>1, <2>1 DEF KeepTime
<1>10. Found(r.s)[key] = Counted(key, r.s)
  BY <1>0, FoundLines
<1>11. key # ""
  BY KeysDiffer
<1>15. plugin = "uptime" =>
         \/ r = Kept(state)
         \/ ~r.ok /\ ~r.read /\ r.s.nelem = -1
         \/ r.read /\ r.s.nelem = 3
  BY <1>0, UptimeReads
<1>16. r = Kept(state) => ~r.read
  BY DEF Kept
<1> HIDE DEF r, new, v
<1>12. /\ (state').table.timestamp = new.timestamp /\ (state').table \in Table(Rings)
       /\ (Has((state').table, key) <=> Has(new, key)) /\ NewestOf((state').table, key) = NewestOf(new, key)
  BY <1>1, <1>5, SortingKeeps DEF NewestOf
<1>13. FreshAnswer'
  <2> DEFINE Forgotten == plugin = "uptime" /\ r.s.nelem = -1
  <2> SUFFICES ASSUME r.ok, readable, ~stepped, r.s.fd # -1, file[key] # <<>>, key \notin r.s.off,
                      now - changed[key] > KeepTime
               PROVE  \/ answer'.value = Shown(key)
                      \/ Forgotten /\ answer'.value = <<-1>> /\ now - (state').table.timestamp <= Ms100
    <3>1. (answer').key = key /\ (answer').ok = r.ok /\ (answer').readable = readable
          /\ (state').fd = r.s.fd /\ (state').off = r.s.off
      BY <1>1, <1>6
    <3>2. ASSUME ~FreshAnswer'
          PROVE  /\ r.ok /\ readable /\ ~stepped /\ r.s.fd # -1 /\ file[key] # <<>> /\ key \notin r.s.off
                 /\ now - changed[key] > KeepTime
      <4>1. /\ (answer').ok /\ (answer').readable /\ ~stepped' /\ (state').fd # -1
            /\ file'[(answer').key] # <<>> /\ (answer').key \notin (state').off
            /\ now' - changed'[(answer').key] > KeepTime'
        BY <3>2 DEF FreshAnswer
      <4> QED
        BY <1>1, <1>9, <3>1, <4>1
    <3>3. ASSUME (answer').value = Shown(key) PROVE FreshAnswer'
      <4>1. Shown(answer.key)' = Shown(key)
        BY <1>1, <3>1 DEF Shown, Counting
      <4>2. (answer').value = Shown(answer.key)'
        BY <3>3, <4>1
      <4> QED
        BY <4>2 DEF FreshAnswer
    <3>4. ASSUME Forgotten /\ answer'.value = <<-1>> /\ now - (state').table.timestamp <= Ms100
          PROVE  FreshAnswer'
      <4>1. plugin' = "uptime" /\ hash_age(state.table, now)' <= Ms100
        BY <1>1, <3>4 DEF hash_age
      <4> QED
        BY <3>4, <4>1 DEF FreshAnswer
    <3> QED
      BY <3>2, <3>3, <3>4
  <2>1. Counted(key, r.s) = file[key]
    BY DEF Counted
  <2>2. Held(key)'
    <3>1. CASE plugin # "i2c"
      <4>1. changed[key] < new.timestamp
        <5>1. CASE r.read
          <6>1. new.timestamp = now
            <7>1. key \in S /\ Found(r.s)[key] # <<>>
              BY <1>3, <1>10, <2>1, <5>1
            <7> QED
              BY <1>3, <7>1 DEF Takes
          <6> QED
            BY <1>5, <1>9, <6>1
        <5>2. CASE ~r.read
          <6>1. new.timestamp = state.table.timestamp
            BY <1>3, <3>1, <5>2 DEF Takes
          <6>2. state.table.timestamp <= now
            BY <6>1, <1>0, <1>1, <1>12 DEF UpToDate
          <6>3. now - state.table.timestamp <= KeepTime
            BY <1>4, <1>7, <3>1, <5>2, <6>2 DEF Excused
          <6> QED
            BY <1>5, <1>9, <6>1, <6>3
        <5> QED
          BY <1>4, <5>1, <5>2
      <4>2. Settled(key, state.table.timestamp)'
        BY <1>1, <1>12, <4>1 DEF Settled
      <4> QED
        BY <1>0, <1>1, <3>1, <4>2 DEF UpToDate
    <3>2. CASE plugin = "i2c"
      <4>1. Has(new, key)
        BY <1>8, <3>2
      <4>2. changed[key] < NewestOf(new, key).timestamp
        <5>1. CASE readable /\ Takes(state.table, new, {key}, file, 1)
          <6>1. Rings = 1 /\ file \in [KeySet -> LineValues]
            <7>1. Ringed = FALSE
              BY <3>2 DEF Ringed, Counting
            <7> QED
              BY <1>0, <7>1 DEF Rings, SlotsOf, TablesOK, LineValues
          <6>2. key \in {key} /\ {key} \in SUBSET KeySet /\ Takes(state.table, new, {key}, file, Rings)
            BY <5>1, <6>1
          <6>3. NewestOf(new, key) = [value |-> file[key], timestamp |-> now]
            BY <1>0, <6>1, <6>2, Taken DEF NewestOf
          <6> QED
            BY <1>5, <1>9, <6>3
        <5>2. CASE ~(readable /\ Takes(state.table, new, {key}, file, 1))
          <6>1. new = state.table /\ now - NewestOf(new, key).timestamp <= Ms250
            BY <1>8, <3>2, <5>2 DEF NewestOf
          <6>2. NewestOf(new, key).timestamp \in Nat
            BY <1>5, <4>1, NewestSlot
          <6>3. KeepTime = Ms250
            BY <3>2 DEF KeepTime
          <6> QED
            BY <1>5, <1>9, <6>1, <6>2, <6>3
        <5> QED
          BY <5>1, <5>2
      <4>3. Has(state.table, key)' /\ NewestOf(state.table, key)' = NewestOf(new, key)
        <5>1. NewestOf(state.table, key)' = NewestOf((state').table, key) /\ (Has(state.table, key)' <=> Has((state').table, key))
          BY DEF NewestOf, ItemOf, Place, Newest, Has
        <5> QED
          BY <1>12, <4>1, <5>1
      <4>4. Settled(key, NewestOf(state.table, key).timestamp)'
        <5>1. Settled(key, NewestOf(state.table, key).timestamp)' <=>
                (/\ changed'[key] < NewestOf(state.table, key)'.timestamp
                 /\ file'[key] # <<>> /\ key \notin (state').off /\ (state').fd # -1)
          BY DEF Settled
        <5> QED
          BY <1>1, <4>2, <4>3, <5>1
      <4> QED
        BY <1>0, <1>1, <3>2, <4>3, <4>4 DEF UpToDate
    <3> QED
      BY <3>1, <3>2
  <2>3. Has((state').table, key) /\ NewestOf((state').table, key).value = file[key]
    <3>1. Held(key)' <=> Has((state').table, key) /\ NewestOf((state').table, key).value = file'[key]
      BY DEF Held, NewestOf, ItemOf, Place, Newest, Has
    <3> QED
      BY <1>1, <2>2, <3>1
  <2>4. CASE ~Forgotten
    <3>1. ~(plugin = "uptime" /\ (state').nelem = -1)
      BY <1>1, <2>4
    <3>2. Looked(state', key) = Shown(key)
      BY <1>5, <1>12, <2>3, <3>1, ToldLine
    <3> QED
      BY <1>6, <3>2
  <2>5. CASE Forgotten
    <3>1. Looked(state', key) = <<-1>>
      BY <1>1, <2>5 DEF Looked
    <3>2. plugin # "i2c" /\ ~r.read
      BY <1>15, <1>16, <2>5
    <3>3. (state').table.timestamp = state.table.timestamp
      BY <1>3, <1>12, <3>2 DEF Takes
    <3>4. state.table.timestamp <= now
      BY <1>0, <1>1, <3>3 DEF UpToDate
    <3>5. now - state.table.timestamp <= KeepTime
      BY <1>4, <1>7, <3>2, <3>4 DEF Excused
    <3>6. KeepTime = Ms100
      BY <2>5 DEF KeepTime
    <3> QED
      BY <1>6, <2>5, <3>1, <3>3, <3>5, <3>6
  <2> QED
    BY <2>4, <2>5
<1>14. Recovers'
  <2> SUFFICES ASSUME readable, ~r.ok
               PROVE  \/ plugin \in {"apm", "cps", "loadavg", "uptime"} /\ r.s.fd = -1
                      \/ plugin = "i2c" /\ file[key] = <<>>
    BY <1>1, <1>6 DEF Recovers
  <2>1. CASE plugin # "i2c"
    BY <1>7, <2>1 DEF Excused, GivesUp
  <2>2. CASE plugin = "i2c"
    <3>1. Takes(state.table, new, {key}, file, 1) /\ ~Has(new, key)
      BY <1>8, <2>2
    <3> QED
      BY <2>2, <3>1 DEF Takes
  <2> QED
    BY <2>1, <2>2
<1> QED
  BY <1>13, <1>14
-----------------------------------------------------------------------------
AnswersInv == TablesInv /\ plugin \in Plugins /\ FreshAnswer /\ Recovers

\* The answers, step by step.
LEMMA AnswersStep == ASSUME AnswersInv, [Next]_vars PROVE AnswersInv'
<1>0. TablesInv /\ plugin \in Plugins /\ FreshAnswer /\ Recovers
  BY DEF AnswersInv
<1>1. TablesInv'
  BY <1>0, TablesStep
<1>2. plugin' = plugin
  <2>1. ASSUME NEW k \in KeySet, Evaluate(k) PROVE plugin' = plugin
    BY <2>1, Zenon DEF Evaluate
  <2>2. ASSUME NEW k \in Moving, Change(k) PROVE plugin' = plugin
    BY <2>2 DEF Change
  <2> QED
    BY <2>1, <2>2 DEF Next, Tick, Toggle, SetBack, vars
<1>3. FreshAnswer' /\ Recovers'
  <2>1. ASSUME NEW k \in KeySet, Evaluate(k) PROVE FreshAnswer' /\ Recovers'
    BY <1>0, <2>1, AnswersTold
  <2>2. ASSUME answer' = NoAnswer PROVE FreshAnswer' /\ Recovers'
    <3>1. answer'.key = ""
      BY <2>2 DEF NoAnswer
    <3> QED
      BY <3>1 DEF FreshAnswer, Recovers
  <2>3. ASSUME NEW k \in Moving, Change(k) PROVE answer' = NoAnswer
    BY <2>3 DEF Change
  <2>4. CASE UNCHANGED vars
    <3>1. /\ answer' = answer /\ plugin' = plugin /\ now' = now /\ file' = file /\ state' = state
          /\ changed' = changed /\ stepped' = stepped
      BY <2>4 DEF vars
    <3> QED
      BY <1>0, <3>1 DEF FreshAnswer, Recovers, KeepTime, Shown, Counting, hash_age
  <2> QED
    BY <2>1, <2>2, <2>3, <2>4 DEF Next, Tick, Toggle, SetBack
<1> QED
  BY <1>0, <1>1, <1>2, <1>3 DEF AnswersInv

\* Nothing is told at the beginning.
LEMMA AnswersStart == ASSUME Init PROVE AnswersInv
<1>1. answer.key = "" /\ plugin \in Plugins
  BY DEF Init, NoAnswer
<1> QED
  BY <1>1, TablesStart DEF AnswersInv, FreshAnswer, Recovers

\* Where no table is observed, none changes.
LEMMA TablesObserved == [AllNext]_allVars => [Next]_vars
  BY DEF AllNext, Tables, OfMpd, OfHuawei, OfKvv, allVars

\* Whatever the files tell and whenever they fail: an evaluation of one of the
\* plugins on tables gives an answer whenever there is one, and none that is too
\* old; every rate is that of the lines read, and the shares of the processor are
\* percentages (hash_get, hash_get_delta, hash_get_regex; parse_meminfo(),
\* my_proc_stat(), my_i2c_sensors() and the other functions).
THEOREM TablesTruthful == AllSpec => []AnswersHold
<1>1. AllInit => AnswersInv
  BY AnswersStart DEF AllInit
<1>2. AnswersInv /\ [AllNext]_allVars => AnswersInv'
  BY TablesObserved, AnswersStep
<1>3. AnswersInv => AnswersHold
  BY TypeHolds, RatesHold, SharesHold DEF AnswersInv, AnswersHold
<1> QED BY <1>1, <1>2, <1>3, PTL DEF AllSpec

-----------------------------------------------------------------------------
\* The last line of each key, as the rings have it.
Contents(tab) == [k \in {k \in KeySet : Has(tab, k)} |-> NewestOf(tab, k).value]

\* The store of the promise is what the table contains.
LEMMA StoredIs == TablesOK => stored = Contents(state.table)
<1> SUFFICES ASSUME TablesOK PROVE stored = Contents(state.table)
  OBVIOUS
<1> DEFINE tab == state.table
           Own == {tab.items[i].key : i \in DOMAIN tab.items}
           Old == {k \in KeySet : Has(tab, k)}
<1>1. Rings \in Nat \ {0} /\ tab \in Table(Rings)
  BY StateShape
<1> HIDE DEF tab
<1>2. \A i \in DOMAIN tab.items : tab.items[i].key \in KeySet
  BY <1>1, TableShape
<1>3. Own = Old
  BY <1>2 DEF Has
<1>4. \A k \in Old : hash_get(tab, k, -1) = NewestOf(tab, k).value
  BY <1>1, NewestFound DEF NewestOf
<1>5. stored = [k \in Own |-> hash_get(tab, k, -1)]
  BY Zenon DEF stored, tab
<1>6. Contents(state.table) = [k \in Old |-> NewestOf(tab, k).value]
  BY Zenon DEF Contents, tab
<1> HIDE DEF Own, Old
<1> QED
  BY <1>3, <1>4, <1>5, <1>6

\* A read leaves the new lines and the old ones.
LEMMA ContentsTaken ==
    ASSUME TablesOK, NEW lines \in [KeySet -> LineValues], NEW S \in SUBSET KeySet, NEW new,
           Takes(state.table, new, S, lines, Rings)
    PROVE  LET X == {k \in S : lines[k] # <<>>}
               old == Contents(state.table)
           IN Contents(Sorted(new)) = [k \in X \union DOMAIN old |-> IF k \in X THEN lines[k] ELSE old[k]]
<1> DEFINE X == {k \in S : lines[k] # <<>>}
           old == Contents(state.table)
           tab == Sorted(new)
<1>1. new \in Table(Rings) /\ Rings \in Nat \ {0}
  BY StateShape DEF Takes
<1>2. \A k : (Has(tab, k) <=> Has(new, k)) /\ NewestOf(tab, k) = NewestOf(new, k)
  BY <1>1, SortingKeeps DEF NewestOf
<1>3. \A k \in X : Has(new, k) /\ NewestOf(new, k).value = lines[k]
  BY Taken DEF NewestOf
<1>4. \A k \in KeySet \ X : /\ Has(new, k) <=> Has(state.table, k)
                            /\ Has(state.table, k) => NewestOf(new, k) = NewestOf(state.table, k)
  BY DEF Takes, NewestOf
<1>5. DOMAIN old = {k \in KeySet : Has(state.table, k)}
      /\ \A k \in DOMAIN old : old[k] = NewestOf(state.table, k).value
  BY DEF Contents
<1>6. Contents(tab) = [k \in {k \in KeySet : Has(tab, k)} |-> NewestOf(tab, k).value]
  BY DEF Contents
<1>7. X \subseteq KeySet
  OBVIOUS
<1> HIDE DEF X, old, tab
<1>8. {k \in KeySet : Has(tab, k)} = X \union DOMAIN old
  BY <1>2, <1>3, <1>4, <1>5, <1>7
<1>9. \A k \in {k \in KeySet : Has(tab, k)} : NewestOf(tab, k).value = IF k \in X THEN lines[k] ELSE old[k]
  BY <1>2, <1>3, <1>4, <1>5, <1>7
<1>10. Contents(tab) = [k \in X \union DOMAIN old |-> IF k \in X THEN lines[k] ELSE old[k]]
  BY <1>6, <1>8, <1>9
<1> QED
  BY <1>10 DEF X, old, tab

\* What the plugin would find.
LEMMA SourceIs == TablesOK => [k \in KeySet |-> Counted(k, state)] \in [KeySet -> LineValues]
  BY FoundLines DEF Found

\* What uptime has read cannot be told.
Lost == plugin = "uptime" /\ state.nelem = -1

\* An evaluation is a read of some of the keys, leaves the lines or loses them.
LEMMA EvaluateStores ==
    ASSUME TablesOK, NEW key \in KeySet, Evaluate(key)
    PROVE  \/ Contents((state').table) = Contents(state.table) /\ (Lost' <=> Lost)
           \/ /\ Contents((state').table) = Contents(state.table) /\ plugin = "uptime" /\ Lost'
              /\ \A k \in KeySet : Counted(k, state)' = Counted(k, state)
           \/ /\ ~Lost'
              /\ \A k \in KeySet : Counted(k, state)' = Counted(k, state)
              /\ \E X \in SUBSET KeySet :
                   /\ \A k \in X : Counted(k, state) # <<>>
                   /\ Contents((state').table) =
                        [k \in X \union DOMAIN Contents(state.table) |->
                           IF k \in X THEN Counted(k, state) ELSE Contents(state.table)[k]]
<1> DEFINE r == Read(state, key)
           new == r.s.table
           found == Found(r.s)
           old == Contents(state.table)
<1>1. /\ state'.table = Sorted(new) /\ state'.fd = r.s.fd /\ state'.off = r.s.off /\ state'.nelem = r.s.nelem
      /\ UNCHANGED <<plugin, now, file, readable, changed, stepped>>
  BY EvaluatedState, Zenon
<1>2. PICK S \in SUBSET KeySet :
        /\ Takes(state.table, new, S, found, Rings)
        /\ r.read => S = KeySet
        /\ ~r.read /\ plugin # "i2c" => S = {}
  BY Evaluation, Zenon
<1>3. r.read => \A k \in KeySet : Counted(k, r.s) = Counted(k, state)
  BY Evaluation, Zenon
<1>4. found \in [KeySet -> LineValues] /\ \A k \in KeySet : found[k] = Counted(k, r.s)
  BY FoundLines
<1>5. r.read \in BOOLEAN
  BY Evaluation, Zenon
<1>10. plugin = "uptime" =>
         \/ r = Kept(state)
         \/ ~r.read /\ r.s.nelem = -1
         \/ r.read /\ r.s.nelem = 3
  BY UptimeReads
<1>11. r = Kept(state) => ~r.read /\ r.s.nelem = state.nelem
  BY DEF Kept
<1> HIDE DEF r, new, found
<1> DEFINE X == {k \in S : found[k] # <<>>}
<1>6. Contents((state').table) = [k \in X \union DOMAIN old |-> IF k \in X THEN found[k] ELSE old[k]]
  <2>1. Contents(Sorted(new)) = [k \in X \union DOMAIN old |-> IF k \in X THEN found[k] ELSE old[k]]
    BY <1>2, <1>4, ContentsTaken, Zenon
  <2>2. Contents((state').table) = Contents(Sorted(new))
    BY <1>1, Zenon
  <2> QED
    BY <2>1, <2>2, Zenon
<1>7. \A k : Counted(k, state)' = Counted(k, r.s)
  BY <1>1 DEF Counted
<1>8. CASE r.read \/ plugin = "i2c"
  <2>1. \A k \in KeySet : Counted(k, r.s) = Counted(k, state)
    BY <1>3, <1>8 DEF Counted
  <2>2. \A k \in KeySet : Counted(k, state)' = Counted(k, state)
    BY <1>7, <2>1
  <2>3. X \in SUBSET KeySet /\ \A k \in X : Counted(k, state) # <<>> /\ Counted(k, state) = found[k]
    BY <1>4, <2>1
  <2> HIDE DEF X, old
  <2>4. Contents((state').table) = [k \in X \union DOMAIN old |-> IF k \in X THEN Counted(k, state) ELSE old[k]]
    BY <1>6, <2>3
  <2>5. ~Lost'
    BY <1>1, <1>8, <1>10, <1>11 DEF Lost
  <2> QED
    BY <2>2, <2>3, <2>4, <2>5 DEF old
<1>9. CASE ~(r.read \/ plugin = "i2c")
  <2>1. X = {}
    BY <1>2, <1>5, <1>9
  <2>2. old = [k \in DOMAIN old |-> old[k]]
    BY DEF Contents
  <2>3. X \union DOMAIN old = DOMAIN old /\ \A k : k \notin X
    BY <2>1
  <2> HIDE DEF X, old
  <2>4. [k \in X \union DOMAIN old |-> IF k \in X THEN found[k] ELSE old[k]] = [k \in DOMAIN old |-> old[k]]
    BY <2>3
  <2>5. Contents((state').table) = old
    BY <1>6, <2>2, <2>4, Zenon
  <2>6. CASE Lost' <=> Lost
    BY <2>5, <2>6 DEF old
  <2>7. CASE ~(Lost' <=> Lost)
    <3>1. plugin = "uptime" /\ plugin' = plugin
      BY <1>1, <2>7 DEF Lost
    <3>2. (state').nelem = -1 \/ (state').nelem = state.nelem
      BY <1>1, <1>9, <1>10, <1>11, <3>1
    <3>3. Lost'
      BY <2>7, <3>1, <3>2 DEF Lost
    <3>4. \A k \in KeySet : Counted(k, state)' = Counted(k, state)
      BY <1>1, <3>1 DEF Counted
    <3> QED
      BY <2>5, <3>1, <3>3, <3>4 DEF old
  <2> QED
    BY <2>6, <2>7
<1> QED
  BY <1>8, <1>9

StoreMatches ==
    /\ stored = Contents(state.table)
    /\ [k \in KeySet |-> Counted(k, state)] \in [KeySet -> LineValues]

\* What a plugin's table is for: it has the last line read of each key, loses none
\* and makes none up (hash_put(), hash_put_delta() and their callers); only what
\* uptime has read is lost when a read fails.
THEOREM TablesStore == AllSpec => StoreSpec
<1> DEFINE source == [k \in KeySet |-> Counted(k, state)]
           forgetful == plugin = "uptime"
           missing == plugin = "uptime" /\ state.nelem = -1
<1>1. AllInit => TablesInv
  BY TablesStart DEF AllInit
<1>2. TablesInv /\ [AllNext]_allVars => TablesInv'
  <2> SUFFICES ASSUME TablesInv, [AllNext]_allVars PROVE TablesInv'
    OBVIOUS
  <2>1. [Next]_vars
    BY TablesObserved
  <2> HIDE DEF source
  <2> QED
    BY <2>1, TablesStep
<1>3. TablesInv => StoreMatches
  BY StoredIs, SourceIs DEF TablesInv, StoreMatches
<1>4. TablesInv' => StoreMatches'
  BY <1>3, PTL
<1>5. AllInit => Store!Init
  <2> SUFFICES ASSUME AllInit PROVE Store!Init
    OBVIOUS
  <2>1. TablesInv /\ Init
    BY TablesStart DEF AllInit
  <2>2. stored = <<>>
    <3>1. state.table.items = <<>>
      BY <2>1 DEF Init, hash_create
    <3>2. \A k : ~Has(state.table, k)
      BY <3>1 DEF Has
    <3>3. Contents(state.table) = <<>>
      BY <3>2 DEF Contents
    <3> QED
      BY <1>3, <2>1, <3>3 DEF StoreMatches
  <2>3. missing = forgetful /\ forgetful \in BOOLEAN
    <3>1. state.nelem = -1
      BY <2>1 DEF Init
    <3> QED
      BY <3>1
  <2> QED
    BY <1>3, <2>1, <2>2, <2>3 DEF StoreMatches, Store!Init, LineValues
<1>6. TablesInv /\ TablesInv' /\ [AllNext]_allVars => [Store!Next]_<<source, stored, forgetful, missing>>
  <2> SUFFICES ASSUME TablesInv, TablesInv', [AllNext]_allVars PROVE [Store!Next]_<<source, stored, forgetful, missing>>
    OBVIOUS
  <2>1. [Next]_vars
    BY TablesObserved
  <2>2. stored' = Contents((state').table) /\ source' \in [KeySet -> LineValues]
    <3>1. Contents(state.table)' = Contents((state').table)
      BY DEF Contents, Has, NewestOf, ItemOf, Place, Newest
    <3>2. [KeySet -> LineValues]' = [KeySet -> LineValues]
      BY DEF KeySet, LineValues, Lines
    <3> QED
      BY <1>4, <3>1, <3>2 DEF StoreMatches
  <2>0. (missing <=> Lost) /\ (missing' <=> Lost')
    BY Zenon DEF Lost
  <2>3. ASSUME Contents((state').table) = Contents(state.table), missing' <=> missing, plugin' = plugin
        PROVE  Store!Next
    <3>1. stored' = stored /\ missing' = missing /\ forgetful' = forgetful
      <4>1. stored' = stored
        BY <1>3, <2>2, <2>3 DEF StoreMatches
      <4>2. missing' = missing
        BY <2>3
      <4>3. forgetful' = forgetful
        BY <2>3
      <4> QED
        BY <4>1, <4>2, <4>3
    <3>2. source' \in [KeySet -> Lines \union {<<0, 0>>}]
      BY <2>2 DEF LineValues
    <3>3. UNCHANGED <<stored, forgetful, missing>>
      BY <3>1, Zenon
    <3>4. Store!Change
      BY <3>2, <3>3, Zenon DEF Store!Change
    <3> QED
      BY <3>4, Zenon DEF Store!Next
  <2>4. ASSUME NEW key \in KeySet, Evaluate(key) PROVE Store!Next
    <3>1. TablesOK /\ plugin' = plugin
      BY <2>4 DEF TablesInv, Evaluate
    <3>4. forgetful' = forgetful
      BY <3>1
    <3>2. CASE Contents((state').table) = Contents(state.table) /\ (Lost' <=> Lost)
      BY <2>0, <2>3, <3>1, <3>2
    <3>5. CASE /\ Contents((state').table) = Contents(state.table) /\ plugin = "uptime" /\ Lost'
               /\ \A k \in KeySet : Counted(k, state)' = Counted(k, state)
      <4>1. stored' = stored
        BY <1>3, <2>2, <3>5 DEF StoreMatches
      <4>2. source' = source
        BY <3>5
      <4>3. missing' = TRUE
        BY <2>0, <3>5
      <4>4. forgetful
        BY <3>5
      <4>5. Store!Lose
        BY <3>4, <4>1, <4>2, <4>3, <4>4, Zenon DEF Store!Lose
      <4> QED
        BY <4>5, Zenon DEF Store!Next
    <3>3. CASE /\ ~Lost'
               /\ \A k \in KeySet : Counted(k, state)' = Counted(k, state)
               /\ \E X \in SUBSET KeySet :
                    /\ \A k \in X : Counted(k, state) # <<>>
                    /\ Contents((state').table) =
                         [k \in X \union DOMAIN Contents(state.table) |->
                            IF k \in X THEN Counted(k, state) ELSE Contents(state.table)[k]]
      <4>2. source' = source
        BY <3>3
      <4>3. PICK X \in SUBSET KeySet :
              /\ \A k \in X : source[k] # <<>>
              /\ Contents((state').table) =
                   [k \in X \union DOMAIN Contents(state.table) |->
                      IF k \in X THEN source[k] ELSE Contents(state.table)[k]]
        BY <3>3
      <4>4. stored' = [k \in X \union DOMAIN stored |-> IF k \in X THEN source[k] ELSE stored[k]]
        BY <1>3, <2>2, <4>3 DEF StoreMatches
      <4>6. missing' = FALSE
        BY <2>0, <3>3
      <4>5. Store!Read(X)
        BY <3>4, <4>2, <4>3, <4>4, <4>6, Zenon DEF Store!Read
      <4> QED
        BY <4>5 DEF Store!Next
    <3> QED
      BY <2>4, <3>1, <3>2, <3>3, <3>5, EvaluateStores, Zenon
  <2>5. ASSUME state' = state, plugin' = plugin PROVE Store!Next
    BY <2>3, <2>5
  <2>6. ASSUME NEW k \in Moving, Change(k) PROVE state' = state /\ plugin' = plugin
    BY <2>6 DEF Change
  <2> QED
    BY <2>1, <2>4, <2>5, <2>6 DEF Next, Tick, Toggle, SetBack, vars
<1> QED BY <1>1, <1>2, <1>5, <1>6, PTL DEF AllSpec, StoreSpec, Store!Spec
=============================================================================
