------------------------------- MODULE Kvv -------------------------------
(* plugin_kvv.c: the next departures of a station.  A client, forked when one of
   the functions kvv::... is evaluated first, asks a server again and again and
   writes what it answers into a memory it shares with the program; a semaphore
   keeps the two apart.  A page is the sequence of its table cells, which come
   as line, stop and time of each departure; how they are cut out of the text,
   and how names are shortened, is left out. *)
EXTENDS Integers

CONSTANTS
    MAX_LINES,  \* departures that are kept
    Sizes,      \* numbers of departures on a page
    MaxPages    \* bound: pages differ until this one

VARIABLES
    at,         \* the program: "idle", "lock", "read", "crashed", "exit"
    request,      \* the function that is evaluated and its index
    response,     \* what it answered
    initialized,
    shm,        \* the shared memory, NoMemory if there is none
    mutex,      \* the semaphore: who has it
    client,     \* where the client is
    scan,       \* its variables while it reads, and which cell of the page is next
    page        \* the last page that was stored as a whole

vars == <<at, request, response, initialized, shm, mutex, client, scan, page>>

\* <<>> is an empty text and the time -1.
NoEntry == [line |-> <<>>, station |-> <<>>, time |-> <<>>]
NoMemory == [entries |-> -1]
Empty == [entries |-> 0, error |-> 0, entry |-> [i \in 1 .. MAX_LINES |-> NoEntry]]

\* Departure i of page p, in three cells, of which the time has no class.
Departure(p, i) == [line |-> <<"line", p.number, i>>, station |-> <<"stop", p.number, i>>,
                    time |-> <<"time", p.number, i>>]
Pages == {p \in [number : 1 .. MaxPages, size : Sizes, error : {0, 1}] : p.error = 1 => p.size = 0}
NoPage == [number |-> 0, size |-> 0, error |-> 0]
Begin(p) == [page |-> p, i |-> 1, class |-> "lineNum", last_was_stop |-> 0, overflow |-> 0]
NextClass(class) == CASE class = "lineNum" -> "stopname" [] class = "stopname" -> "none" [] OTHER -> "lineNum"

----------------------------------------------------------------------------
Init ==
    /\ at = "idle" /\ request = <<"", 0>> /\ response = <<>> /\ initialized = FALSE
    /\ shm = NoMemory /\ mutex = "none" /\ client = "none"
    /\ scan = Begin(NoPage) /\ page = NoPage

ClientVars == <<client, scan, page>>

\* kvv_fork() makes the memory and the client, once: whether that failed is
\* known in the first call only.
kvv_fork(memory, forked) ==
    /\ initialized' = TRUE
    /\ shm' = IF initialized THEN shm ELSE IF memory THEN Empty ELSE NoMemory
    /\ client' = IF ~initialized /\ memory /\ forked THEN "open" ELSE client
Evaluate(fn, index) ==
    /\ at = "idle"
    /\ request' = <<fn, index>>
    /\ \E memory, forked \in BOOLEAN :
         /\ kvv_fork(memory, forked)
         /\ IF initialized \/ (memory /\ forked)
            THEN at' = "lock" /\ UNCHANGED response
            ELSE response' = <<>> /\ UNCHANGED at
    /\ UNCHANGED <<mutex, scan, page>>

\* mutex_lock(), and the first access to the memory.
Lock ==
    /\ at = "lock"
    /\ IF shm = NoMemory THEN at' = "crashed" /\ UNCHANGED mutex
       ELSE mutex = "none" /\ mutex' = "program" /\ at' = "read"
    /\ UNCHANGED <<request, response, initialized, shm, ClientVars>>

\* What the functions read of entry i, counted from 1.
kvv_time(table, i) == IF i <= table.entries THEN table.entry[i].time ELSE <<>>
kvv_line(table, i) == IF i <= table.entries THEN table.entry[i].line ELSE <<>>
kvv_station(table, i) ==
    IF table.error = 1 /\ i = 1 THEN <<"Server Err">>
    ELSE IF i <= table.entries THEN table.entry[i].station ELSE <<>>
Value(table, fn, i) ==
    CASE fn = "line" -> kvv_line(table, i) [] fn = "station" -> kvv_station(table, i)
      [] OTHER -> kvv_time(table, i)
ReadAndUnlock_Return_Bug ==
    /\ at = "read"
    /\ response' = Value(shm, request[1], request[2])
    /\ mutex' = IF request[2] <= shm.entries THEN "none" ELSE mutex
    /\ at' = "idle"
    /\ UNCHANGED <<request, initialized, shm, ClientVars>>
ReadAndUnlock ==
    /\ at = "read"
    /\ response' = Value(shm, request[1], request[2])
    /\ mutex' = "none" /\ at' = "idle"
    /\ UNCHANGED <<request, initialized, shm, ClientVars>>

\* plugin_exit_kvv(): the client is killed and the memory removed.
plugin_exit_kvv ==
    /\ at = "idle"
    /\ at' = "exit" /\ shm' = NoMemory /\ mutex' = "none"
    /\ client' = IF client = "none" THEN "none" ELSE "dead"
    /\ UNCHANGED <<request, response, initialized, scan, page>>

----------------------------------------------------------------------------
\* The client connects, for a page and with its cookie for another one.  When
\* it cannot, the client ends, and nobody starts another.
ProgramVars == <<at, request, response, initialized>>
http_open ==
    /\ client = "open"
    /\ client' \in {"post", "dead"}
    /\ UNCHANGED <<ProgramVars, shm, mutex, scan, page>>

\* The second answer comes, or nothing; an error page has no cells.
Receive ==
    /\ client = "post"
    /\ \/ client' = "sleep" /\ UNCHANGED scan
       \/ \E p \in Pages :
            /\ p.number = IF page.number < MaxPages THEN page.number + 1 ELSE page.number
            /\ client' = "wait" /\ scan' = Begin(p)
    /\ UNCHANGED <<ProgramVars, shm, mutex, page>>

\* The entries stay, but none counts.
ClientLocks ==
    /\ client = "wait" /\ mutex = "none"
    /\ client' = "scan" /\ mutex' = "client"
    /\ shm' = [shm EXCEPT !.entries = 0, !.error = scan.page.error]
    /\ UNCHANGED <<ProgramVars, scan, page>>

\* One cell after the other: a line begins an entry, its stop and its time go
\* to the last entry, unless the line was one too many.
Scanned_Overflow_Bug(table, d) ==
    LET timed == IF scan.last_was_stop = 1 THEN [table EXCEPT !.entry[table.entries].time = d.time] ELSE table
    IN CASE scan.class = "lineNum" /\ table.entries < MAX_LINES ->
              [timed EXCEPT !.entries = @ + 1, !.entry[table.entries + 1] = [NoEntry EXCEPT !.line = d.line]]
         [] scan.class = "stopname" -> [timed EXCEPT !.entry[table.entries].station = d.station]
         [] OTHER -> timed
Scanned(table, d) ==
    LET timed == IF scan.last_was_stop = 1 /\ scan.overflow = 0
                 THEN [table EXCEPT !.entry[table.entries].time = d.time] ELSE table
    IN CASE scan.class = "lineNum" /\ table.entries < MAX_LINES ->
              [timed EXCEPT !.entries = @ + 1, !.entry[table.entries + 1] = [NoEntry EXCEPT !.line = d.line]]
         [] scan.class = "stopname" /\ scan.overflow = 0 ->
              [timed EXCEPT !.entry[table.entries].station = d.station]
         [] OTHER -> timed
ClientScans ==
    /\ client = "scan" /\ scan.i <= scan.page.size
    /\ shm' = Scanned(shm, Departure(scan.page, scan.i))
    /\ scan' = [scan EXCEPT !.i = IF scan.class = "none" THEN @ + 1 ELSE @,
                            !.class = NextClass(@),
                            !.last_was_stop = IF scan.class = "stopname" THEN 1 ELSE 0,
                            !.overflow = IF scan.class = "lineNum" /\ shm.entries = MAX_LINES THEN 1 ELSE @]
    /\ UNCHANGED <<ProgramVars, mutex, client, page>>

ClientUnlocks ==
    /\ client = "scan" /\ scan.i > scan.page.size
    /\ client' = "sleep" /\ mutex' = "none"
    /\ page' = scan.page /\ scan' = Begin(NoPage)
    /\ UNCHANGED <<ProgramVars, shm>>
Sleep ==
    /\ client = "sleep"
    /\ client' = "open"
    /\ UNCHANGED <<ProgramVars, shm, mutex, scan, page>>

\* The client is killed, or dies of what it reads: anywhere.
ClientDies ==
    /\ client \notin {"none", "dead"} /\ at # "exit"
    /\ client' = "dead"
    /\ UNCHANGED <<ProgramVars, shm, mutex, scan, page>>

Program == Lock \/ ReadAndUnlock
Client == http_open \/ Receive \/ ClientLocks \/ ClientScans \/ ClientUnlocks \/ Sleep
Next ==
    \/ \E fn \in {"line", "station", "time"}, i \in 1 .. MAX_LINES : Evaluate(fn, i)
    \/ Program \/ plugin_exit_kvv \/ Client \/ ClientDies

\* The processes run, and the semaphore serves who has waited for long.
Spec == Init /\ [][Next]_vars /\ SF_vars(Program) /\ WF_vars(Client)

----------------------------------------------------------------------------
\* Whoever gets the semaphore finds one page as a whole, its first departures
\* in their order, each with its own stop and time, never a part of the next.
Shows(table, p) ==
    /\ table.entries = IF p.size < MAX_LINES THEN p.size ELSE MAX_LINES
    /\ table.error = p.error
    /\ \A i \in 1 .. table.entries : table.entry[i] = Departure(p, i)
WholePages == shm # NoMemory /\ mutex # "client" => Shows(shm, page)

\* An evaluation returns, unless the client died with the semaphore, or there
\* is no memory and the program ends.
Returns == at \in {"lock", "read"} ~> at \in {"idle", "crashed"} \/ (client = "dead" /\ mutex = "client")
=============================================================================
