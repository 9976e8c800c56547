---------------------------- MODULE ProcFiles ----------------------------
(* The plugins that read /proc, /sys or a device into a table of hash.c when
   one of their functions is evaluated, and answer from the table while it is
   young.  One plugin is observed at a time.  A file is a function from its
   keys to the columns of their line, <<>> if it has none.  A tick of "now" is
   a millisecond; the caching times of the plugins are parameters. *)
EXTENDS HashTable

CONSTANTS
    Plugins,        \* the plugins of this model
    Keys,           \* the keys of the file, in the order of its lines
    CpuKeys,        \* those that count the time of the processor, "idle" the last
    MaxValue,       \* bound: a counter wraps behind it
    MaxNow,         \* bound of the clock
    Ms10, Ms100, Ms250, Ms1000  \* caching times

KeySet == Range(Keys)
TablePlugins == {"cpuinfo", "meminfo", "diskstats", "netdev", "proc_stat", "seti", "isdn",
                 "cps", "dvb", "apm", "ppp", "i2c", "loadavg", "uptime"}

\* The keys of a file differ, also when their case is ignored.
ASSUME TablesAssumption ==
    /\ Plugins \subseteq TablePlugins
    /\ Keys \in Seq(STRING \ {""}) /\ Keys # <<>>
    /\ \A i, j \in DOMAIN Keys : Fold(Keys[i]) = Fold(Keys[j]) => i = j
    /\ CpuKeys \in Seq(STRING \ {"busy"}) /\ CpuKeys # <<>>
    /\ DELTA_SLOTS \in Nat \ {0} /\ Scale \in Nat \ {0}
    /\ MaxValue \in Nat /\ MaxNow \in Nat /\ MaxNow > Ms1000 + 1 /\ MaxNow >= 4
    /\ {Ms10, Ms100, Ms250, Ms1000} \subseteq Nat
Lines == {<<>>} \union {<<v, MaxValue - v>> : v \in 0 .. MaxValue}

VARIABLES
    plugin,     \* the plugin
    now,        \* gettimeofday()
    file,       \* the file it reads
    readable,   \* whether open() and read() succeed
    enosys,     \* the numbers the driver of the frontend does not implement
    state,      \* table, descriptor and flags of the plugin
    answer,     \* the last answer, and whether the file could be read then
    changed,    \* when each line of the file changed last
    samples,    \* the last lines read of each key, newest first, with their times
    stepped     \* the clock has been set back

vars == <<plugin, now, file, readable, enosys, state, answer, changed, samples, stepped>>

\* How a read ends: the table is young enough, the read failed, or was made.
Kept(s) == [s |-> s, ok |-> TRUE, read |-> FALSE]
Failed(s) == [s |-> s, ok |-> FALSE, read |-> FALSE]
Done(s) == [s |-> s, ok |-> TRUE, read |-> TRUE]

\* "reread every ... msec only"
Cached(s, w) == hash_age(s.table, now) \in 1 .. w

\* The lines of the keys that have one, put into the table one after the other,
\* with or without delta processing.
Put(tab, key, line, delta) ==
    IF line = <<>> THEN tab
    ELSE IF delta THEN hash_put_delta(tab, key, line, now) ELSE hash_put(tab, key, line, now)
PutLines(tab, lines, delta) ==
    LET after[n \in 0 .. Len(Keys)] ==
          IF n = 0 THEN tab ELSE Put(after[n - 1], Keys[n], lines[Keys[n]], delta)
    IN after[Len(Keys)]
ReadAll(s) == [s EXCEPT !.table = PutLines(@, file, FALSE)]
ReadAllDelta(s) == [s EXCEPT !.table = PutLines(@, file, TRUE)]

\* Files that are opened once and rewound: the descriptor is -2 until then.
OpenOnce(s, w, read) ==
    IF Cached(s, w) THEN Kept(s)
    ELSE IF s.fd = -2 /\ ~readable THEN Failed(s)
    ELSE Done([read EXCEPT !.fd = 3])

parse_cpuinfo(s) == OpenOnce(s, Ms1000, ReadAll(s))
parse_meminfo_Once_Bug(s) == IF s.fd = 3 THEN Kept(s) ELSE OpenOnce(s, Ms10, ReadAll(s))
parse_meminfo(s) == OpenOnce(s, Ms10, ReadAll(s))
parse_diskstats(s) == OpenOnce(s, Ms10, ReadAllDelta(s))
parse_netdev(s) == OpenOnce(s, Ms10, ReadAllDelta(s))
parse_proc_stat(s) == OpenOnce(s, Ms10, ReadAllDelta(s))

parse_seti_Fatal_Bug(s) ==
    IF s.fd = -1 THEN Failed(s)
    ELSE IF Cached(s, Ms100) THEN Kept(s)
    ELSE IF readable THEN Done(ReadAll(s)) ELSE Failed([s EXCEPT !.fd = -1])

\* A file that is opened each time; without an entry for its directory in the
\* configuration (fd -1 here) the plugin has given up.
parse_seti(s) ==
    IF s.fd = -1 THEN Failed(s)
    ELSE IF Cached(s, Ms100) THEN Kept(s)
    ELSE IF readable THEN Done(ReadAll(s)) ELSE Failed(s)

parse_isdninfo(s) ==
    IF Cached(s, Ms10) THEN Kept(s)
    ELSE IF readable THEN Done(ReadAll(s)) ELSE Failed(s)

\* The frontend: a number that cannot be had is 0, and not asked for again if the
\* driver does not implement it.
get_dvb_stats(s) ==
    LET gone == {k \in KeySet : file[k] = <<>>}
        lines == [k \in KeySet |-> IF k \in s.off \union gone THEN <<0, 0>> ELSE file[k]]
        off == s.off \union (gone \intersect enosys)
    IN IF Cached(s, Ms1000) THEN Kept(s)
       ELSE IF ~readable THEN Failed(s)
       ELSE Done([s EXCEPT !.off = off, !.table = PutLines(@, lines, FALSE)])

parse_proc_apm_Zero_Bug(s) ==
    IF Cached(s, Ms10) THEN Kept(s)
    ELSE IF s.fd = 0 \/ ~readable THEN Failed([s EXCEPT !.fd = 0])
    ELSE Done(ReadAll([s EXCEPT !.fd = 3]))

\* /proc/apm: after one failure the descriptor stays -1, and lseek() fails.
parse_proc_apm(s) ==
    IF Cached(s, Ms10) THEN Kept(s)
    ELSE IF s.fd = -1 \/ ~readable THEN Failed([s EXCEPT !.fd = -1])
    ELSE Done(ReadAll([s EXCEPT !.fd = 3]))

\* The transfer rates of ISDN give up likewise.
get_cps(s) ==
    IF Cached(s, Ms10) THEN Kept(s)
    ELSE IF s.fd = -1 \/ ~readable THEN Failed([s EXCEPT !.fd = -1])
    ELSE Done(ReadAllDelta([s EXCEPT !.fd = 3]))

\* PPP: a unit that does not answer has counted nothing, and none answers when
\* there is no socket.
get_ppp_stats(s) ==
    LET fd == IF s.fd # -2 THEN s.fd ELSE IF readable THEN 3 ELSE -1
        stats == [k \in KeySet |-> IF fd # -1 /\ file[k] # <<>> THEN file[k] ELSE <<0, 0>>]
    IN IF Cached(s, Ms10) THEN Kept(s)
       ELSE IF s.fd = -2 /\ fd = -1 THEN Failed([s EXCEPT !.fd = -1])
       ELSE Done([s EXCEPT !.fd = fd, !.table = PutLines(@, stats, TRUE)])

\* Sensors: one file per key, and what was read before stands when it fails.
parse_i2c_sensors_sysfs(s, key) ==
    IF readable THEN [s EXCEPT !.table = Put(@, key, file[key], FALSE)] ELSE s
my_i2c_sensors(s, key) ==
    LET age == hash_age_key(s.table, key, now)
        t == IF age < 0 \/ age > Ms250 THEN parse_i2c_sensors_sysfs(s, key) ELSE s
    IN IF hash_lookup(Sorted(t.table), key) = {} THEN Failed(t) ELSE Kept(t)

\* loadavg and uptime keep the last values in variables of their own (here the
\* table), and read again in the same millisecond or when they are too old.
\* A failure leaves nelem of loadavg at -1, and it reads again.  That of uptime
\* overwrites the value with -1 (here nelem, too), but uptime goes by the descriptor
\* and the age, that of the last good value: it may answer -1 while that is young.
Stale(s, w) == LET age == hash_age(s.table, now) IN age = 0 \/ age > w
getloadavg(s) ==
    IF s.fd = -1 \/ ~readable
    THEN Failed([s EXCEPT !.fd = IF @ = -2 THEN -1 ELSE @, !.nelem = -1])
    ELSE Done(ReadAll([s EXCEPT !.fd = 3, !.nelem = 3]))
my_loadavg(s) == IF s.nelem = -1 \/ Stale(s, Ms10) THEN getloadavg(s) ELSE Kept(s)
getuptime(s) ==
    IF s.fd = -1 \/ ~readable
    THEN Failed([s EXCEPT !.fd = IF @ = -2 THEN -1 ELSE @, !.nelem = -1])
    ELSE Done(ReadAll([s EXCEPT !.fd = 3, !.nelem = 3]))
my_uptime(s) == IF s.fd = -2 \/ Stale(s, Ms100) THEN getuptime(s) ELSE Kept(s)

\* The time of the first kinds of work, their number being n.
CpuTime(tab, key, delay) == hash_get_delta(tab, key, -1, delay)
CpuTotal(tab, n, delay) ==
    LET sum[i \in 0 .. n] ==
          IF i = 0 THEN 0 ELSE sum[i - 1] + CpuTime(tab, CpuKeys[i], delay)
    IN sum[n]

my_cpu_NoIdle_Bug(tab, key, delay) ==
    LET total == CpuTotal(tab, Len(CpuKeys) - 1, delay)
        value == IF key = "busy" THEN total ELSE CpuTime(tab, key, delay)
    IN IF total > 0 THEN (100 * value) \div total ELSE 0

\* Percentage of the time one kind of work took; "busy" is all but the last.
my_cpu(tab, key, delay) ==
    LET total == CpuTotal(tab, Len(CpuKeys), delay)
        value == IF key = "busy" THEN total - CpuTime(tab, Last(CpuKeys), delay)
                 ELSE CpuTime(tab, key, delay)
    IN IF total > 0 THEN (100 * value) \div total ELSE 0

\* The function of the plugin: it reads, if need be, and looks the key up.
Read(s, key) ==
    CASE plugin = "cpuinfo" -> parse_cpuinfo(s)
      [] plugin = "meminfo" -> parse_meminfo(s)
      [] plugin = "diskstats" -> parse_diskstats(s)
      [] plugin = "netdev" -> parse_netdev(s)
      [] plugin = "proc_stat" -> parse_proc_stat(s)
      [] plugin = "seti" -> parse_seti(s)
      [] plugin = "isdn" -> parse_isdninfo(s)
      [] plugin = "cps" -> get_cps(s)
      [] plugin = "dvb" -> get_dvb_stats(s)
      [] plugin = "apm" -> parse_proc_apm(s)
      [] plugin = "ppp" -> get_ppp_stats(s)
      [] plugin = "i2c" -> my_i2c_sensors(s, key)
      [] plugin = "loadavg" -> my_loadavg(s)
      [] plugin = "uptime" -> my_uptime(s)

\* Plugins that answer with numbers from hash_get_regex() or hash_get_delta();
\* the delay is 0 here.
Counting == {"diskstats", "netdev", "cps", "ppp"}
Looked(s, key) ==
    IF plugin = "uptime" /\ s.nelem = -1 THEN <<-1>>
    ELSE IF plugin \in Counting
    THEN <<hash_get_regex(s.table, {key}, 0, 0) \div Scale>>
    ELSE hash_get(s.table, key, -1)

----------------------------------------------------------------------------
NoAnswer == [key |-> "", value |-> <<>>, ok |-> TRUE, readable |-> TRUE]

Init ==
    /\ plugin \in Plugins
    /\ now = Ms1000 + 1
    /\ file = [k \in KeySet |-> <<0, MaxValue>>]
    /\ readable \in BOOLEAN
    /\ enosys \in IF plugin = "dvb" THEN SUBSET KeySet ELSE {{}}
    /\ state = [table |-> hash_create, fd |-> -2, nelem |-> -1, off |-> {}]
    /\ answer = NoAnswer
    /\ changed = [k \in KeySet |-> 0]
    /\ samples = [k \in KeySet |-> <<>>]
    /\ stepped = FALSE

\* What a plugin finds for a key when it reads.
Counted(key, s) ==
    IF \/ plugin = "ppp" /\ (s.fd = -1 \/ file[key] = <<>>)
       \/ plugin = "dvb" /\ (key \in s.off \/ file[key] = <<>>)
    THEN <<0, 0>> ELSE file[key]
Sampled(key, r) ==
    IF r.read /\ Counted(key, r.s) # <<>>
    THEN LET all == <<[value |-> Counted(key, r.s), at |-> now]>> \o samples[key]
         IN SubSeq(all, 1, Min({Len(all), DELTA_SLOTS}))
    ELSE samples[key]

\* A widget evaluates the function of the plugin; lookups leave the table sorted.
Evaluate(key) ==
    LET r == Read(state, key)
        s == [r.s EXCEPT !.table = Sorted(@)]
    IN /\ state' = s
       /\ answer' = [key |-> key, ok |-> r.ok, readable |-> readable,
                     value |-> IF r.ok THEN Looked(s, key) ELSE <<>>]
       /\ samples' = IF plugin \in Counting \union {"proc_stat"}
                     THEN [k \in KeySet |-> Sampled(k, r)] ELSE samples
       /\ UNCHANGED <<plugin, now, file, readable, enosys, changed, stepped>>

\* The last tick, one less for the plugins with rings of slots (a bound).
Horizon == IF plugin \in Counting \union {"proc_stat"} THEN MaxNow - 1 ELSE MaxNow

\* Time passes, and the source fails or can be read; the clock may be set
\* back once, at the end (a bound).
Tick ==
    /\ now < Horizon
    /\ now' = now + 1
    /\ readable' \in BOOLEAN
    /\ answer' = NoAnswer
    /\ UNCHANGED <<plugin, file, enosys, state, changed, samples, stepped>>

\* The source fails or comes back within a tick.
Toggle ==
    /\ readable' = ~readable
    /\ answer' = NoAnswer
    /\ UNCHANGED <<plugin, now, file, enosys, state, changed, samples, stepped>>

SetBack ==
    /\ ~stepped
    /\ now = Horizon
    /\ now' = now - 2
    /\ stepped' = TRUE
    /\ answer' = NoAnswer
    /\ UNCHANGED <<plugin, file, readable, enosys, state, changed, samples>>

\* A counter of the system counts or wraps, an interface goes or comes: one
\* change in a tick, and for most plugins of the first key only (bounds).
Moving == IF plugin = "proc_stat" THEN KeySet ELSE {Keys[1]}
Change(key) ==
    /\ \A k \in KeySet : changed[k] < now
    /\ file' = [file EXCEPT ![key] =
                  IF @ = <<>> THEN <<0, MaxValue>>
                  ELSE IF @[1] = MaxValue THEN <<>> ELSE <<@[1] + 1, @[2] - 1>>]
    /\ changed' = [changed EXCEPT ![key] = now]
    /\ answer' = NoAnswer
    /\ UNCHANGED <<plugin, now, readable, enosys, state, samples, stepped>>

Next ==
    \/ \E k \in KeySet : Evaluate(k)
    \/ \E k \in Moving : Change(k)
    \/ Tick \/ Toggle \/ SetBack

Spec == Init /\ [][Next]_vars

----------------------------------------------------------------------------
\* Every slot in use holds a line at a time that has been.
ProcTypeOK ==
    /\ plugin \in Plugins /\ now \in 1 .. MaxNow
    /\ file \in [KeySet -> Lines]
    /\ state.fd \in {-2, -1, 3} /\ state.off \subseteq KeySet
    /\ \A i \in DOMAIN state.table.items :
         LET item == state.table.items[i]
         IN /\ item.key \in KeySet /\ item.index \in 0 .. item.nSlot - 1
            /\ \A j \in 0 .. item.nSlot - 1 : item.slot[j].value \in Lines \union {<<0, 0>>}

\* hash_get_delta() on the ring of slots gives the rate that the lines read of
\* the key give: between the newest and the latest one that is older than the
\* delay, or the oldest that is kept; never a negative one, though a counter
\* wraps or the clock is set back.
Rate(key, column, delay) ==
    LET h == samples[key]
        before(i) == h[i].at < h[1].at - delay
        older == {i \in 2 .. Len(h) : before(i)}
        i == IF older = {} THEN Len(h) ELSE Min(older)
        dv == h[1].value[column + 1] - h[i].value[column + 1]
        dt == h[1].at - h[i].at
    IN IF Len(h) > 1 /\ dt > 0 /\ dv >= 0 THEN (Scale * dv) \div dt ELSE 0
DeltaIsRate ==
    plugin \in Counting \union {"proc_stat"} =>
        \A key \in KeySet, column \in 0 .. 1, delay \in 1 .. 3 :
            hash_get_delta(state.table, key, column, delay) = Rate(key, column, delay)

\* An answer is the line of the file as it is, or as it was within the time the
\* plugin may keep it: the caches of the plugins never hold a line for longer.
\* Exempt are lines that are gone, what was set aside, a clock set back, and the -1
\* of uptime when it read twice in one millisecond and failed the second time.
KeepTime ==
    CASE plugin \in {"cpuinfo", "dvb"} -> Ms1000
      [] plugin \in {"seti", "uptime"} -> Ms100
      [] plugin = "i2c" -> Ms250
      [] OTHER -> Ms10
Shown(key) == IF plugin \in Counting THEN <<file[key][1]>> ELSE file[key]
FreshAnswer ==
    answer.key # "" /\ answer.ok /\ answer.readable /\ ~stepped /\ state.fd # -1
    /\ file[answer.key] # <<>> /\ answer.key \notin state.off
    /\ now - changed[answer.key] > KeepTime
        => \/ answer.value = Shown(answer.key)
           \/ plugin = "uptime" /\ answer.value = <<-1>> /\ hash_age(state.table, now) <= Ms100

\* When the source can be read again, the next evaluation gives an answer: a
\* failure is not remembered, but by the plugins that drop their descriptor
\* (apm, the ISDN rates, loadavg, uptime).
Recovers ==
    answer.key # "" /\ answer.readable /\ ~answer.ok
        => \/ plugin \in {"apm", "cps", "loadavg", "uptime"} /\ state.fd = -1
           \/ plugin = "i2c" /\ file[answer.key] = <<>>

\* The shares of the processor's time are percentages, and "busy" and "idle"
\* share what there is.
CpuShares ==
    plugin = "proc_stat" =>
        \A delay \in 1 .. 3 :
            LET share(k) == my_cpu(state.table, k, delay)
            IN /\ \A k \in Range(CpuKeys) \union {"busy"} : share(k) \in 0 .. 100
               /\ share("busy") + share(Last(CpuKeys)) \in {0, 99, 100}

\* What the plugin's table is for: the last line read of each key; those of uptime
\* cannot be told after a failure until it was read again.
stored == [k \in {state.table.items[i].key : i \in DOMAIN state.table.items} |->
             hash_get(state.table, k, -1)]
Store == INSTANCE LineStore WITH store <- stored, Lines <- Lines \union {<<0, 0>>},
             source <- [k \in KeySet |-> Counted(k, state)],
             forgetful <- plugin = "uptime",
             lost <- plugin = "uptime" /\ state.nelem = -1
StoreSpec == Store!Spec

\* An evaluation gives an answer whenever there is one, and none that is too
\* old; every rate is that of the lines read, the seven of the processor together too.
AnswersHold == ProcTypeOK /\ FreshAnswer /\ Recovers /\ DeltaIsRate /\ CpuShares
=============================================================================
