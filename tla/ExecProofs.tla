----------------------------- MODULE ExecProofs -----------------------------
(***************************************************************************)
(* Theorems about the exec plugin for every value of the constants: what   *)
(* the semaphore of a thread entry protects, and what is left of it when   *)
(* semget() fails, a child is killed or a signal breaks a wait.            *)
(***************************************************************************)
EXTENDS Exec, Loops, FiniteSetTheorems, TLAPS

(***************************************************************************)
(* One entry of the thread table                                           *)
(***************************************************************************)
Count(b) == IF b THEN 1 ELSE 0

ChildHolds(t) == t.child \in {"write1", "write2", "unlock"}

\* The main process has locked the mutex of entry i, or believes so after an
\* interrupted wait.
MainHolds(i) == main \in {"copy1", "copy2", "unlock"} /\ i = thread

\* What holds of an entry t while the main process holds it or not (m) and was
\* interrupted or not (g): a mutex has one owner, or two after a signal; nobody
\* but an owner finds a half-written buffer; and a released mutex with a
\* half-written buffer does not exist, since a child killed in the middle of
\* strncpy() never releases it.
EntryOK(t, m, g) ==
  /\ t \in ThreadEntry
  /\ t.mutex => t.sem + Count(ChildHolds(t)) + Count(m) <= IF g THEN 2 ELSE 1
  /\ ~t.mutex => t.sem = 1
  /\ t.ret.second <= t.runs
  /\ t.child = "write2" => t.ret.first = t.runs
  /\ t.child = "unlock" => t.ret.first = t.runs /\ t.ret.second = t.runs
  /\ ~g /\ t.mutex /\ (t.sem > 0 \/ m) => t.ret.first = t.ret.second

\* What no step of the child takes away from the main process.
Onward(t, s, m, g) ==
  /\ s.key = t.key
  /\ s.mutex = t.mutex
  /\ t.ret.second <= s.ret.second
  /\ ~g /\ t.mutex /\ m => s.ret = t.ret

LEMMA EntryFields ==
  ASSUME NEW t \in ThreadEntry
  PROVE  /\ t.key \in Keys /\ t.mutex \in BOOLEAN /\ t.sem \in 0..2
         /\ t.ret \in Halves /\ t.ret.first \in Runs /\ t.ret.second \in Runs
         /\ t.runs \in Runs
         /\ t.child \in {"run", "lock", "write1", "write2", "unlock", "dead"}
  BY DEF ThreadEntry, Halves

LEMMA KilledProperty ==
  ASSUME NEW t, NEW m \in BOOLEAN, NEW g \in BOOLEAN, EntryOK(t, m, g)
  PROVE  EntryOK(Killed(t), m, g) /\ Onward(t, Killed(t), m, g)
<1> DEFINE s == Killed(t)
<1>1. t \in ThreadEntry
  BY DEF EntryOK
<1>2. /\ s \in ThreadEntry
      /\ s.key = t.key /\ s.mutex = t.mutex /\ s.child = "dead" /\ s.sem = t.sem
      /\ s.runs = t.runs /\ s.ret = t.ret
  BY <1>1 DEF Killed, ThreadEntry
<1> HIDE DEF s
<1>3. t.sem \in Nat /\ t.ret.second \in Nat
  BY <1>1, EntryFields DEF Runs
<1>4. t.mutex => s.sem + Count(ChildHolds(s)) + Count(m) <= IF g THEN 2 ELSE 1
  BY <1>2, <1>3 DEF EntryOK, ChildHolds, Count
<1>5. EntryOK(s, m, g) /\ Onward(t, s, m, g)
  BY <1>2, <1>3, <1>4 DEF EntryOK, Onward
<1> QED
  BY <1>5 DEF s

LEMMA TakenProperty ==
  ASSUME NEW t, NEW g \in BOOLEAN, EntryOK(t, FALSE, g), t.mutex => t.sem > 0
  PROVE  /\ EntryOK(Taken(t), TRUE, g)
         /\ Taken(t).key = t.key /\ Taken(t).mutex = t.mutex /\ Taken(t).ret = t.ret
<1>1. t \in ThreadEntry /\ t.sem \in 0..2 /\ t.mutex \in BOOLEAN
  BY EntryFields DEF EntryOK
<1>2. CASE t.mutex
  <2> DEFINE s == [t EXCEPT !.sem = t.sem - 1]
  <2>0. t.sem - 1 \in 0..2
    BY <1>1, <1>2
  <2>1. /\ s \in ThreadEntry
        /\ s.key = t.key /\ s.mutex = t.mutex /\ s.child = t.child /\ s.sem = t.sem - 1
        /\ s.runs = t.runs /\ s.ret = t.ret
    BY <1>1, <2>0 DEF ThreadEntry
  <2>2. Taken(t) = s
    BY <1>2 DEF Taken
  <2> HIDE DEF s
  <2>3. s.sem + Count(ChildHolds(s)) + Count(TRUE) <= IF g THEN 2 ELSE 1
    BY <1>1, <1>2, <2>1 DEF EntryOK, ChildHolds, Count
  <2> QED
    BY <1>2, <2>1, <2>2, <2>3 DEF EntryOK
<1>3. CASE ~t.mutex
  <2>1. Taken(t) = t
    BY <1>3 DEF Taken
  <2> QED
    BY <1>3, <2>1 DEF EntryOK
<1> QED
  BY <1>1, <1>2, <1>3

LEMMA GivenProperty ==
  ASSUME NEW t, NEW g \in BOOLEAN, EntryOK(t, TRUE, g)
  PROVE  /\ EntryOK(Given(t), FALSE, g)
         /\ Given(t).key = t.key /\ Given(t).mutex = t.mutex /\ Given(t).ret = t.ret
<1>1. t \in ThreadEntry /\ t.sem \in 0..2 /\ t.mutex \in BOOLEAN
  BY EntryFields DEF EntryOK
<1>2. CASE t.mutex
  <2> DEFINE s == [t EXCEPT !.sem = t.sem + 1]
  <2>0. t.sem + 1 \in 0..2
    BY <1>1, <1>2 DEF EntryOK, Count, ChildHolds
  <2>1. /\ s \in ThreadEntry
        /\ s.key = t.key /\ s.mutex = t.mutex /\ s.child = t.child /\ s.sem = t.sem + 1
        /\ s.runs = t.runs /\ s.ret = t.ret
    BY <1>1, <2>0 DEF ThreadEntry
  <2>2. Given(t) = s
    BY <1>2 DEF Given
  <2> HIDE DEF s
  <2>3. s.sem + Count(ChildHolds(s)) + Count(FALSE) <= IF g THEN 2 ELSE 1
    BY <1>1, <1>2, <2>1 DEF EntryOK, ChildHolds, Count
  <2> QED
    BY <1>2, <2>1, <2>2, <2>3 DEF EntryOK
<1>3. CASE ~t.mutex
  <2>1. Given(t) = t
    BY <1>3 DEF Given
  <2> QED
    BY <1>3, <2>1 DEF EntryOK
<1> QED
  BY <1>1, <1>2, <1>3

\* An interrupted wait: the main process goes on without the mutex.
LEMMA InterruptedProperty ==
  ASSUME NEW t, NEW m \in BOOLEAN, EntryOK(t, m, FALSE)
  PROVE  EntryOK(t, m, TRUE) /\ (t.sem = 0 => EntryOK(t, TRUE, TRUE))
<1>1. t \in ThreadEntry /\ t.sem \in 0..2 /\ t.mutex \in BOOLEAN
  BY EntryFields DEF EntryOK
<1> QED
  BY <1>1 DEF EntryOK, Count

\* The five steps of exec_thread().
LEMMA ChildProperty ==
  ASSUME NEW t, NEW m \in BOOLEAN, NEW g \in BOOLEAN, EntryOK(t, m, g), NEW s,
         \/ /\ t.child = "run" /\ t.runs < MaxRuns
            /\ s = [t EXCEPT !.child = "lock", !.runs = t.runs + 1]
         \/ /\ t.child = "lock" /\ (t.mutex => t.sem > 0)
            /\ s = [Taken(t) EXCEPT !.child = "write1"]
         \/ /\ t.child = "write1"
            /\ s = [t EXCEPT !.child = "write2", !.ret.first = t.runs]
         \/ /\ t.child = "write2"
            /\ s = [t EXCEPT !.child = "unlock", !.ret.second = t.runs]
         \/ /\ t.child = "unlock"
            /\ s = [Given(t) EXCEPT !.child = "run"]
  PROVE  EntryOK(s, m, g) /\ Onward(t, s, m, g)
<1>T. /\ t \in ThreadEntry /\ t.key \in Keys /\ t.mutex \in BOOLEAN /\ t.sem \in 0..2
      /\ t.ret \in Halves /\ t.ret.first \in Runs /\ t.ret.second \in Runs
      /\ t.runs \in Runs /\ MaxRuns \in Nat
      /\ t.mutex => t.sem + Count(ChildHolds(t)) + Count(m) <= IF g THEN 2 ELSE 1
      /\ ~t.mutex => t.sem = 1
      /\ t.ret.second <= t.runs
  BY EntryFields, ExecAssumption DEF EntryOK
<1>C. Count(m) \in 0..1 /\ (m => Count(m) = 1) /\ (~m => Count(m) = 0)
  BY DEF Count
<1>1. CASE /\ t.child = "run" /\ t.runs < MaxRuns
           /\ s = [t EXCEPT !.child = "lock", !.runs = t.runs + 1]
  <2>1. t.runs + 1 \in Runs
    BY <1>T, <1>1 DEF Runs
  <2>2. /\ s \in ThreadEntry
        /\ s.key = t.key /\ s.mutex = t.mutex /\ s.sem = t.sem /\ s.child = "lock"
        /\ s.runs = t.runs + 1 /\ s.ret = t.ret
    BY <1>T, <1>1, <2>1 DEF ThreadEntry
  <2>3. t.ret.second <= t.runs + 1 /\ t.ret.second <= t.ret.second
    BY <1>T DEF Runs
  <2>4. t.mutex => s.sem + Count(ChildHolds(s)) + Count(m) <= IF g THEN 2 ELSE 1
    BY <1>T, <1>1, <2>2 DEF ChildHolds, Count
  <2> QED
    BY <1>T, <2>2, <2>3, <2>4 DEF EntryOK, Onward
<1>2. CASE /\ t.child = "lock" /\ (t.mutex => t.sem > 0)
           /\ s = [Taken(t) EXCEPT !.child = "write1"]
  <2>1. /\ s \in ThreadEntry
        /\ s.key = t.key /\ s.mutex = t.mutex /\ s.child = "write1"
        /\ s.sem = IF t.mutex THEN t.sem - 1 ELSE t.sem
        /\ s.runs = t.runs /\ s.ret = t.ret
    <3>1. CASE t.mutex
      <4>1. t.sem - 1 \in 0..2 /\ s = [[t EXCEPT !.sem = t.sem - 1] EXCEPT !.child = "write1"]
        BY <1>T, <1>2, <3>1 DEF Taken
      <4> QED
        BY <1>T, <3>1, <4>1 DEF ThreadEntry
    <3>2. CASE ~t.mutex
      BY <1>T, <1>2, <3>2 DEF ThreadEntry, Taken
    <3> QED
      BY <3>1, <3>2
  <2>2. ChildHolds(s) /\ ~ChildHolds(t)
    BY <1>2, <2>1 DEF ChildHolds
  <2>3. t.mutex => s.sem + Count(ChildHolds(s)) + Count(m) <= IF g THEN 2 ELSE 1
    BY <1>T, <1>C, <2>1, <2>2 DEF Count
  <2>4. ~g /\ t.mutex => s.sem = 0 /\ ~m
    BY <1>T, <1>C, <1>2, <2>1, <2>2 DEF Count
  <2>5. t.ret.second <= t.ret.second
    BY <1>T DEF Runs
  <2> QED
    BY <1>T, <2>1, <2>3, <2>4, <2>5 DEF EntryOK, Onward
<1>3. CASE /\ t.child = "write1"
           /\ s = [t EXCEPT !.child = "write2", !.ret.first = t.runs]
  <2>1. /\ s \in ThreadEntry
        /\ s.key = t.key /\ s.mutex = t.mutex /\ s.child = "write2" /\ s.sem = t.sem
        /\ s.runs = t.runs /\ s.ret.first = t.runs /\ s.ret.second = t.ret.second
    BY <1>T, <1>3 DEF ThreadEntry, Halves
  <2>2. ChildHolds(s) /\ ChildHolds(t)
    BY <1>3, <2>1 DEF ChildHolds
  <2>3. t.mutex => s.sem + Count(ChildHolds(s)) + Count(m) <= IF g THEN 2 ELSE 1
    BY <1>T, <2>1, <2>2
  <2>4. ~g /\ t.mutex => s.sem = 0 /\ ~m
    BY <1>T, <1>C, <2>1, <2>2 DEF Count
  <2>5. t.ret.second <= t.ret.second
    BY <1>T DEF Runs
  <2> QED
    BY <1>T, <2>1, <2>3, <2>4, <2>5 DEF EntryOK, Onward
<1>4. CASE /\ t.child = "write2"
           /\ s = [t EXCEPT !.child = "unlock", !.ret.second = t.runs]
  <2>1. /\ s \in ThreadEntry
        /\ s.key = t.key /\ s.mutex = t.mutex /\ s.child = "unlock" /\ s.sem = t.sem
        /\ s.runs = t.runs /\ s.ret.second = t.runs /\ s.ret.first = t.ret.first
    BY <1>T, <1>4 DEF ThreadEntry, Halves
  <2>2. ChildHolds(s) /\ ChildHolds(t)
    BY <1>4, <2>1 DEF ChildHolds
  <2>3. t.mutex => s.sem + Count(ChildHolds(s)) + Count(m) <= IF g THEN 2 ELSE 1
    BY <1>T, <2>1, <2>2
  <2>4. ~g /\ t.mutex => s.sem = 0 /\ ~m
    BY <1>T, <1>C, <2>1, <2>2 DEF Count
  <2>5. t.runs <= t.runs /\ t.ret.first = t.runs
    BY <1>T, <1>4 DEF Runs, EntryOK
  <2> QED
    BY <1>T, <2>1, <2>3, <2>4, <2>5 DEF EntryOK, Onward
<1>5. CASE /\ t.child = "unlock"
           /\ s = [Given(t) EXCEPT !.child = "run"]
  <2>1. ChildHolds(t)
    BY <1>5 DEF ChildHolds
  <2>2. t.mutex => t.sem + 1 \in 0..2
    BY <1>T, <1>C, <2>1 DEF Count
  <2>3. /\ s \in ThreadEntry
        /\ s.key = t.key /\ s.mutex = t.mutex /\ s.child = "run"
        /\ s.sem = IF t.mutex THEN t.sem + 1 ELSE t.sem
        /\ s.runs = t.runs /\ s.ret = t.ret
    <3>1. CASE t.mutex
      <4>1. s = [[t EXCEPT !.sem = t.sem + 1] EXCEPT !.child = "run"]
        BY <1>5, <3>1 DEF Given
      <4> QED
        BY <1>T, <2>2, <3>1, <4>1 DEF ThreadEntry
    <3>2. CASE ~t.mutex
      BY <1>T, <1>5, <3>2 DEF ThreadEntry, Given
    <3> QED
      BY <3>1, <3>2
  <2>4. t.mutex => s.sem + Count(ChildHolds(s)) + Count(m) <= IF g THEN 2 ELSE 1
    BY <1>T, <1>C, <2>1, <2>3 DEF Count, ChildHolds
  <2>5. /\ t.ret.second <= t.ret.second
        /\ t.ret.first = t.ret.second
    BY <1>T, <1>5 DEF Runs, EntryOK
  <2> QED
    BY <1>T, <2>3, <2>4, <2>5 DEF EntryOK, Onward
<1> QED
  BY <1>1, <1>2, <1>3, <1>4, <1>5

-----------------------------------------------------------------------------
(***************************************************************************)
(* The inductive invariant                                                 *)
(***************************************************************************)

\* Every entry is in order, and the one that do_exec() has found stays there.
TablePart ==
  /\ \A i \in DOMAIN Thread : EntryOK(Thread[i], MainHolds(i), got_signal)
  /\ main \in {"lock", "copy1", "copy2", "unlock"} => ThreadsOf(CRC[cmd]) # {}

\* Nothing do_exec() will copy is older than what was published when it last began
\* to: a child only goes forward, and it is the first one that is read.
FloorPart ==
  \A k \in Keys :
    /\ ThreadsOf(k) # {} => floor[k] <= Thread[FirstThread(k)].ret.second
    /\ ThreadsOf(k) = {} => floor[k] = 0

\* Nor is what it has copied, unless it is just about to copy it again.
HashPart ==
  \A k \in Keys : \/ main \in {"lock", "copy1", "copy2"} /\ k = CRC[cmd]
                  \/ NotOld(EXEC[k].val, k)

\* If every mutex was created, all copies are of one output until a signal breaks
\* a wait.
WholePart ==
  "semget" \notin Failing =>
  /\ \A i \in DOMAIN Thread : Thread[i].mutex
  /\ ~got_signal =>
       /\ main = "copy2" => copied = Thread[thread].ret.first
       /\ \A k \in Keys : EXEC[k].val.first = EXEC[k].val.second
       /\ result.first = result.second

\* What do_exec() takes for a key without an entry.
Missing(k) == EXEC[k].age \in {"absent", "negative"}

\* A child is created only for a key without an entry, or one whose entry the clock
\* was set back behind; each time one that was counted.
OnePart ==
  \A k \in Keys :
    /\ Cardinality(ThreadsOf(k)) + Count(Missing(k)) <= 1 + setbacks[k]
    /\ EXEC[k].age = "negative" => setbacks[k] > 0
    /\ EXEC[k].age = "absent" => ThreadsOf(k) = {}

ExecIInv ==
  ExecTypeOK /\ TablePart /\ FloorPart /\ HashPart /\ Fresh /\ WholePart /\ OnePart

LEMMA ThreadFound ==
  ASSUME ExecTypeOK, NEW key, ThreadsOf(key) # {}
  PROVE  FirstThread(key) \in DOMAIN Thread /\ Thread[FirstThread(key)].key = key
<1>1. ThreadsOf(key) \in SUBSET Nat
  BY DEF ExecTypeOK, ThreadsOf
<1>2. FirstThread(key) \in ThreadsOf(key)
  BY <1>1, MinProperty DEF FirstThread
<1> QED
  BY <1>2 DEF ThreadsOf

LEMMA KeyOf ==
  ASSUME ExecTypeOK
  PROVE  /\ CRC[cmd] \in Keys
         /\ \A i \in DOMAIN Thread : Thread[i] \in ThreadEntry /\ Thread[i].key \in Keys
<1>1. \A i \in DOMAIN Thread : Thread[i] \in ThreadEntry
  BY DEF ExecTypeOK
<1> QED
  BY <1>1, EntryFields DEF Keys, ExecTypeOK

LEMMA SameThreads ==
  ASSUME DOMAIN Thread' = DOMAIN Thread,
         \A i \in DOMAIN Thread : Thread'[i].key = Thread[i].key
  PROVE  \A key : ThreadsOf(key)' = ThreadsOf(key) /\ FirstThread(key)' = FirstThread(key)
<1>1. \A key : ThreadsOf(key)' = ThreadsOf(key)
  BY DEF ThreadsOf
<1> QED
  BY <1>1 DEF FirstThread

\* What a step that leaves the keys of the table alone keeps.
LEMMA FloorKept ==
  ASSUME ExecTypeOK, FloorPart, UNCHANGED floor,
         DOMAIN Thread' = DOMAIN Thread,
         \A i \in DOMAIN Thread : Thread'[i].key = Thread[i].key,
         \A i \in DOMAIN Thread :
           /\ Thread'[i].ret.second \in Nat
           /\ Thread[i].ret.second <= Thread'[i].ret.second
  PROVE  FloorPart'
<1>1. \A k : ThreadsOf(k)' = ThreadsOf(k) /\ FirstThread(k)' = FirstThread(k)
  BY SameThreads
<1>2. \A k \in Keys : floor[k] \in Nat
  BY DEF ExecTypeOK, Runs
<1>3. \A k \in Keys : ThreadsOf(k) # {} => FirstThread(k) \in DOMAIN Thread
  BY ThreadFound
<1>4. \A i \in DOMAIN Thread : Thread[i].ret.second \in Nat
  <2>1. \A i \in DOMAIN Thread : Thread[i] \in ThreadEntry
    BY DEF ExecTypeOK
  <2> QED
    BY <2>1, EntryFields DEF Runs
<1> SUFFICES ASSUME NEW k \in Keys
             PROVE  /\ ThreadsOf(k) # {} => floor[k] <= Thread'[FirstThread(k)].ret.second
                    /\ ThreadsOf(k) = {} => floor[k] = 0
  BY <1>1 DEF FloorPart
<1>5. CASE ThreadsOf(k) = {}
  BY <1>5 DEF FloorPart
<1>6. CASE ThreadsOf(k) # {}
  <2> DEFINE i == FirstThread(k)
  <2>1. i \in DOMAIN Thread /\ floor[k] <= Thread[i].ret.second
    BY <1>3, <1>6 DEF FloorPart
  <2> HIDE DEF i
  <2>2. floor[k] <= Thread'[i].ret.second
    BY <1>2, <1>4, <2>1
  <2> QED
    BY <1>6, <2>2 DEF i
<1> QED
  BY <1>5, <1>6

LEMMA ThreadsFinite ==
  ASSUME ExecTypeOK, NEW k
  PROVE  /\ IsFiniteSet(ThreadsOf(k)) /\ Cardinality(ThreadsOf(k)) \in Nat
         /\ ThreadsOf(k) \subseteq 1..Len(Thread)
<1>1. Thread \in Seq(ThreadEntry)
  BY DEF ExecTypeOK
<1>2. ThreadsOf(k) \subseteq 1..Len(Thread) /\ Len(Thread) \in Nat
  BY <1>1 DEF ThreadsOf
<1>3. IsFiniteSet(1..Len(Thread))
  BY <1>2, FS_Interval
<1>4. IsFiniteSet(ThreadsOf(k))
  BY <1>2, <1>3, FS_Subset
<1> QED
  BY <1>2, <1>4, FS_CardinalityType

LEMMA OneKept ==
  ASSUME ExecTypeOK, OnePart, UNCHANGED setbacks,
         \A k : ThreadsOf(k)' = ThreadsOf(k),
         \A k \in Keys : EXEC'[k].age = EXEC[k].age
                        \/ EXEC'[k].age \in {"zero", "recent", "old"}
  PROVE  OnePart'
<1>1. \A k \in Keys : Cardinality(ThreadsOf(k)) \in Nat /\ setbacks[k] \in Nat
  BY ThreadsFinite, ExecAssumption DEF ExecTypeOK
<1>2. \A k \in Keys : Count(Missing(k)) \in 0..1
  BY DEF Count
<1>3. \A k \in Keys : Count(Missing(k)') = Count(Missing(k)) \/ Count(Missing(k)') = 0
  BY DEF Count, Missing
<1> SUFFICES ASSUME NEW k \in Keys
             PROVE  /\ Cardinality(ThreadsOf(k)) + Count(Missing(k)') <= 1 + setbacks[k]
                    /\ EXEC'[k].age = "negative" => setbacks[k] > 0
                    /\ EXEC'[k].age = "absent" => ThreadsOf(k) = {}
  BY DEF OnePart, Count
<1>4. Cardinality(ThreadsOf(k)) + Count(Missing(k)) <= 1 + setbacks[k]
  BY DEF OnePart
<1>5. Cardinality(ThreadsOf(k)) + Count(Missing(k)') <= 1 + setbacks[k]
  BY <1>1, <1>2, <1>3, <1>4
<1> QED
  BY <1>5 DEF OnePart

\* plugin_init_exec() and plugin_exit_exec() leave an empty hash.
LEMMA EmptyEntry ==
  /\ Empty \in Halves
  /\ [k \in Keys |-> [val |-> Empty, age |-> "absent"]]
       \in [Keys -> [val : Halves, age : Ages]]
<1>1. Empty \in Halves
  BY ExecAssumption DEF Runs, Halves, Empty
<1> DEFINE e == [val |-> Empty, age |-> "absent"]
<1>2. e \in [val : Halves, age : Ages]
  BY <1>1 DEF Ages
<1> HIDE DEF e
<1>3. [k \in Keys |-> e] \in [Keys -> [val : Halves, age : Ages]]
  BY <1>2
<1> QED
  BY <1>1, <1>3 DEF e

LEMMA ExecIInit == Init => ExecIInv
<1> SUFFICES ASSUME Init PROVE ExecIInv
  OBVIOUS
<1>1. /\ Thread = <<>> /\ main = "idle" /\ cmd \in Cmds /\ copied = 0 /\ result = Empty
      /\ got_signal = FALSE /\ floor = [k \in Keys |-> 0] /\ setbacks = [k \in Keys |-> 0]
  BY DEF Init
<1>E. EXEC = [k \in Keys |-> [val |-> Empty, age |-> "absent"]]
  BY DEF Init
<1>2. 0 \in Runs /\ Empty \in Halves /\ Empty.first = Empty.second
  BY ExecAssumption DEF Runs, Halves, Empty
<1>3. ExecTypeOK
  <2>1. EXEC \in [Keys -> [val : Halves, age : Ages]]
    BY <1>E, EmptyEntry
  <2>2. Thread \in Seq(ThreadEntry)
    BY <1>1
  <2>3. got_signal \in BOOLEAN /\ result \in Halves
    BY <1>1, <1>2
  <2>4. /\ main \in {"idle", "lock", "copy1", "copy2", "unlock", "exit"}
        /\ cmd \in Cmds /\ copied \in Runs /\ floor \in [Keys -> Runs]
        /\ setbacks \in [Keys -> 0..MaxSetbacks]
    BY <1>1, <1>2, ExecAssumption
  <2> QED
    BY <2>1, <2>2, <2>3, <2>4 DEF ExecTypeOK
<1>4. \A k \in Keys :
        /\ ThreadsOf(k) = {} /\ floor[k] = 0 /\ setbacks[k] = 0
        /\ EXEC[k].val = Empty /\ EXEC[k].age = "absent"
  BY <1>1, <1>E DEF ThreadsOf
<1>5. \A k \in Keys : NotOld(Empty, k)
  BY <1>4 DEF NotOld, Empty
<1>6. TablePart /\ FloorPart /\ HashPart
  BY <1>1, <1>4, <1>5 DEF TablePart, FloorPart, HashPart
<1>7. Fresh
  BY <1>1, <1>3, <1>5, KeyOf DEF Fresh
<1>8. WholePart
  BY <1>1, <1>2, <1>4 DEF WholePart
<1>9. OnePart
  <2>1. Cardinality({}) = 0
    BY FS_EmptySet
  <2> QED
    <3>1. \A k \in Keys : Count(Missing(k)) = 1
      BY <1>4 DEF Count, Missing
    <3>2. \A k \in Keys : Cardinality(ThreadsOf(k)) + Count(Missing(k)) <= 1 + setbacks[k]
      BY <1>4, <2>1, <3>1
    <3> QED
      BY <1>4, <3>2 DEF OnePart
<1> QED
  BY <1>3, <1>6, <1>7, <1>8, <1>9 DEF ExecIInv

\* A step of a child, or its death.
LEMMA ChildNext ==
  ASSUME ExecIInv, NEW i \in DOMAIN Thread, ExecThread(i) \/ Die(i)
  PROVE  ExecIInv'
<1>0. /\ Thread \in Seq(ThreadEntry)
      /\ EntryOK(Thread[i], MainHolds(i), got_signal)
      /\ MainHolds(i) \in BOOLEAN /\ got_signal \in BOOLEAN
      /\ ExecTypeOK
  BY DEF ExecIInv, ExecTypeOK, TablePart, MainHolds
<1>1. PICK s : /\ Thread' = [Thread EXCEPT ![i] = s] /\ UNCHANGED Others
               /\ EntryOK(s, MainHolds(i), got_signal)
               /\ Onward(Thread[i], s, MainHolds(i), got_signal)
  <2>1. CASE Die(i)
    BY <1>0, <2>1, KilledProperty DEF Die, Step
  <2>2. CASE ExecThread(i)
    <3>1. PICK s : /\ Thread' = [Thread EXCEPT ![i] = s] /\ UNCHANGED Others
                   /\ \/ /\ Thread[i].child = "run" /\ Thread[i].runs < MaxRuns
                         /\ s = [Thread[i] EXCEPT !.child = "lock", !.runs = Thread[i].runs + 1]
                      \/ /\ Thread[i].child = "lock" /\ (Thread[i].mutex => Thread[i].sem > 0)
                         /\ s = [Taken(Thread[i]) EXCEPT !.child = "write1"]
                      \/ /\ Thread[i].child = "write1"
                         /\ s = [Thread[i] EXCEPT !.child = "write2", !.ret.first = Thread[i].runs]
                      \/ /\ Thread[i].child = "write2"
                         /\ s = [Thread[i] EXCEPT !.child = "unlock", !.ret.second = Thread[i].runs]
                      \/ /\ Thread[i].child = "unlock"
                         /\ s = [Given(Thread[i]) EXCEPT !.child = "run"]
      BY <2>2 DEF ExecThread, Run, ChildLock, ChildWrite1, ChildWrite2, ChildUnlock, Step, Free
    <3>2. /\ EntryOK(s, MainHolds(i), got_signal)
          /\ Onward(Thread[i], s, MainHolds(i), got_signal)
      BY <1>0, <3>1, ChildProperty
    <3> QED
      BY <3>1, <3>2
  <2> QED
    BY <2>1, <2>2
<1>2. UNCHANGED <<EXEC, main, cmd, copied, result, got_signal, floor, setbacks>>
  BY <1>1 DEF Others
<1>3. s \in ThreadEntry
  BY <1>1 DEF EntryOK
<1>4. /\ DOMAIN Thread' = DOMAIN Thread /\ Thread'[i] = s
      /\ \A j \in DOMAIN Thread : j # i => Thread'[j] = Thread[j]
      /\ Thread' \in Seq(ThreadEntry)
  BY <1>0, <1>1, <1>3
<1>5. /\ \A j \in DOMAIN Thread : Thread'[j].key = Thread[j].key
      /\ \A j \in DOMAIN Thread : Thread'[j].mutex = Thread[j].mutex
  BY <1>1, <1>4 DEF Onward
<1>6. /\ \A key : ThreadsOf(key)' = ThreadsOf(key) /\ FirstThread(key)' = FirstThread(key)
      /\ thread' = thread
  BY <1>2, <1>4, <1>5, SameThreads DEF thread
<1>7. ExecTypeOK'
  BY <1>0, <1>2, <1>4 DEF ExecTypeOK
<1>8. TablePart'
  <2>1. \A j \in DOMAIN Thread : MainHolds(j)' = MainHolds(j)
    BY <1>2, <1>6 DEF MainHolds
  <2> QED
    BY <1>1, <1>2, <1>4, <1>6, <2>1 DEF ExecIInv, TablePart
<1>T. main \in {"lock", "copy1", "copy2", "unlock"} => thread \in DOMAIN Thread
  BY <1>0, ThreadFound DEF ExecIInv, TablePart, thread
<1>9. FloorPart' /\ HashPart' /\ Fresh'
  <2>1. \A j \in DOMAIN Thread : Thread[j].ret.second \in Nat
    <3>1. \A j \in DOMAIN Thread : Thread[j] \in ThreadEntry
      BY <1>0
    <3> QED
      BY <3>1, EntryFields DEF Runs
  <2>2. s.ret.second \in Nat
    BY <1>3, EntryFields DEF Runs
  <2>3. \A j \in DOMAIN Thread :
          /\ Thread'[j].ret.second \in Nat
          /\ Thread[j].ret.second <= Thread'[j].ret.second
    BY <1>1, <1>4, <2>1, <2>2 DEF Onward
  <2>4. FloorPart'
    BY <1>0, <1>2, <1>4, <1>5, <2>3, FloorKept DEF ExecIInv
  <2> QED
    BY <1>2, <2>4 DEF ExecIInv, HashPart, Fresh, NotOld
<1>10. WholePart'
  <2>1. ASSUME "semget" \notin Failing, ~got_signal, main = "copy2"
        PROVE  Thread'[thread].ret.first = Thread[thread].ret.first
    <3>1. thread \in DOMAIN Thread
      BY <1>T, <2>1
    <3>2. CASE thread = i
      <4>1. Thread[i].mutex /\ MainHolds(i)
        BY <2>1, <3>2 DEF ExecIInv, WholePart, MainHolds
      <4> QED
        BY <1>1, <1>4, <2>1, <3>2, <4>1 DEF Onward
    <3>3. CASE thread # i
      BY <1>4, <3>1, <3>3
    <3> QED
      BY <3>2, <3>3
  <2> QED
    BY <1>2, <1>4, <1>5, <1>6, <2>1 DEF ExecIInv, WholePart
<1>11. OnePart'
  BY <1>0, <1>2, <1>6, OneKept DEF ExecIInv
<1> QED
  BY <1>7, <1>8, <1>9, <1>10, <1>11 DEF ExecIInv

\* hash_put() stamps the entry of one key.
LEMMA PutProperty ==
  ASSUME ExecTypeOK, NEW key \in Keys, NEW val \in Halves, Put(key, val)
  PROVE  /\ EXEC' \in [Keys -> [val : Halves, age : Ages]]
         /\ EXEC'[key].val = val /\ EXEC'[key].age = "zero"
         /\ \A k \in Keys : k # key => EXEC'[k] = EXEC[k]
<1> DEFINE e == [val |-> val, age |-> "zero"]
<1>1. e \in [val : Halves, age : Ages] /\ e.val = val /\ e.age = "zero"
  BY DEF Ages
<1>2. EXEC' = [EXEC EXCEPT ![key] = e]
  BY DEF Put
<1>3. EXEC \in [Keys -> [val : Halves, age : Ages]]
  BY DEF ExecTypeOK
<1> HIDE DEF e
<1> QED
  BY <1>1, <1>2, <1>3

\* create_exec_thread() appends a good entry or kills every child.
LEMMA CreateProperty ==
  ASSUME ExecIInv, main = "idle", NEW key \in Keys, CreateThread(key),
         UNCHANGED <<main, got_signal>>
  PROVE  /\ Thread' \in Seq(ThreadEntry)
         /\ TablePart'
         /\ \A i \in DOMAIN Thread :
              /\ i \in DOMAIN Thread'
              /\ Thread'[i].key = Thread[i].key
              /\ Thread'[i].mutex = Thread[i].mutex
              /\ Thread'[i].ret = Thread[i].ret
         /\ \A i \in DOMAIN Thread' :
              i \notin DOMAIN Thread =>
                /\ i = Len(Thread) + 1
                /\ Thread'[i].key = key
                /\ Thread'[i].ret = Empty
                /\ "semget" \notin Failing => Thread'[i].mutex
<1>1. /\ Thread \in Seq(ThreadEntry)
      /\ \A i \in DOMAIN Thread : EntryOK(Thread[i], FALSE, got_signal)
      /\ \A i : MainHolds(i)' = FALSE
      /\ got_signal' = got_signal /\ got_signal \in BOOLEAN /\ main' = "idle"
  <2>1. \A i : MainHolds(i) = FALSE
    BY DEF MainHolds
  <2> QED
    BY <2>1 DEF ExecIInv, ExecTypeOK, TablePart, MainHolds
<1>2. CASE UNCHANGED Thread
  BY <1>1, <1>2 DEF TablePart
<1>3. ASSUME NEW mutex \in BOOLEAN, "semget" \notin Failing => mutex,
             Thread' = Append(Thread, [key |-> key, mutex |-> mutex, sem |-> 1,
                                       ret |-> Empty, runs |-> 0, child |-> "run"])
      PROVE  /\ Thread' \in Seq(ThreadEntry)
             /\ TablePart'
             /\ \A i \in DOMAIN Thread : i \in DOMAIN Thread' /\ Thread'[i] = Thread[i]
             /\ \A i \in DOMAIN Thread' : i \in DOMAIN Thread \/ i = Len(Thread) + 1
             /\ \A i \in DOMAIN Thread' :
                  i \notin DOMAIN Thread => /\ Thread'[i].key = key
                                           /\ Thread'[i].mutex = mutex
                                           /\ Thread'[i].ret = Empty
  <2> DEFINE t == [key |-> key, mutex |-> mutex, sem |-> 1,
                   ret |-> Empty, runs |-> 0, child |-> "run"]
  <2>1. /\ t \in ThreadEntry /\ t.key = key /\ t.mutex = mutex /\ t.ret = Empty
        /\ EntryOK(t, FALSE, got_signal)
    <3>1. 0 \in Runs /\ Empty \in Halves
      BY EmptyEntry, ExecAssumption DEF Runs
    <3>2. t \in ThreadEntry
      BY <3>1 DEF ThreadEntry
    <3>3. /\ t.key = key /\ t.mutex = mutex /\ t.sem = 1 /\ t.ret = Empty /\ t.runs = 0
          /\ t.child = "run"
      OBVIOUS
    <3> HIDE DEF t
    <3>4. t.ret.first = 0 /\ t.ret.second = 0
      BY <3>3 DEF Empty
    <3>5. EntryOK(t, FALSE, got_signal)
      BY <1>1, <3>2, <3>3, <3>4 DEF EntryOK, Count, ChildHolds
    <3> QED
      BY <3>2, <3>3, <3>5
  <2>2. Thread' = Append(Thread, t)
    BY <1>3
  <2> HIDE DEF t
  <2>3. /\ Thread' \in Seq(ThreadEntry)
        /\ DOMAIN Thread' = DOMAIN Thread \cup {Len(Thread) + 1}
        /\ Thread'[Len(Thread) + 1] = t
        /\ \A i \in DOMAIN Thread : Thread'[i] = Thread[i]
    BY <1>1, <2>1, <2>2
  <2>4. TablePart'
    BY <1>1, <2>1, <2>3 DEF TablePart
  <2> QED
    BY <2>1, <2>3, <2>4
<1>4. ASSUME Thread' = [i \in DOMAIN Thread |-> Killed(Thread[i])]
      PROVE  /\ Thread' \in Seq(ThreadEntry)
             /\ TablePart'
             /\ DOMAIN Thread' = DOMAIN Thread
             /\ \A i \in DOMAIN Thread :
                  /\ Thread'[i].key = Thread[i].key
                  /\ Thread'[i].mutex = Thread[i].mutex
                  /\ Thread'[i].ret = Thread[i].ret
  <2>1. \A i \in DOMAIN Thread :
          /\ Thread'[i] = Killed(Thread[i])
          /\ EntryOK(Killed(Thread[i]), FALSE, got_signal)
          /\ Onward(Thread[i], Killed(Thread[i]), FALSE, got_signal)
    BY <1>1, <1>4, KilledProperty
  <2>2. \A i \in DOMAIN Thread : Killed(Thread[i]) \in ThreadEntry
    BY <2>1 DEF EntryOK
  <2>3. Thread' \in [1..Len(Thread) -> ThreadEntry] /\ Len(Thread) \in Nat
    BY <1>1, <1>4, <2>2
  <2>4. Thread' \in Seq(ThreadEntry) /\ DOMAIN Thread' = DOMAIN Thread
    BY <1>1, <2>3
  <2>5. TablePart'
    BY <1>1, <2>1, <2>4 DEF TablePart
  <2>6. \A i \in DOMAIN Thread : Thread'[i].ret = Thread[i].ret
    <3>1. \A i \in DOMAIN Thread : Thread[i] \in ThreadEntry
      BY <1>1
    <3>2. \A i \in DOMAIN Thread : Killed(Thread[i]).ret = Thread[i].ret
      BY <3>1 DEF Killed, ThreadEntry
    <3> QED
      BY <2>1, <3>2
  <2> QED
    BY <2>1, <2>4, <2>5, <2>6 DEF Onward
<1>5. \/ UNCHANGED Thread
      \/ \E mutex \in BOOLEAN :
           /\ "semget" \notin Failing => mutex
           /\ Thread' = Append(Thread, [key |-> key, mutex |-> mutex, sem |-> 1,
                                       ret |-> Empty, runs |-> 0, child |-> "run"])
      \/ Thread' = [i \in DOMAIN Thread |-> Killed(Thread[i])]
  BY DEF CreateThread
<1>6. CASE \E mutex \in BOOLEAN :
           /\ "semget" \notin Failing => mutex
           /\ Thread' = Append(Thread, [key |-> key, mutex |-> mutex, sem |-> 1,
                                       ret |-> Empty, runs |-> 0, child |-> "run"])
  <2>1. PICK mutex \in BOOLEAN :
           /\ "semget" \notin Failing => mutex
           /\ Thread' = Append(Thread, [key |-> key, mutex |-> mutex, sem |-> 1,
                                       ret |-> Empty, runs |-> 0, child |-> "run"])
    BY <1>6
  <2> QED
    BY <1>3, <2>1
<1> QED
  BY <1>1, <1>2, <1>4, <1>5, <1>6

\* ... and the first thread of every command stays the one that is read.
LEMMA CreatedThreads ==
  ASSUME ExecIInv, NEW key \in Keys, Thread' \in Seq(ThreadEntry),
         \A i \in DOMAIN Thread :
           /\ i \in DOMAIN Thread'
           /\ Thread'[i].key = Thread[i].key
           /\ Thread'[i].ret = Thread[i].ret,
         \A i \in DOMAIN Thread' :
           i \notin DOMAIN Thread =>
             i = Len(Thread) + 1 /\ Thread'[i].key = key /\ Thread'[i].ret = Empty,
         UNCHANGED floor
  PROVE  /\ FloorPart'
         /\ \A k \in Keys : k # key => ThreadsOf(k)' = ThreadsOf(k)
         /\ Cardinality(ThreadsOf(key)') \in Nat
         /\ Cardinality(ThreadsOf(key)') <= Cardinality(ThreadsOf(key)) + 1
         /\ ThreadsOf(key)' = {} => ThreadsOf(key) = {}
<1> DEFINE new == Len(Thread) + 1
<1>0. ExecTypeOK /\ Len(Thread) \in Nat /\ DOMAIN Thread = 1..Len(Thread)
  BY DEF ExecIInv, ExecTypeOK
<1>1. \A k : ThreadsOf(k) \subseteq ThreadsOf(k)'
  BY DEF ThreadsOf
<1>2. \A k : \A i \in ThreadsOf(k)' : i \in ThreadsOf(k) \/ (k = key /\ i = new)
  BY DEF ThreadsOf
<1>3. ASSUME NEW k, k # key PROVE ThreadsOf(k)' = ThreadsOf(k)
  <2>1. ThreadsOf(k)' \subseteq ThreadsOf(k)
    BY <1>2, <1>3
  <2> QED
    BY <1>1, <2>1
<1>4. /\ Cardinality(ThreadsOf(key)') \in Nat
      /\ Cardinality(ThreadsOf(key)') <= Cardinality(ThreadsOf(key)) + 1
  <2>1. /\ IsFiniteSet(ThreadsOf(key)) /\ Cardinality(ThreadsOf(key)) \in Nat
        /\ new \notin ThreadsOf(key)
    BY <1>0, ThreadsFinite
  <2>2. Cardinality(ThreadsOf(key) \cup {new}) = Cardinality(ThreadsOf(key)) + 1
    BY <2>1, FS_AddElement
  <2>3. ThreadsOf(key)' = ThreadsOf(key) \/ ThreadsOf(key)' = ThreadsOf(key) \cup {new}
    <3>1. CASE new \in ThreadsOf(key)'
      BY <1>1, <1>2, <3>1
    <3>2. CASE new \notin ThreadsOf(key)'
      BY <1>1, <1>2, <3>2
    <3> QED
      BY <3>1, <3>2
  <2>4. CASE ThreadsOf(key)' = ThreadsOf(key)
    <3>1. Cardinality(ThreadsOf(key)') = Cardinality(ThreadsOf(key))
      BY <2>4
    <3> QED
      BY <2>1, <3>1
  <2>5. CASE ThreadsOf(key)' = ThreadsOf(key) \cup {new}
    <3>1. Cardinality(ThreadsOf(key)') = Cardinality(ThreadsOf(key)) + 1
      BY <2>2, <2>5
    <3> QED
      BY <2>1, <3>1
  <2> QED
    BY <2>3, <2>4, <2>5
<1>5. FloorPart'
  <2> SUFFICES ASSUME NEW k \in Keys
               PROVE  /\ ThreadsOf(k)' # {} => floor[k] <= Thread'[FirstThread(k)'].ret.second
                      /\ ThreadsOf(k)' = {} => floor[k] = 0
    BY DEF FloorPart
  <2>1. CASE ThreadsOf(k) = {}
    <3>1. floor[k] = 0
      BY <2>1 DEF ExecIInv, FloorPart
    <3>2. ASSUME ThreadsOf(k)' # {} PROVE 0 <= Thread'[FirstThread(k)'].ret.second
      <4>1. ThreadsOf(k)' \in SUBSET Nat
        BY DEF ThreadsOf
      <4>2. FirstThread(k)' \in ThreadsOf(k)'
        BY <3>2, <4>1, MinProperty DEF FirstThread
      <4>3. FirstThread(k)' \in DOMAIN Thread' /\ FirstThread(k)' \notin DOMAIN Thread
        BY <1>1, <1>2, <1>0, <2>1, <4>2 DEF ThreadsOf
      <4> QED
        BY <4>3 DEF Empty
    <3> QED
      BY <3>1, <3>2
  <2>2. CASE ThreadsOf(k) # {}
    <3>1. /\ FirstThread(k) \in ThreadsOf(k)
          /\ \A i \in ThreadsOf(k) : FirstThread(k) <= i
      <4>1. ThreadsOf(k) \in SUBSET Nat
        BY <1>0 DEF ThreadsOf
      <4> QED
        BY <2>2, <4>1, MinProperty DEF FirstThread
    <3>2. FirstThread(k)' = FirstThread(k)
      <4>1. ThreadsOf(k)' \in SUBSET Nat /\ ThreadsOf(k)' # {}
        BY <1>1, <2>2 DEF ThreadsOf
      <4>2. /\ FirstThread(k)' \in ThreadsOf(k)'
            /\ \A i \in ThreadsOf(k)' : FirstThread(k)' <= i
        BY <4>1, MinProperty DEF FirstThread
      <4>3. ThreadsOf(k) \subseteq 1..Len(Thread)
        BY <1>0, ThreadsFinite
      <4>4. FirstThread(k)' \in Nat /\ FirstThread(k) \in Nat
        BY <1>0, <3>1, <4>1, <4>2, <4>3
      <4>5. FirstThread(k)' <= FirstThread(k)
        BY <1>1, <3>1, <4>2
      <4>6. FirstThread(k)' \in ThreadsOf(k) \/ FirstThread(k)' = new
        BY <1>2, <4>2
      <4> QED
        BY <1>0, <3>1, <4>3, <4>4, <4>5, <4>6
    <3>3. floor[k] <= Thread[FirstThread(k)].ret.second
      BY <2>2 DEF ExecIInv, FloorPart
    <3>4. Thread'[FirstThread(k)].ret = Thread[FirstThread(k)].ret
      BY <3>1 DEF ThreadsOf
    <3> QED
      BY <1>1, <2>2, <3>2, <3>3, <3>4
  <2> QED
    BY <2>1, <2>2
<1> QED
  BY <1>1, <1>3, <1>4, <1>5

LEMMA FirstTimeNext ==
  ASSUME ExecIInv, NEW c \in Cmds, FirstTime(c)
  PROVE  ExecIInv'
<1> DEFINE key == CRC[c]
<1>1. /\ main = "idle" /\ EXEC[key].age \in {"absent", "negative"}
      /\ Put(key, Empty) /\ CreateThread(key)
      /\ result' = Empty /\ cmd' = c
      /\ UNCHANGED <<main, copied, got_signal, floor, setbacks>>
      /\ ExecTypeOK
  BY DEF FirstTime, Give, ExecIInv
<1>2. key \in Keys /\ Empty \in Halves /\ CRC[cmd'] = key
  BY <1>1, EmptyEntry DEF Keys
<1> HIDE DEF key
<1>3. /\ EXEC' \in [Keys -> [val : Halves, age : Ages]]
      /\ EXEC'[key].val = Empty /\ EXEC'[key].age = "zero"
      /\ \A k \in Keys : k # key => EXEC'[k] = EXEC[k]
  BY <1>1, <1>2, PutProperty
<1>4. /\ Thread' \in Seq(ThreadEntry)
      /\ TablePart'
      /\ \A i \in DOMAIN Thread :
           /\ i \in DOMAIN Thread'
           /\ Thread'[i].key = Thread[i].key
           /\ Thread'[i].mutex = Thread[i].mutex
           /\ Thread'[i].ret = Thread[i].ret
      /\ \A i \in DOMAIN Thread' :
           i \notin DOMAIN Thread =>
             /\ i = Len(Thread) + 1
             /\ Thread'[i].key = key
             /\ Thread'[i].ret = Empty
             /\ "semget" \notin Failing => Thread'[i].mutex
  BY <1>1, <1>2, CreateProperty
<1>5. ExecTypeOK'
  BY <1>1, <1>2, <1>3, <1>4 DEF ExecTypeOK
<1>6. /\ FloorPart'
      /\ \A k \in Keys : k # key => ThreadsOf(k)' = ThreadsOf(k)
      /\ Cardinality(ThreadsOf(key)') \in Nat
      /\ Cardinality(ThreadsOf(key)') <= Cardinality(ThreadsOf(key)) + 1
      /\ ThreadsOf(key)' = {} => ThreadsOf(key) = {}
  BY <1>1, <1>2, <1>4, CreatedThreads
\* No child so far, and nothing published; or the clock was set back.
<1>N. NotOld(Empty, key)
  <2>1. CASE EXEC[key].age = "negative"
    BY <1>2, <2>1 DEF ExecIInv, OnePart, NotOld
  <2>2. CASE EXEC[key].age = "absent"
    <3>1. floor[key] = 0
      BY <1>2, <2>2 DEF ExecIInv, OnePart, FloorPart
    <3> QED
      BY <3>1 DEF NotOld, Empty
  <2> QED
    BY <1>1, <2>1, <2>2
<1>F. HashPart' /\ Fresh'
  <2>1. \A k \in Keys : NotOld(EXEC'[k].val, k)
    BY <1>1, <1>3, <1>N DEF ExecIInv, HashPart
  <2> QED
    BY <1>1, <1>2, <1>N, <2>1 DEF HashPart, Fresh, NotOld
<1>7. WholePart'
  <2>1. Empty.first = Empty.second
    BY DEF Empty
  <2>2. "semget" \notin Failing => \A i \in DOMAIN Thread' : Thread'[i].mutex
    BY <1>4 DEF ExecIInv, WholePart
  <2>3. "semget" \notin Failing /\ ~got_signal =>
          \A k \in Keys : EXEC'[k].val.first = EXEC'[k].val.second
    BY <1>3, <2>1 DEF ExecIInv, WholePart
  <2> QED
    BY <1>1, <2>1, <2>2, <2>3 DEF WholePart
<1>8. OnePart'
  <2> SUFFICES ASSUME NEW k \in Keys
               PROVE  /\ Cardinality(ThreadsOf(k)') + Count(Missing(k)') <= 1 + setbacks[k]
                      /\ EXEC'[k].age = "negative" => setbacks[k] > 0
                      /\ EXEC'[k].age = "absent" => ThreadsOf(k)' = {}
    BY <1>1 DEF OnePart, Count
  <2>1. CASE k = key
    <3>1. Count(Missing(k)) = 1 /\ Count(Missing(k)') = 0
      BY <1>1, <1>3, <2>1 DEF Count, Missing
    <3>2. Cardinality(ThreadsOf(k)) + 1 <= 1 + setbacks[k]
      BY <1>2, <2>1, <3>1 DEF ExecIInv, OnePart
    <3>4. Cardinality(ThreadsOf(k)) \in Nat /\ setbacks[k] \in Nat
      BY <1>1, ThreadsFinite, ExecAssumption DEF ExecTypeOK
    <3> QED
      BY <1>3, <1>6, <2>1, <3>1, <3>2, <3>4
  <2>2. CASE k # key
    <3>1. EXEC'[k] = EXEC[k] /\ ThreadsOf(k)' = ThreadsOf(k)
      BY <1>3, <1>6, <2>2
    <3>2. Count(Missing(k)') = Count(Missing(k))
      BY <3>1 DEF Count, Missing
    <3> QED
      BY <3>1, <3>2 DEF ExecIInv, OnePart
  <2> QED
    BY <2>1, <2>2
<1> QED
  BY <1>4, <1>5, <1>6, <1>F, <1>7, <1>8 DEF ExecIInv

\* The other calls of exec() that come from an idle main process.
LEMMA IdleNext ==
  ASSUME ExecIInv, NEW c \in Cmds, Cached(c) \/ NotFound(c) \/ Reread(c)
  PROVE  ExecIInv'
<1>1. /\ main = "idle" /\ UNCHANGED <<Thread, EXEC, copied, got_signal>>
      /\ UNCHANGED setbacks /\ ExecTypeOK /\ CRC[c] \in Keys
  BY DEF Cached, NotFound, Reread, Give, ExecIInv, Keys
<1>2. \A i : MainHolds(i) = FALSE
  BY <1>1 DEF MainHolds
<1>3. OnePart'
  <2>1. \A k : ThreadsOf(k)' = ThreadsOf(k)
    BY <1>1 DEF ThreadsOf
  <2> QED
    BY <1>1, <2>1, OneKept DEF ExecIInv
<1>4. CASE Cached(c) \/ NotFound(c)
  <2>1. /\ UNCHANGED <<main, floor>> /\ cmd' = c
        /\ \/ result' = Empty /\ ThreadsOf(CRC[c]) = {}
           \/ result' = EXEC[CRC[c]].val
    BY <1>4 DEF Cached, NotFound, Give
  <2>2. EXEC[CRC[c]].val \in Halves /\ Empty \in Halves /\ Empty.first = Empty.second
    <3>1. EXEC[CRC[c]] \in [val : Halves, age : Ages]
      BY <1>1 DEF ExecTypeOK
    <3> QED
      BY <3>1, EmptyEntry DEF Empty
  <2>3. ExecTypeOK'
    BY <1>1, <2>1, <2>2 DEF ExecTypeOK
  <2>4. TablePart' /\ FloorPart' /\ HashPart' /\ Fresh'
    <3>1. \A i : MainHolds(i)' = FALSE
      BY <1>1, <2>1 DEF MainHolds
    <3>2. NotOld(result', CRC[c])
      <4>1. ASSUME ThreadsOf(CRC[c]) = {} PROVE NotOld(Empty, CRC[c])
        BY <1>1, <4>1 DEF ExecIInv, FloorPart, NotOld, Empty
      <4>2. NotOld(EXEC[CRC[c]].val, CRC[c])
        BY <1>1 DEF ExecIInv, HashPart
      <4> QED
        BY <2>1, <4>1, <4>2
    <3>3. FloorPart'
      BY <1>1, <2>1 DEF ExecIInv, FloorPart, ThreadsOf, FirstThread
    <3>4. HashPart' /\ Fresh'
      BY <1>1, <2>1, <3>2 DEF ExecIInv, HashPart, Fresh, NotOld
    <3> QED
      BY <1>1, <1>2, <2>1, <3>1, <3>3, <3>4 DEF ExecIInv, TablePart
  <2>5. WholePart'
    BY <1>1, <2>1, <2>2 DEF ExecIInv, WholePart
  <2> QED
    BY <1>3, <2>3, <2>4, <2>5 DEF ExecIInv
<1>5. CASE Reread(c)
  <2>1. /\ ThreadsOf(CRC[c]) # {} /\ cmd' = c /\ main' = "lock"
        /\ floor' = [floor EXCEPT ![CRC[c]] = Thread[FirstThread(CRC[c])].ret.second]
        /\ UNCHANGED result
    BY <1>5 DEF Reread
  <2>2. /\ FirstThread(CRC[c]) \in DOMAIN Thread
        /\ Thread[FirstThread(CRC[c])] \in ThreadEntry
    BY <1>1, <2>1, ThreadFound, KeyOf
  <2>3. /\ Thread[FirstThread(CRC[c])].ret.second \in Runs
        /\ floor' \in [Keys -> Runs]
        /\ floor'[CRC[c]] = Thread[FirstThread(CRC[c])].ret.second
        /\ \A k \in Keys : k # CRC[c] => floor'[k] = floor[k]
    <3>1. Thread[FirstThread(CRC[c])].ret.second \in Runs /\ floor \in [Keys -> Runs]
      BY <1>1, <2>2, EntryFields DEF ExecTypeOK
    <3> QED
      BY <1>1, <2>1, <3>1
  <2>4. ExecTypeOK'
    BY <1>1, <2>1, <2>3 DEF ExecTypeOK
  <2>5. /\ \A key : ThreadsOf(key)' = ThreadsOf(key) /\ FirstThread(key)' = FirstThread(key)
        /\ thread' = FirstThread(CRC[c])
    BY <1>1, <2>1, SameThreads DEF thread
  <2>6. TablePart'
    <3>1. \A i : MainHolds(i)' = FALSE
      BY <2>1 DEF MainHolds
    <3> QED
      BY <1>1, <1>2, <2>1, <2>5, <3>1 DEF ExecIInv, TablePart
  <2>7. FloorPart' /\ HashPart' /\ Fresh'
    <3>1. FloorPart'
      <4> SUFFICES ASSUME NEW k \in Keys
                   PROVE  /\ ThreadsOf(k) # {} =>
                               floor'[k] <= Thread[FirstThread(k)].ret.second
                          /\ ThreadsOf(k) = {} => floor'[k] = 0
        BY <1>1, <2>5 DEF FloorPart
      <4>1. CASE k = CRC[c]
        BY <2>1, <2>3, <4>1 DEF Runs
      <4>2. CASE k # CRC[c]
        BY <2>3, <4>2 DEF ExecIInv, FloorPart
      <4> QED
        BY <4>1, <4>2
    <3>2. HashPart'
      BY <1>1, <2>1, <2>3 DEF ExecIInv, HashPart, NotOld
    <3> QED
      BY <2>1, <3>1, <3>2 DEF Fresh
  <2>8. WholePart'
    BY <1>1, <2>1 DEF ExecIInv, WholePart
  <2> QED
    BY <1>3, <2>4, <2>6, <2>7, <2>8 DEF ExecIInv
<1> QED
  BY <1>4, <1>5

\* An entry of the table that the main process locks or unlocks.
LEMMA OwnNext ==
  ASSUME ExecIInv, NEW s, NEW m \in BOOLEAN,
         main \in {"lock", "unlock"},
         Thread' = [Thread EXCEPT ![thread] = s],
         s.key = Thread[thread].key, s.mutex = Thread[thread].mutex,
         s.ret = Thread[thread].ret,
         EntryOK(s, m, got_signal),
         main' = IF m THEN "copy1" ELSE "idle",
         UNCHANGED <<cmd, got_signal>>
  PROVE  /\ thread \in DOMAIN Thread
         /\ Thread' \in Seq(ThreadEntry)
         /\ TablePart'
         /\ thread' = thread
         /\ \A i \in DOMAIN Thread :
              /\ Thread'[i].key = Thread[i].key
              /\ Thread'[i].mutex = Thread[i].mutex
              /\ Thread'[i].ret = Thread[i].ret
         /\ DOMAIN Thread' = DOMAIN Thread
<1>1. thread \in DOMAIN Thread /\ ThreadsOf(CRC[cmd]) # {} /\ Thread \in Seq(ThreadEntry)
  BY ThreadFound DEF ExecIInv, TablePart, thread, ExecTypeOK
<1>2. s \in ThreadEntry
  BY DEF EntryOK
<1>3. /\ Thread' \in Seq(ThreadEntry) /\ DOMAIN Thread' = DOMAIN Thread
      /\ Thread'[thread] = s
      /\ \A i \in DOMAIN Thread : i # thread => Thread'[i] = Thread[i]
  BY <1>1, <1>2
<1>4. \A i \in DOMAIN Thread :
        /\ Thread'[i].key = Thread[i].key
        /\ Thread'[i].mutex = Thread[i].mutex
        /\ Thread'[i].ret = Thread[i].ret
  BY <1>3
<1>5. /\ \A key : ThreadsOf(key)' = ThreadsOf(key) /\ FirstThread(key)' = FirstThread(key)
      /\ thread' = thread
  BY <1>3, <1>4, SameThreads DEF thread
<1>6. TablePart'
  <2>1. \A i : i # thread => MainHolds(i)' = FALSE /\ MainHolds(i) = FALSE
    BY <1>5 DEF MainHolds
  <2>2. MainHolds(thread)' = m
    BY <1>5 DEF MainHolds
  <2>3. \A i \in DOMAIN Thread : EntryOK(Thread'[i], MainHolds(i)', got_signal)
    <3> SUFFICES ASSUME NEW i \in DOMAIN Thread
                 PROVE  EntryOK(Thread'[i], MainHolds(i)', got_signal)
      OBVIOUS
    <3>1. CASE i = thread
      BY <1>3, <1>5, <2>2, <3>1
    <3>2. CASE i # thread
      BY <1>3, <2>1, <3>2 DEF ExecIInv, TablePart
    <3> QED
      BY <3>1, <3>2
  <2> QED
    BY <1>1, <1>3, <1>5, <2>3 DEF TablePart
<1> QED
  BY <1>1, <1>3, <1>4, <1>5, <1>6

LEMMA LockNext ==
  ASSUME ExecIInv, Lock
  PROVE  ExecIInv'
<1> DEFINE t == Thread[thread]
<1>1. /\ main = "lock" /\ main' = "copy1" /\ Free(thread)
      /\ Thread' = [Thread EXCEPT ![thread] = Taken(t)]
      /\ UNCHANGED <<EXEC, cmd, copied, result, got_signal, floor, setbacks>>
      /\ ExecTypeOK
  BY DEF Lock, ExecIInv
<1>2. thread \in DOMAIN Thread
  BY <1>1, ThreadFound DEF ExecIInv, TablePart, thread
<1>3. EntryOK(t, FALSE, got_signal) /\ got_signal \in BOOLEAN
  <2>1. MainHolds(thread) = FALSE
    BY <1>1 DEF MainHolds
  <2> QED
    BY <1>1, <1>2, <2>1 DEF ExecIInv, TablePart, ExecTypeOK
<1>4. t.mutex => t.sem > 0
  BY <1>1 DEF Free
<1> HIDE DEF t
<1>5. /\ EntryOK(Taken(t), TRUE, got_signal)
      /\ Taken(t).key = t.key /\ Taken(t).mutex = t.mutex /\ Taken(t).ret = t.ret
  BY <1>3, <1>4, TakenProperty
<1>7. /\ Thread' \in Seq(ThreadEntry)
      /\ TablePart'
      /\ thread' = thread
      /\ \A i \in DOMAIN Thread :
           /\ Thread'[i].key = Thread[i].key
           /\ Thread'[i].mutex = Thread[i].mutex
           /\ Thread'[i].ret = Thread[i].ret
      /\ DOMAIN Thread' = DOMAIN Thread
  BY <1>1, <1>5, OwnNext DEF t
<1>8. ExecTypeOK'
  BY <1>1, <1>7 DEF ExecTypeOK
<1>9. FloorPart' /\ HashPart' /\ Fresh'
  <2>1. \A i \in DOMAIN Thread : Thread[i].ret.second \in Nat
    <3>1. \A i \in DOMAIN Thread : Thread[i] \in ThreadEntry
      BY <1>1 DEF ExecTypeOK
    <3> QED
      BY <3>1, EntryFields DEF Runs
  <2>2. FloorPart'
    BY <1>1, <1>7, <2>1, FloorKept DEF ExecIInv
  <2> QED
    BY <1>1, <2>2 DEF ExecIInv, HashPart, Fresh, NotOld
<1>10. WholePart'
  BY <1>1, <1>7 DEF ExecIInv, WholePart
<1>11. OnePart'
  <2>1. \A k : ThreadsOf(k)' = ThreadsOf(k)
    BY <1>7, SameThreads
  <2> QED
    BY <1>1, <2>1, OneKept DEF ExecIInv
<1> QED
  BY <1>7, <1>8, <1>9, <1>10, <1>11 DEF ExecIInv

LEMMA UnlockNext ==
  ASSUME ExecIInv, Unlock
  PROVE  ExecIInv'
<1> DEFINE t == Thread[thread]
<1>1. /\ main = "unlock" /\ main' = "idle"
      /\ Thread' = [Thread EXCEPT ![thread] = Given(t)]
      /\ result' = EXEC[CRC[cmd]].val /\ copied' = 0
      /\ UNCHANGED <<EXEC, cmd, got_signal, floor, setbacks>>
      /\ ExecTypeOK /\ CRC[cmd] \in Keys
  BY KeyOf DEF Unlock, ExecIInv
<1>2. thread \in DOMAIN Thread
  BY <1>1, ThreadFound DEF ExecIInv, TablePart, thread
<1>3. EntryOK(t, TRUE, got_signal) /\ got_signal \in BOOLEAN
  <2>1. MainHolds(thread) = TRUE
    BY <1>1 DEF MainHolds
  <2> QED
    BY <1>1, <1>2, <2>1 DEF ExecIInv, TablePart, ExecTypeOK
<1> HIDE DEF t
<1>5. /\ EntryOK(Given(t), FALSE, got_signal)
      /\ Given(t).key = t.key /\ Given(t).mutex = t.mutex /\ Given(t).ret = t.ret
  BY <1>3, GivenProperty
<1>7. /\ Thread' \in Seq(ThreadEntry)
      /\ TablePart'
      /\ \A i \in DOMAIN Thread :
           /\ Thread'[i].key = Thread[i].key
           /\ Thread'[i].mutex = Thread[i].mutex
           /\ Thread'[i].ret = Thread[i].ret
      /\ DOMAIN Thread' = DOMAIN Thread
  BY <1>1, <1>5, OwnNext DEF t
<1>8. /\ EXEC[CRC[cmd]].val \in Halves /\ 0 \in Runs
  <2>1. EXEC[CRC[cmd]] \in [val : Halves, age : Ages]
    BY <1>1 DEF ExecTypeOK
  <2>2. EXEC[CRC[cmd]].val \in Halves
    BY <2>1
  <2> QED
    BY <1>1, <2>2, ExecAssumption DEF Runs
<1>9. ExecTypeOK'
  BY <1>1, <1>7, <1>8 DEF ExecTypeOK
<1>10. FloorPart' /\ HashPart' /\ Fresh'
  <2>1. \A i \in DOMAIN Thread : Thread[i].ret.second \in Nat
    <3>1. \A i \in DOMAIN Thread : Thread[i] \in ThreadEntry
      BY <1>1 DEF ExecTypeOK
    <3> QED
      BY <3>1, EntryFields DEF Runs
  <2>2. FloorPart'
    BY <1>1, <1>7, <2>1, FloorKept DEF ExecIInv
  <2> QED
    BY <1>1, <2>2 DEF ExecIInv, HashPart, Fresh, NotOld
<1>11. WholePart'
  BY <1>1, <1>7 DEF ExecIInv, WholePart
<1>12. OnePart'
  <2>1. \A k : ThreadsOf(k)' = ThreadsOf(k)
    BY <1>7, SameThreads
  <2> QED
    BY <1>1, <2>1, OneKept DEF ExecIInv
<1> QED
  BY <1>7, <1>9, <1>10, <1>11, <1>12 DEF ExecIInv

\* The steps that leave the thread table alone while do_exec() reads an entry.
LEMMA CopyNext ==
  ASSUME ExecIInv, Interrupt \/ Copy1 \/ Copy2
  PROVE  ExecIInv'
<1>1. /\ main \in {"lock", "copy1", "copy2"}
      /\ UNCHANGED <<Thread, cmd, result, floor, setbacks>>
      /\ ExecTypeOK /\ CRC[cmd] \in Keys
  BY KeyOf DEF Interrupt, Copy1, Copy2, ExecIInv
<1>2. thread \in DOMAIN Thread /\ Thread[thread].key = CRC[cmd]
  BY <1>1, ThreadFound DEF ExecIInv, TablePart, thread
<1>3. /\ \A key : ThreadsOf(key)' = ThreadsOf(key) /\ FirstThread(key)' = FirstThread(key)
      /\ thread' = thread
  BY <1>1, SameThreads DEF thread
<1>4. Thread[thread] \in ThreadEntry
  BY <1>1, <1>2, KeyOf
<1>5. /\ Thread[thread].ret.first \in Runs /\ Thread[thread].ret.second \in Runs
  BY <1>4, EntryFields
<1>6. CASE Interrupt
  <2>1. /\ main = "lock" /\ main' = "copy1" /\ ~Free(thread) /\ got_signal = FALSE
        /\ got_signal' = TRUE /\ UNCHANGED <<EXEC, copied>>
    BY <1>1, <1>6 DEF Interrupt, ExecTypeOK
  <2>2. Thread[thread].sem = 0
    <3>1. Thread[thread].sem \in 0..2
      BY <1>4, EntryFields
    <3> QED
      BY <2>1, <3>1 DEF Free
  <2>3. TablePart'
    <3>1. \A i : MainHolds(i) = FALSE
      BY <2>1 DEF MainHolds
    <3>2. \A i : MainHolds(i)' = (i = thread)
      BY <1>3, <2>1 DEF MainHolds
    <3>3. \A i \in DOMAIN Thread :
            /\ EntryOK(Thread[i], FALSE, TRUE)
            /\ Thread[i].sem = 0 => EntryOK(Thread[i], TRUE, TRUE)
      BY <2>1, <3>1, InterruptedProperty DEF ExecIInv, TablePart
    <3>4. \A i \in DOMAIN Thread : EntryOK(Thread[i], MainHolds(i)', TRUE)
      <4> SUFFICES ASSUME NEW i \in DOMAIN Thread
                   PROVE  EntryOK(Thread[i], MainHolds(i)', TRUE)
        OBVIOUS
      <4>1. CASE i = thread
        <5>1. MainHolds(i)' = TRUE
          BY <3>2, <4>1
        <5> QED
          BY <2>2, <3>3, <4>1, <5>1
      <4>2. CASE i # thread
        <5>1. MainHolds(i)' = FALSE
          BY <3>2, <4>2
        <5> QED
          BY <3>3, <5>1
      <4> QED
        BY <4>1, <4>2
    <3> QED
      BY <1>1, <1>3, <2>1, <3>4 DEF ExecIInv, TablePart
  <2>4. ExecTypeOK'
    BY <1>1, <2>1 DEF ExecTypeOK
  <2>5. FloorPart' /\ HashPart' /\ Fresh'
    BY <1>1, <1>3, <2>1 DEF ExecIInv, FloorPart, HashPart, Fresh, NotOld
  <2>6. WholePart' /\ OnePart'
    BY <1>1, <1>3, <2>1, OneKept DEF ExecIInv, WholePart
  <2> QED
    BY <2>3, <2>4, <2>5, <2>6 DEF ExecIInv
<1>7. CASE Copy1 \/ Copy2
  <2>1. /\ main \in {"copy1", "copy2"} /\ main' \in {"copy2", "unlock"}
        /\ UNCHANGED got_signal
    BY <1>7 DEF Copy1, Copy2
  <2>2. TablePart'
    <3>1. \A i : MainHolds(i)' = MainHolds(i)
      BY <1>3, <2>1 DEF MainHolds
    <3> QED
      BY <1>1, <1>3, <2>1, <3>1 DEF ExecIInv, TablePart
  <2>3. CASE Copy1
    <3>1. /\ main = "copy1" /\ main' = "copy2" /\ copied' = Thread[thread].ret.first
          /\ UNCHANGED EXEC
      BY <2>3 DEF Copy1
    <3>2. ExecTypeOK'
      BY <1>1, <1>5, <2>1, <3>1 DEF ExecTypeOK
    <3>3. FloorPart' /\ HashPart' /\ Fresh'
      BY <1>1, <1>3, <3>1 DEF ExecIInv, FloorPart, HashPart, Fresh, NotOld
    <3>4. WholePart' /\ OnePart'
      BY <1>1, <1>3, <2>1, <3>1, OneKept DEF ExecIInv, WholePart
    <3> QED
      BY <2>2, <3>2, <3>3, <3>4 DEF ExecIInv
  <2>4. CASE Copy2
    <3> DEFINE val == [first |-> copied, second |-> Thread[thread].ret.second]
    <3>1. /\ main = "copy2" /\ main' = "unlock" /\ UNCHANGED copied
          /\ Put(CRC[cmd], val)
      BY <2>4 DEF Copy2
    <3>2. val \in Halves /\ val.first = copied /\ val.second = Thread[thread].ret.second
      BY <1>1, <1>5 DEF Halves, ExecTypeOK
    <3> HIDE DEF val
    <3>3. /\ EXEC' \in [Keys -> [val : Halves, age : Ages]]
          /\ EXEC'[CRC[cmd]].val = val /\ EXEC'[CRC[cmd]].age = "zero"
          /\ \A k \in Keys : k # CRC[cmd] => EXEC'[k] = EXEC[k]
      BY <1>1, <3>1, <3>2, PutProperty
    <3>4. ExecTypeOK'
      BY <1>1, <2>1, <3>1, <3>3 DEF ExecTypeOK
    <3>5. FloorPart' /\ HashPart' /\ Fresh'
      <4>1. FloorPart'
        BY <1>1, <1>3 DEF ExecIInv, FloorPart
      <4>2. NotOld(val, CRC[cmd])
        <5>1. ThreadsOf(CRC[cmd]) # {}
          BY <3>1 DEF ExecIInv, TablePart
        <5>2. floor[CRC[cmd]] <= Thread[thread].ret.second
          BY <1>1, <5>1 DEF ExecIInv, FloorPart, thread
        <5>3. floor[CRC[cmd]] \in Nat /\ val.second \in Nat
          BY <1>1, <1>5, <3>2 DEF ExecTypeOK, Runs
        <5> QED
          BY <3>2, <5>2, <5>3 DEF NotOld
      <4>3. \A k \in Keys : NotOld(EXEC'[k].val, k)
        BY <3>1, <3>3, <4>2 DEF ExecIInv, HashPart
      <4> QED
        BY <1>1, <3>1, <4>1, <4>3 DEF HashPart, Fresh, NotOld
    <3>6. WholePart'
      <4> SUFFICES ASSUME "semget" \notin Failing PROVE WholePart'
        BY DEF WholePart
      <4>1. \A i \in DOMAIN Thread : Thread[i].mutex
        BY DEF ExecIInv, WholePart
      <4>2. ~got_signal => val.first = val.second
        <5>1. ~got_signal => copied = Thread[thread].ret.first
          BY <3>1 DEF ExecIInv, WholePart
        <5>2. MainHolds(thread) = TRUE
          BY <3>1 DEF MainHolds
        <5>3. EntryOK(Thread[thread], TRUE, got_signal)
          BY <1>2, <5>2 DEF ExecIInv, TablePart
        <5>4. Thread[thread].mutex
          BY <1>2, <4>1
        <5> QED
          BY <3>2, <5>1, <5>3, <5>4 DEF EntryOK
      <4>3. ~got_signal => \A k \in Keys : EXEC'[k].val.first = EXEC'[k].val.second
        BY <3>3, <4>2 DEF ExecIInv, WholePart
      <4> QED
        BY <1>1, <2>1, <3>1, <4>1, <4>3 DEF ExecIInv, WholePart
    <3>7. OnePart'
      <4>1. \A k \in Keys : EXEC'[k].age = EXEC[k].age \/ EXEC'[k].age = "zero"
        BY <3>3
      <4> QED
        BY <1>1, <1>3, <4>1, OneKept DEF ExecIInv
    <3> QED
      BY <2>2, <3>4, <3>5, <3>6, <3>7 DEF ExecIInv
  <2> QED
    BY <1>7, <2>3, <2>4
<1> QED
  BY <1>6, <1>7

LEMMA ExitNext ==
  ASSUME ExecIInv, Exit
  PROVE  ExecIInv'
<1>1. /\ main' = "exit" /\ Thread' = <<>>
      /\ floor' = [k \in Keys |-> 0]
      /\ UNCHANGED <<cmd, copied, result, got_signal, setbacks>>
      /\ ExecTypeOK
  BY DEF Exit, ExecIInv
<1>2. EXEC' = [k \in Keys |-> [val |-> Empty, age |-> "absent"]]
  BY DEF Exit
<1>3. EXEC' \in [Keys -> [val : Halves, age : Ages]]
  BY <1>2, EmptyEntry
<1>4. \A k \in Keys : EXEC'[k].age = "absent" /\ EXEC'[k].val = Empty
  BY <1>2
<1>5. ExecTypeOK'
  <2>1. floor' \in [Keys -> Runs]
    BY <1>1, ExecAssumption DEF Runs
  <2> QED
    BY <1>1, <1>3, <2>1 DEF ExecTypeOK
<1>6. TablePart' /\ FloorPart' /\ HashPart' /\ Fresh'
  <2>1. \A k \in Keys : ThreadsOf(k)' = {} /\ floor'[k] = 0
    BY <1>1 DEF ThreadsOf
  <2> QED
    BY <1>1, <1>4, <2>1 DEF TablePart, FloorPart, HashPart, Fresh, NotOld, Empty
<1>7. WholePart'
  BY <1>1, <1>4 DEF ExecIInv, WholePart, Empty
<1>8. OnePart'
  <2>1. \A k \in Keys : ThreadsOf(k)' = {} /\ setbacks'[k] \in Nat
    BY <1>1, ExecAssumption DEF ThreadsOf, ExecTypeOK
  <2>2. Cardinality({}) = 0
    BY FS_EmptySet
  <2>3. \A k \in Keys : Count(Missing(k)') = 1
    BY <1>4 DEF Count, Missing
  <2>4. \A k \in Keys : Cardinality(ThreadsOf(k)') + Count(Missing(k)') <= 1 + setbacks'[k]
    BY <2>1, <2>2, <2>3
  <2> QED
    BY <1>4, <2>1, <2>4 DEF OnePart, Count
<1> QED
  BY <1>5, <1>6, <1>7, <1>8 DEF ExecIInv

\* Time passes, or the clock is set back behind an entry.
LEMMA AgeingNext ==
  ASSUME ExecIInv, NEW k \in Keys, Ageing(k) \/ SetBack(k)
  PROVE  ExecIInv'
<1>1. PICK age \in Ages \ {"absent"} :
        /\ EXEC' = [EXEC EXCEPT ![k].age = age]
        /\ EXEC[k].age # "absent"
        /\ \/ age # "negative" /\ UNCHANGED setbacks
           \/ /\ age = "negative" /\ EXEC[k].age # "negative"
              /\ \A j \in Keys : setbacks[j] < MaxSetbacks
              /\ setbacks' = [setbacks EXCEPT ![k] = setbacks[k] + 1]
  <2>1. CASE Ageing(k)
    <3>1. PICK older \in {"zero", "recent", "old"} :
            /\ <<EXEC[k].age, older>> \in {<<"negative", "zero">>, <<"zero", "recent">>,
                                           <<"recent", "old">>}
            /\ EXEC' = [EXEC EXCEPT ![k].age = older]
      BY <2>1 DEF Ageing
    <3> QED
      BY <2>1, <3>1 DEF Ageing, Ages
  <2>2. CASE SetBack(k)
    BY <2>2 DEF SetBack, Ages
  <2> QED
    BY <2>1, <2>2
<1>2. /\ UNCHANGED <<Thread, main, cmd, copied, result, got_signal, floor>>
      /\ ExecTypeOK
  BY DEF Ageing, SetBack, ExecIInv
<1>3. EXEC \in [Keys -> [val : Halves, age : Ages]]
  BY <1>2 DEF ExecTypeOK
<1> DEFINE e == [EXEC[k] EXCEPT !.age = age]
<1>4. e \in [val : Halves, age : Ages] /\ e.val = EXEC[k].val /\ e.age = age
  <2>1. EXEC[k] \in [val : Halves, age : Ages]
    BY <1>3
  <2> QED
    BY <2>1
<1>5. EXEC' = [EXEC EXCEPT ![k] = e]
  BY <1>1
<1> HIDE DEF e
<1>6. /\ EXEC' \in [Keys -> [val : Halves, age : Ages]]
      /\ \A j \in Keys : EXEC'[j].val = EXEC[j].val
      /\ EXEC'[k].age = age
      /\ \A j \in Keys : j # k => EXEC'[j].age = EXEC[j].age
  BY <1>3, <1>4, <1>5
<1>S. /\ setbacks' \in [Keys -> 0..MaxSetbacks]
      /\ \A j \in Keys : setbacks[j] \in Nat /\ setbacks'[j] \in Nat
                       /\ setbacks[j] <= setbacks'[j]
  <2>1. setbacks \in [Keys -> 0..MaxSetbacks] /\ MaxSetbacks \in Nat
    BY <1>2, ExecAssumption DEF ExecTypeOK
  <2> QED
    BY <1>1, <2>1
<1>7. ExecTypeOK'
  BY <1>2, <1>6, <1>S DEF ExecTypeOK
<1>8. /\ \A key : ThreadsOf(key)' = ThreadsOf(key) /\ FirstThread(key)' = FirstThread(key)
      /\ thread' = thread /\ CRC[cmd] \in Keys
  BY <1>2, SameThreads, KeyOf DEF thread
<1>9. TablePart'
  <2>1. \A i : MainHolds(i)' = MainHolds(i)
    BY <1>2, <1>8 DEF MainHolds
  <2> QED
    BY <1>2, <1>8, <2>1 DEF ExecIInv, TablePart
<1>10. FloorPart' /\ HashPart' /\ Fresh'
  <2>1. FloorPart'
    BY <1>2, <1>8 DEF ExecIInv, FloorPart
  <2>2. \A val : \A j \in Keys : NotOld(val, j) => NotOld(val, j)'
    BY <1>2, <1>S DEF NotOld
  <2> QED
    BY <1>2, <1>6, <1>8, <2>1, <2>2 DEF ExecIInv, HashPart, Fresh, NotOld
<1>11. WholePart'
  BY <1>2, <1>6, <1>8 DEF ExecIInv, WholePart
<1>12. OnePart'
  <2>1. CASE UNCHANGED setbacks /\ age # "negative"
    <3>1. \A j \in Keys : EXEC'[j].age = EXEC[j].age \/ EXEC'[j].age \in {"zero", "recent", "old"}
      BY <1>6, <2>1 DEF Ages
    <3> QED
      BY <1>2, <1>8, <2>1, <3>1, OneKept DEF ExecIInv
  <2>2. CASE /\ age = "negative" /\ EXEC[k].age # "negative"
             /\ setbacks' = [setbacks EXCEPT ![k] = setbacks[k] + 1]
    <3> SUFFICES ASSUME NEW j \in Keys
                 PROVE  /\ Cardinality(ThreadsOf(j)) + Count(Missing(j)') <= 1 + setbacks'[j]
                        /\ EXEC'[j].age = "negative" => setbacks'[j] > 0
                        /\ EXEC'[j].age = "absent" => ThreadsOf(j) = {}
      BY <1>8 DEF OnePart, Count
    <3>1. CASE j = k
      <4>1. Count(Missing(j)) = 0 /\ Count(Missing(j)') = 1
        BY <1>1, <1>6, <2>2, <3>1 DEF Count, Missing
      <4>2. Cardinality(ThreadsOf(j)) + 0 <= 1 + setbacks[j]
        BY <4>1 DEF ExecIInv, OnePart
      <4>3. setbacks'[j] = setbacks[j] + 1
        BY <1>2, <2>2, <3>1 DEF ExecTypeOK
      <4>4. Cardinality(ThreadsOf(j)) \in Nat
        BY <1>2, ThreadsFinite
      <4> QED
        BY <1>6, <1>S, <2>2, <3>1, <4>1, <4>2, <4>3, <4>4
    <3>2. CASE j # k
      <4>1. EXEC'[j].age = EXEC[j].age /\ setbacks'[j] = setbacks[j]
        BY <1>2, <1>6, <2>2, <3>2 DEF ExecTypeOK
      <4>2. Count(Missing(j)') = Count(Missing(j))
        BY <4>1 DEF Count, Missing
      <4> QED
        BY <4>1, <4>2 DEF ExecIInv, OnePart
    <3> QED
      BY <3>1, <3>2
  <2> QED
    BY <1>1, <2>1, <2>2
<1> QED
  BY <1>7, <1>9, <1>10, <1>11, <1>12 DEF ExecIInv

LEMMA ExecINext == ExecIInv /\ [Next]_vars => ExecIInv'
<1> SUFFICES ASSUME ExecIInv, [Next]_vars PROVE ExecIInv'
  OBVIOUS
<1>1. CASE UNCHANGED vars
  BY <1>1 DEF vars, ExecIInv, ExecTypeOK, TablePart, FloorPart, HashPart, Fresh, NotOld,
              WholePart, OnePart, Missing, Count, MainHolds, ThreadsOf, thread, FirstThread
<1> QED
  BY <1>1, ChildNext, FirstTimeNext, IdleNext, LockNext, UnlockNext, CopyNext, ExitNext,
     AgeingNext DEF Next, DoExec

LEMMA ExecIInvariant == Spec => []ExecIInv
  BY ExecIInit, ExecINext, PTL DEF Spec

-----------------------------------------------------------------------------
(***************************************************************************)
(* The theorems                                                            *)
(***************************************************************************)

\* No semaphore of plugin_exec.c ever exceeds two, and two only after a signal has
\* broken a wait; everything else keeps its type, too.
THEOREM ExecTypeCorrect == Spec => []ExecTypeOK
<1>1. ExecIInv => ExecTypeOK
  BY DEF ExecIInv
<1> QED
  BY <1>1, ExecIInvariant, PTL

\* No answer of exec(), copied or from the hash, is older than what was there when
\* it last copied the output of its command; only after the clock was set back it may
\* be empty.  A second child of the command, started then, never gets to be read.
THEOREM NeverStale == Spec => []Fresh
<1>1. ExecIInv => Fresh
  BY DEF ExecIInv
<1> QED
  BY <1>1, ExecIInvariant, PTL

\* If semget() never fails, exec() never gives a mixture of two outputs, wherever a
\* child is killed: the mutex is released only by the process that has written all.
THEOREM NeverTorn ==
  ASSUME "semget" \notin Failing
  PROVE  Spec => []NoTornRead
<1>1. ExecIInv => NoTornRead
  BY DEF ExecIInv, WholePart, NoTornRead
<1> QED
  BY <1>1, ExecIInvariant, PTL

\* A command has one child, and one more for every time the clock was set back.
THEOREM ChildrenKnown == Spec => []ChildrenCounted
<1>1. ExecIInv => ChildrenCounted
  <2> SUFFICES ASSUME ExecIInv, NEW k \in Keys
               PROVE  Cardinality(ThreadsOf(k)) <= 1 + setbacks[k]
    BY DEF ChildrenCounted
  <2>1. Cardinality(ThreadsOf(k)) + Count(Missing(k)) <= 1 + setbacks[k]
    BY DEF ExecIInv, OnePart
  <2>2. Cardinality(ThreadsOf(k)) \in Nat /\ setbacks[k] \in Nat
    BY ThreadsFinite, ExecAssumption DEF ExecIInv, ExecTypeOK
  <2>3. Count(Missing(k)) \in 0..1
    BY DEF Count
  <2> QED
    BY <2>1, <2>2, <2>3
<1> QED
  BY <1>1, ExecIInvariant, PTL

\* The invariant the run checks.
THEOREM ExecInvariant ==
  ASSUME "semget" \notin Failing
  PROVE  Spec => []ExecInv
  BY ExecTypeCorrect, NeverTorn, ChildrenKnown, PTL DEF ExecInv
=============================================================================
