-------------------------------- MODULE Exec --------------------------------
(***************************************************************************)
(* The exec plugin (plugin_exec.c) on the processes, semaphores and shared *)
(* memory of thread.c.  For every command exec() forks a child that runs   *)
(* the command again and again and copies its output into shared memory;   *)
(* exec() itself, called by the evaluator, copies it from there into a     *)
(* hash, and gives the hashed value as long as it is recent.               *)
(*                                                                         *)
(* An output is told by the number of the run that made it (0: the empty   *)
(* string); a string being copied by the output its first and its second   *)
(* half belong to.  The age of a hash entry is one of the ranges that      *)
(* do_exec() tells apart: below 0, 0, up to 10 and over 10 milliseconds.   *)
(***************************************************************************)
EXTENDS Naturals, Sequences, FiniteSetsExt

CONSTANTS
  Cmds,         \* the commands the configuration asks for
  CRC,          \* the key each command is hashed to
  NumThreads,   \* NUM_THREADS
  Failing,      \* the calls that may fail: "semget", "shmget", "fork"
  MaxRuns,      \* bound: how often a child runs its command
  MaxSetbacks   \* bound: an entry has the clock set back behind it so often, and
                \* then none any more

ASSUME ExecAssumption ==
  /\ DOMAIN CRC = Cmds
  /\ NumThreads \in Nat
  /\ Failing \subseteq {"semget", "shmget", "fork"}
  /\ MaxRuns \in Nat
  /\ MaxSetbacks \in Nat

VARIABLES
  Thread,       \* the table: entry, its child, its semaphore and its memory
  EXEC,         \* the hash: value and age of each key
  main,         \* where the main process is
  cmd,          \* the command exec() was last called for
  copied,       \* first half of the copy do_exec() makes
  result,       \* what the last call of exec() gave
  got_signal,   \* has a signal interrupted the main process?
  floor,        \* history: the output of each key that was published when
                \* do_exec() last began to copy it
  setbacks      \* history: how often the clock was set back behind each entry

vars == <<Thread, EXEC, main, cmd, copied, result, got_signal, floor, setbacks>>

Keys == {CRC[c] : c \in Cmds}
Runs == 0..MaxRuns
Halves == [first: Runs, second: Runs]
Empty == [first |-> 0, second |-> 0]
Ages == {"absent", "negative", "zero", "recent", "old"}

\* mutex is FALSE when mutex_create() failed: locking such a mutex fails, too,
\* and nobody looks at the result.
ThreadEntry ==
  [key: Keys, mutex: BOOLEAN, sem: 0..2, ret: Halves, runs: Runs,
   child: {"run", "lock", "write1", "write2", "unlock", "dead"}]

ExecTypeOK ==
  /\ Thread \in Seq(ThreadEntry)
  /\ EXEC \in [Keys -> [val: Halves, age: Ages]]
  /\ main \in {"idle", "lock", "copy1", "copy2", "unlock", "exit"}
  /\ cmd \in Cmds
  /\ copied \in Runs
  /\ result \in Halves
  /\ got_signal \in BOOLEAN
  /\ floor \in [Keys -> Runs]
  /\ setbacks \in [Keys -> 0..MaxSetbacks]

Init ==
  /\ Thread = <<>>
  /\ EXEC = [k \in Keys |-> [val |-> Empty, age |-> "absent"]]
  /\ main = "idle"
  /\ cmd \in Cmds
  /\ copied = 0
  /\ result = Empty
  /\ got_signal = FALSE
  /\ floor = [k \in Keys |-> 0]
  /\ setbacks = [k \in Keys |-> 0]

-----------------------------------------------------------------------------
(***************************************************************************)
(* The child: exec_thread()                                                *)
(***************************************************************************)
Others == <<EXEC, main, cmd, copied, result, got_signal, floor, setbacks>>

Step(i, from, to) ==
  Thread[i].child = from /\ Thread' = [Thread EXCEPT ![i] = to] /\ UNCHANGED Others

\* usleep(), popen(), fread(), pclose(): one more output, in a local buffer.
\* When popen() fails the output is empty, which makes no difference here.
Run(i) ==
  /\ Thread[i].runs < MaxRuns
  /\ Step(i, "run", [Thread[i] EXCEPT !.child = "lock", !.runs = @ + 1])

Free(i) == Thread[i].mutex => Thread[i].sem > 0

Taken(t) == IF t.mutex THEN [t EXCEPT !.sem = @ - 1] ELSE t
Given(t) == IF t.mutex THEN [t EXCEPT !.sem = @ + 1] ELSE t

ChildLock_Never_Bug(i) ==
  Step(i, "lock", [Thread[i] EXCEPT !.child = "write1", !.sem = 0])

ChildLock(i) ==
  Free(i) /\ Step(i, "lock", [Taken(Thread[i]) EXCEPT !.child = "write1"])

\* strncpy() into the shared memory.
ChildWrite1(i) ==
  Step(i, "write1", [Thread[i] EXCEPT !.child = "write2",
                                      !.ret.first = Thread[i].runs])

ChildWrite2(i) ==
  Step(i, "write2", [Thread[i] EXCEPT !.child = "unlock",
                                      !.ret.second = Thread[i].runs])

ChildUnlock_Forgotten_Bug(i) ==
  Step(i, "unlock", [Thread[i] EXCEPT !.child = "run"])

ChildUnlock(i) ==
  Step(i, "unlock", [Given(Thread[i]) EXCEPT !.child = "run"])

ExecThread(i) ==
  Run(i) \/ ChildLock(i) \/ ChildWrite1(i) \/ ChildWrite2(i) \/ ChildUnlock(i)

\* Somebody kills a child: the semaphore is left as it is (no SEM_UNDO).
Killed(t) == [t EXCEPT !.child = "dead"]

Die(i) == Thread[i].child # "dead" /\ Step(i, Thread[i].child, Killed(Thread[i]))

-----------------------------------------------------------------------------
(***************************************************************************)
(* The main process: do_exec()                                             *)
(***************************************************************************)

\* create_exec_thread().  A failure after the entry was made destroys a thread
\* whose pid is still -1: kill(-1, SIGKILL) kills every other process.  The
\* test for a free entry lets one entry too many through.
CreateThread(key) ==
  IF Len(Thread) > NumThreads
  THEN UNCHANGED Thread
  ELSE \/ \E mutex \in IF "semget" \in Failing THEN BOOLEAN ELSE {TRUE} :
            Thread' = Append(Thread,
                             [key |-> key, mutex |-> mutex, sem |-> 1,
                              ret |-> Empty, runs |-> 0, child |-> "run"])
       \/ /\ Failing \cap {"shmget", "fork"} # {}
          /\ Thread' = [i \in DOMAIN Thread |-> Killed(Thread[i])]

ThreadsOf(key) == {i \in DOMAIN Thread : Thread[i].key = key}

FirstThread(key) == Min(ThreadsOf(key))

\* The thread found for the present command.
thread == FirstThread(CRC[cmd])

Put(key, val) == EXEC' = [EXEC EXCEPT ![key] = [val |-> val, age |-> "zero"]]

Give(c, val) ==
  /\ cmd' = c
  /\ result' = val
  /\ UNCHANGED <<main, copied, got_signal, floor, setbacks>>

FirstTime_NotHashed_Bug(c) ==
  /\ main = "idle"
  /\ EXEC[CRC[c]].age \in {"absent", "negative"}
  /\ UNCHANGED EXEC
  /\ CreateThread(CRC[c])
  /\ Give(c, Empty)

\* hash_age() < 0 is meant to say that there is no entry yet, but says so, too,
\* of an entry from the future, after the clock was set back.  The command is
\* started (once more), and its output is empty so far; so it is when that fails.
FirstTime(c) ==
  /\ main = "idle"
  /\ EXEC[CRC[c]].age \in {"absent", "negative"}
  /\ Put(CRC[c], Empty)
  /\ CreateThread(CRC[c])
  /\ Give(c, Empty)

Cached(c) ==
  /\ main = "idle"
  /\ EXEC[CRC[c]].age = "recent"
  /\ Give(c, EXEC[CRC[c]].val)
  /\ UNCHANGED <<Thread, EXEC>>

\* After a failed creation the entry stays, and no thread is ever found.
NotFound(c) ==
  /\ main = "idle"
  /\ EXEC[CRC[c]].age \in {"zero", "old"}
  /\ ThreadsOf(CRC[c]) = {}
  /\ Give(c, Empty)
  /\ UNCHANGED <<Thread, EXEC>>

Reread(c) ==
  /\ main = "idle"
  /\ EXEC[CRC[c]].age \in {"zero", "old"}
  /\ ThreadsOf(CRC[c]) # {}
  /\ cmd' = c
  /\ main' = "lock"
  /\ floor' = [floor EXCEPT ![CRC[c]] = Thread[FirstThread(CRC[c])].ret.second]
  /\ UNCHANGED <<Thread, EXEC, copied, result, got_signal, setbacks>>

Lock ==
  /\ main = "lock"
  /\ Free(thread)
  /\ Thread' = [Thread EXCEPT ![thread] = Taken(@)]
  /\ main' = "copy1"
  /\ UNCHANGED <<EXEC, cmd, copied, result, got_signal, floor, setbacks>>

\* A signal makes a semop() that waits return without the semaphore.
Interrupt ==
  /\ main = "lock"
  /\ ~Free(thread)
  /\ ~got_signal
  /\ got_signal' = TRUE
  /\ main' = "copy1"
  /\ UNCHANGED <<Thread, EXEC, cmd, copied, result, floor, setbacks>>

\* hash_put() copies the shared memory.
Copy1 ==
  /\ main = "copy1"
  /\ copied' = Thread[thread].ret.first
  /\ main' = "copy2"
  /\ UNCHANGED <<Thread, EXEC, cmd, result, got_signal, floor, setbacks>>

Copy2_KeepsOld_Bug ==
  /\ main = "copy2"
  /\ Put(CRC[cmd], EXEC[CRC[cmd]].val)
  /\ main' = "unlock"
  /\ UNCHANGED <<Thread, cmd, copied, result, got_signal, floor, setbacks>>

Copy2 ==
  /\ main = "copy2"
  /\ Put(CRC[cmd], [first |-> copied, second |-> Thread[thread].ret.second])
  /\ main' = "unlock"
  /\ UNCHANGED <<Thread, cmd, copied, result, got_signal, floor, setbacks>>

Unlock_Twice_Bug ==
  /\ main = "unlock"
  /\ Thread' = [Thread EXCEPT ![thread] = Given(Given(@))]
  /\ main' = "idle"
  /\ result' = EXEC[CRC[cmd]].val
  /\ copied' = 0
  /\ UNCHANGED <<EXEC, cmd, got_signal, floor, setbacks>>

\* my_exec() takes the value from the hash.
Unlock ==
  /\ main = "unlock"
  /\ Thread' = [Thread EXCEPT ![thread] = Given(@)]
  /\ main' = "idle"
  /\ result' = EXEC[CRC[cmd]].val
  /\ copied' = 0
  /\ UNCHANGED <<EXEC, cmd, got_signal, floor, setbacks>>

\* plugin_exit_exec() kills the children and removes semaphores and memory.
Exit ==
  /\ main = "idle"
  /\ main' = "exit"
  /\ Thread' = <<>>
  /\ EXEC' = [k \in Keys |-> [val |-> Empty, age |-> "absent"]]
  /\ floor' = [k \in Keys |-> 0]
  /\ UNCHANGED <<cmd, copied, result, got_signal, setbacks>>

\* Time passes.
Ageing(k) ==
  /\ \E older \in {"zero", "recent", "old"} :
       /\ <<EXEC[k].age, older>> \in {<<"negative", "zero">>, <<"zero", "recent">>,
                                      <<"recent", "old">>}
       /\ EXEC' = [EXEC EXCEPT ![k].age = older]
  /\ UNCHANGED <<Thread, main, cmd, copied, result, got_signal, floor, setbacks>>

\* Somebody sets the clock back behind the time the entry was made at.
SetBack(k) ==
  /\ EXEC[k].age \in {"zero", "recent", "old"}
  /\ \A j \in Keys : setbacks[j] < MaxSetbacks
  /\ EXEC' = [EXEC EXCEPT ![k].age = "negative"]
  /\ setbacks' = [setbacks EXCEPT ![k] = @ + 1]
  /\ UNCHANGED <<Thread, main, cmd, copied, result, got_signal, floor>>

DoExec == Lock \/ Copy1 \/ Copy2 \/ Unlock

Next ==
  \/ \E i \in DOMAIN Thread : ExecThread(i) \/ Die(i)
  \/ \E c \in Cmds : FirstTime(c) \/ Cached(c) \/ NotFound(c) \/ Reread(c)
  \/ DoExec \/ Interrupt
  \/ Exit
  \/ \E k \in Keys : Ageing(k) \/ SetBack(k)

Spec == Init /\ [][Next]_vars

\* Both processes run on; a System V semaphore serves its waiters in turn.
Fairness ==
  /\ SF_vars(Lock) /\ WF_vars(DoExec)
  /\ \A i \in 1..(NumThreads + 1) : WF_vars(i \in DOMAIN Thread /\ ExecThread(i))

FairSpec == Spec /\ Fairness

-----------------------------------------------------------------------------
(***************************************************************************)
(* Properties                                                              *)
(***************************************************************************)

\* exec() never gives a mixture of two outputs of its command, although the
\* child writes at any time and may be killed in the middle of it (unless a
\* signal has broken the wait for the semaphore, which ends the program soon).
NoTornRead == ~got_signal => result.first = result.second

\* No older than what was published when do_exec() last copied the output of key k;
\* only when the clock was set back behind its entry, it may have been emptied.
NotOld(val, k) == val.second >= floor[k] \/ (setbacks[k] > 0 /\ val = Empty)

\* What exec() answers, copied now or taken from the hash, is no older than what
\* was there when it last copied the output of that command, so that no answer goes
\* back behind an earlier one.  Only after the clock was set back behind the entry
\* the command is taken for a new one, and an answer may be empty.
Fresh == main = "idle" => NotOld(result, CRC[cmd])

\* One command has one child, and one more at most for every time the clock was set
\* back behind its entry: nobody else makes do_exec() start the command again.
ChildrenCounted == \A k \in Keys : Cardinality(ThreadsOf(k)) <= 1 + setbacks[k]

\* exec() returns, unless the child it waits for was killed: a child that died
\* with the semaphore blocks the main process for ever.
ExecReturns ==
  main \in {"lock", "copy1", "copy2", "unlock"} ~>
    \/ main \in {"idle", "exit"}
    \/ \E i \in ThreadsOf(CRC[cmd]) : Thread[i].child = "dead"

\* No child nobody accounts for, and never a mixture of two outputs of a command:
\* what do_exec() relies on and keeps.
ExecInv == ExecTypeOK /\ ChildrenCounted /\ NoTornRead
=============================================================================
