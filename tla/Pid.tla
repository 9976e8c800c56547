-------------------------------- MODULE Pid --------------------------------
(***************************************************************************)
(* The PID file (pid.c) and the way main() in lcd4linux.c uses it.         *)
(*                                                                         *)
(* pid_init() creates the PID file with link(), which fails if the file is *)
(* there.  It then reads the PID in it and asks with kill(pid, 0) whether  *)
(* that process lives; a stale file is removed and link() tried again.     *)
(* Each system call is one step: other instances run between any two.     *)
(*                                                                         *)
(* A process is its PID, so a process that is started again after it has   *)
(* ended stands for a PID that is reused.  The temporary file, which no    *)
(* other process knows of, is left out.                                    *)
(*                                                                         *)
(* Any number of instances may start at once, and some run in the          *)
(* foreground: they take no lock, but remove the file when they end.  Two  *)
(* ghost variables note when the file of a holder was removed, and when    *)
(* there was a chance for that.                                            *)
(***************************************************************************)
EXTENDS FiniteSets

CONSTANTS
  Procs,        \* the instances of lcd4linux, by their PIDs
  Foreground    \* those started with -F or -i

NoFile == "no file"

ASSUME PidAssumption ==
  /\ Foreground \subseteq Procs
  /\ NoFile \notin Procs

VARIABLES
  pidfile,      \* the PID in the PID file, or NoFile
  pc,           \* where each process is
  seen,         \* the PID that pid_init() has read
  stolen,       \* was the file of another instance removed that has the lock?
  raced         \* did starts overlap, or an instance end in the foreground?

vars == <<pidfile, pc, seen, stolen, raced>>

Starting == {"link", "open", "check", "unlink"}
PidPCs == Starting \cup {"off", "daemon", "foreground", "leaving"}

PidTypeOK ==
  /\ pidfile \in Procs \cup {NoFile}
  /\ pc \in [Procs -> PidPCs]
  /\ seen \in [Procs -> Procs \cup {NoFile}]
  /\ \A p \in Procs : pc[p] = "check" => seen[p] \in Procs
  /\ stolen \in BOOLEAN /\ raced \in BOOLEAN

Init ==
  /\ pidfile = NoFile
  /\ pc = [p \in Procs |-> "off"]
  /\ seen = [p \in Procs |-> NoFile]
  /\ stolen = FALSE /\ raced = FALSE

Goto(p, to) == pc' = [pc EXCEPT ![p] = to]

Alive(p) == pc[p] # "off"

\* The processes that have the lock: daemons, and those that found their own
\* PID in the file.
Holds(p) == pc[p] = "daemon" \/ (pc[p] = "check" /\ seen[p] = p)

\* unlink() of the file, whosever it is by now.
Removes(p) ==
  /\ pidfile' = NoFile
  /\ stolen' = (stolen \/ \E q \in Procs \ {p} : pidfile = q /\ Holds(q))

-----------------------------------------------------------------------------
(***************************************************************************)
(* pid_init()                                                              *)
(***************************************************************************)

\* main() calls pid_init() in a process that goes to the background.
Start(p) ==
  /\ pc[p] = "off"
  /\ Goto(p, IF p \in Foreground THEN "foreground" ELSE "link")
  /\ raced' = (raced \/ (p \notin Foreground /\ \E q \in Procs : pc[q] \in Starting))
  /\ UNCHANGED <<pidfile, seen, stolen>>

Link_Overwrites_Bug(p) ==
  /\ pc[p] = "link"
  /\ pidfile' = p
  /\ Goto(p, "daemon")
  /\ UNCHANGED <<seen, stolen, raced>>

Link(p) ==
  /\ pc[p] = "link"
  /\ IF pidfile = NoFile
     THEN pidfile' = p /\ Goto(p, "daemon")
     ELSE UNCHANGED pidfile /\ Goto(p, "open")
  /\ UNCHANGED <<seen, stolen, raced>>

\* open() and read(): the file is complete before it is linked and never
\* written again.  If it has gone meanwhile, link() is tried again.
Open(p) ==
  /\ pc[p] = "open"
  /\ IF pidfile = NoFile
     THEN UNCHANGED seen /\ Goto(p, "link")
     ELSE seen' = [seen EXCEPT ![p] = pidfile] /\ Goto(p, "check")
  /\ UNCHANGED <<pidfile, stolen, raced>>

Check_Dead_Is_Ours_Bug(p) ==
  /\ pc[p] = "check"
  /\ Goto(p, IF seen[p] = p \/ ~Alive(seen[p]) THEN "daemon" ELSE "off")
  /\ UNCHANGED <<pidfile, seen, stolen, raced>>

Check_Inverted_Bug(p) ==
  /\ pc[p] = "check"
  /\ Goto(p, IF seen[p] = p THEN "daemon"
             ELSE IF Alive(seen[p]) THEN "unlink" ELSE "off")
  /\ UNCHANGED <<pidfile, seen, stolen, raced>>

\* A file with our own PID is ours already.  A process that is alive makes
\* pid_init() return its PID, and main() exits.
Check(p) ==
  /\ pc[p] = "check"
  /\ Goto(p, IF seen[p] = p THEN "daemon"
             ELSE IF Alive(seen[p]) THEN "off" ELSE "unlink")
  /\ UNCHANGED <<pidfile, seen, stolen, raced>>

Unlink_Kept_Bug(p) ==
  /\ pc[p] = "unlink"
  /\ Goto(p, "link")
  /\ UNCHANGED <<pidfile, seen, stolen, raced>>

\* The file that was stale when it was checked is removed.
Unlink(p) ==
  /\ pc[p] = "unlink"
  /\ Removes(p)
  /\ Goto(p, "link")
  /\ UNCHANGED <<seen, raced>>

\* Any system call of pid_init() may fail; main() exits then.
Fail(p) ==
  /\ pc[p] \in Starting
  /\ Goto(p, "off")
  /\ UNCHANGED <<pidfile, seen, stolen, raced>>

-----------------------------------------------------------------------------
(***************************************************************************)
(* The end of a process                                                    *)
(***************************************************************************)

\* pid_exit(), after the main loop, after interactive mode, and when the
\* driver fails to initialise: in the foreground, too.
Quit(p) ==
  /\ pc[p] \in {"daemon", "foreground"}
  /\ Removes(p)
  /\ raced' = (raced \/ pc[p] = "foreground")
  /\ Goto(p, "leaving")
  /\ UNCHANGED seen

\* exit(), or execv() after a SIGHUP.
Exit(p) ==
  /\ pc[p] = "leaving"
  /\ Goto(p, "off")
  /\ UNCHANGED <<pidfile, seen, stolen, raced>>

\* A crash, a kill, a power failure, or exit() for want of a Layout: the PID
\* file stays.
Die(p) ==
  /\ Alive(p)
  /\ Goto(p, "off")
  /\ UNCHANGED <<pidfile, seen, stolen, raced>>

PidInit(p) == Link(p) \/ Open(p) \/ Check(p) \/ Unlink(p)

Next ==
  \E p \in Procs :
    Start(p) \/ PidInit(p) \/ Fail(p) \/ Quit(p) \/ Exit(p) \/ Die(p)

Spec == Init /\ [][Next]_vars

\* The scheduler of the system runs every instance.
FairSpec == Spec /\ \A p \in Procs : WF_vars(PidInit(p))

-----------------------------------------------------------------------------
(***************************************************************************)
(* Properties                                                              *)
(***************************************************************************)
Daemons == {p \in Procs : pc[p] = "daemon"}

\* Two daemons never drive the display at once, although processes die without
\* removing the file and any number of them start at the same time, as long as no
\* instance removes the file of one that has the lock.
OneDaemon == ~stolen => \A p, q \in Daemons : p = q

\* Till then the file names the daemon that runs, so that it can be found and
\* stopped.
DaemonListed == ~stolen => \A p \in Daemons : pidfile = p

\* And a file is only stolen when an instance was started while another one was
\* starting, or ended in the foreground: one start at a time is safe, whatever
\* stale file, crash or reused PID it meets.
StolenByRace == stolen => raced

PidHolds == DaemonListed /\ StolenByRace

\* pid.c implements the lock: it excludes, with starts at the same time too,
\* until a file is stolen.
Lock == INSTANCE DaemonLock WITH daemons <- Daemons

LockSpec == Lock!Spec

\* pid_init() returns, its loop over stale files ends: unless other instances are
\* started again and again.
Others(p) == \E q \in Procs \ {p} : Start(q)
StartReturns ==
  \A p \in Procs : []<><<Others(p)>>_vars \/ (pc[p] \in Starting ~> pc[p] \notin Starting)
=============================================================================
