----------------------------- MODULE DaemonLock -----------------------------
(***************************************************************************)
(* What pid.c promises: at most one lcd4linux daemon at a time.  A process *)
(* becomes the daemon when there is none, and stops being it at any time.  *)
(* The promise ends when somebody takes the file away from the daemon.     *)
(***************************************************************************)
CONSTANT Procs

VARIABLES
  daemons,     \* the processes that run as daemons
  stolen       \* was the file taken away?

Init == daemons = {} /\ stolen = FALSE

Acquire(p) ==
  /\ p \notin daemons /\ (daemons = {} \/ stolen)
  /\ daemons' = daemons \cup {p}
  /\ UNCHANGED stolen

Release(p) == p \in daemons /\ daemons' = daemons \ {p} /\ UNCHANGED stolen

Steal == stolen' = TRUE /\ UNCHANGED daemons

Next == Steal \/ \E p \in Procs : Acquire(p) \/ Release(p)

Spec == Init /\ [][Next]_<<daemons, stolen>>
=============================================================================
