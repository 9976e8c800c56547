----------------------------- MODULE PidProofs -----------------------------
(***************************************************************************)
(* pid.c is a correct lock for any number of processes that start, crash   *)
(* and end at any point, until one removes the file of another that has    *)
(* the lock; and that takes starts that overlap, or a run in the           *)
(* foreground that ends.                                                   *)
(***************************************************************************)
EXTENDS Pid, TLAPS

\* Whoever has the lock is in the file.  For a daemon alone this is not
\* inductive: a process that has read its own PID is about to become one.
HoldersListed == ~stolen => \A p \in Procs : Holds(p) => pidfile = p

\* While no two instances start at once, the file that was found stale is still
\* the one that is removed, or has gone.
InTurn ==
  /\ \A p, q \in Procs : pc[p] \in Starting /\ pc[q] \in Starting => p = q
  /\ ~stolen
  /\ \A p \in Procs : pc[p] = "check" =>
       pidfile = seen[p] \/ (pidfile = NoFile /\ seen[p] # p)
  /\ \A p \in Procs : pc[p] = "unlink" => Daemons = {}

PidInv == PidTypeOK /\ HoldersListed /\ (~raced => InTurn)

LEMMA InvInit == Init => PidInv
  BY PidAssumption
     DEF Init, PidInv, PidTypeOK, PidPCs, Starting, HoldersListed, Holds, InTurn, Daemons

LEMMA TypeNext == PidTypeOK /\ [Next]_vars => PidTypeOK'
<1> SUFFICES ASSUME PidTypeOK, [Next]_vars PROVE PidTypeOK'
  OBVIOUS
<1> USE PidAssumption DEF PidTypeOK, PidPCs, Starting, Goto
<1>1. ASSUME NEW p \in Procs, Start(p) \/ Link(p) \/ Fail(p) \/ Exit(p) \/ Die(p) PROVE PidTypeOK'
  BY <1>1 DEF Start, Link, Fail, Exit, Die, Alive
<1>2. ASSUME NEW p \in Procs, Open(p) \/ Check(p) PROVE PidTypeOK'
  BY <1>2 DEF Open, Check
<1>3. ASSUME NEW p \in Procs, Unlink(p) \/ Quit(p) PROVE PidTypeOK'
  BY <1>3 DEF Unlink, Quit, Removes
<1>4. CASE UNCHANGED vars
  BY <1>4 DEF vars
<1> QED
  BY <1>1, <1>2, <1>3, <1>4 DEF Next, PidInit

\* Nobody becomes a holder but by link(), when there is no file, or by reading
\* its own PID; and a file that is removed either names no other holder, or is
\* stolen.
LEMMA HoldersNext == PidTypeOK /\ HoldersListed /\ [Next]_vars => HoldersListed'
<1> SUFFICES ASSUME PidTypeOK, HoldersListed, [Next]_vars, ~stolen', NEW q \in Procs, Holds(q)'
             PROVE  pidfile' = q
  BY DEF HoldersListed
<1> USE PidAssumption DEF PidTypeOK, PidPCs, Starting, Goto, Holds
<1>0. ~stolen => (Holds(q) => pidfile = q) /\ \A p \in Procs : Holds(p) => pidfile = p
  BY DEF HoldersListed
<1>1. ASSUME NEW p \in Procs, Start(p) \/ Fail(p) \/ Exit(p) \/ Die(p) PROVE pidfile' = q
  BY <1>0, <1>1 DEF Start, Fail, Exit, Die, Alive
<1>2. ASSUME NEW p \in Procs, Link(p) PROVE pidfile' = q
  BY <1>0, <1>2 DEF Link
<1>3. ASSUME NEW p \in Procs, Open(p) PROVE pidfile' = q
  BY <1>0, <1>3 DEF Open
<1>4. ASSUME NEW p \in Procs, Check(p) PROVE pidfile' = q
  BY <1>0, <1>4 DEF Check
<1>5. ASSUME NEW p \in Procs, Unlink(p) \/ Quit(p) PROVE pidfile' = q
  <2>1. ~stolen /\ ~(\E r \in Procs \ {p} : pidfile = r /\ Holds(r))
    BY <1>5 DEF Unlink, Quit, Removes
  <2>2. q # p /\ Holds(q)
    BY <1>5 DEF Unlink, Quit
  <2> QED
    BY <1>0, <2>1, <2>2
<1>6. CASE UNCHANGED vars
  BY <1>0, <1>6 DEF vars
<1> QED
  BY <1>1, <1>2, <1>3, <1>4, <1>5, <1>6 DEF Next, PidInit

LEMMA InTurnNext == PidInv /\ [Next]_vars => (~raced' => InTurn')
<1> SUFFICES ASSUME PidInv, [Next]_vars, ~raced' PROVE InTurn'
  OBVIOUS
<1>0. ~raced
  BY DEF Next, PidInit, Start, Link, Open, Check, Unlink, Fail, Quit, Exit, Die, vars, PidInv, PidTypeOK
<1>H. PidTypeOK /\ InTurn /\ \A p \in Procs : Holds(p) => pidfile = p
  BY <1>0 DEF PidInv, HoldersListed, InTurn
<1> USE PidAssumption, <1>H DEF InTurn, PidTypeOK, PidPCs, Starting, Daemons, Goto, Holds
<1>1. ASSUME NEW p \in Procs, Start(p) PROVE InTurn'
  BY <1>1 DEF Start
<1>2. ASSUME NEW p \in Procs, Link(p) PROVE InTurn'
  BY <1>2 DEF Link
<1>3. ASSUME NEW p \in Procs, Open(p) PROVE InTurn'
  BY <1>3 DEF Open
<1>4. ASSUME NEW p \in Procs, Check(p) PROVE InTurn'
  BY <1>4 DEF Check, Alive
<1>5. ASSUME NEW p \in Procs, Unlink(p) PROVE InTurn'
  BY <1>5 DEF Unlink, Removes
<1>6. ASSUME NEW p \in Procs, Quit(p) PROVE InTurn'
  BY <1>6 DEF Quit, Removes
<1>7. ASSUME NEW p \in Procs, Fail(p) \/ Exit(p) \/ Die(p) PROVE InTurn'
  BY <1>7 DEF Fail, Exit, Die, Alive
<1>8. CASE UNCHANGED vars
  BY <1>8 DEF vars
<1> QED
  BY <1>1, <1>2, <1>3, <1>4, <1>5, <1>6, <1>7, <1>8 DEF Next, PidInit

LEMMA InvAlways == Spec => []PidInv
<1>1. PidInv /\ [Next]_vars => PidInv'
  BY TypeNext, HoldersNext, InTurnNext DEF PidInv
<1> QED
  BY <1>1, InvInit, PTL DEF Spec

\* A daemon's PID file stays in place while it runs, and if not, then instances
\* were started at the same time or one ended in the foreground.
THEOREM DaemonsListed == Spec => []PidHolds
<1>1. PidInv => PidHolds
  BY DEF PidInv, PidHolds, HoldersListed, Holds, DaemonListed, Daemons, StolenByRace, InTurn
<1> QED
  BY <1>1, InvAlways, PTL

\* Two daemons never run at once, however many instances start at once: both
\* would be the one the file names.  Only a stolen file changes that.
THEOREM MutualExclusion == Spec => []OneDaemon
<1>1. PidInv => OneDaemon
  BY DEF PidInv, HoldersListed, Holds, OneDaemon, Daemons
<1> QED
  BY <1>1, InvAlways, PTL

\* pid_init() and pid_exit() implement the lock: every step acquires it when
\* it is free, releases it, steals it, or leaves it alone.
THEOREM LockImplemented == Spec => LockSpec
<1>1. Init => Lock!Init
  BY DEF Init, Lock!Init, Daemons
<1>2. ASSUME PidInv, PidInv', [Next]_vars
      PROVE  [Lock!Next]_<<Daemons, stolen>>
  <2>T. /\ pc \in [Procs -> PidPCs] /\ stolen \in BOOLEAN /\ stolen' \in BOOLEAN
        /\ ~stolen => \A p \in Procs : Holds(p) => pidfile = p
        /\ NoFile \notin Procs
    BY <1>2, PidAssumption DEF PidInv, PidTypeOK, HoldersListed
  <2> USE DEF Daemons, Goto, Holds
  <2>1. ASSUME NEW p \in Procs, Link(p)
        PROVE  Lock!Acquire(p) \/ UNCHANGED <<Daemons, stolen>>
    <3>1. CASE pidfile = NoFile
      <4>1. Daemons = {} \/ stolen
        BY <2>T, <3>1
      <4>2. Daemons' = Daemons \cup {p} /\ p \notin Daemons /\ stolen' = stolen
        BY <2>T, <2>1, <3>1 DEF Link
      <4> QED
        BY <4>1, <4>2 DEF Lock!Acquire
    <3>2. CASE pidfile # NoFile
      BY <2>T, <2>1, <3>2 DEF Link
    <3> QED
      BY <3>1, <3>2
  <2>2. ASSUME NEW p \in Procs, Check(p)
        PROVE  Lock!Acquire(p) \/ UNCHANGED <<Daemons, stolen>>
    <3>1. CASE seen[p] = p
      <4>1. Daemons = {} \/ stolen
        BY <2>T, <2>2, <3>1 DEF Check
      <4>2. Daemons' = Daemons \cup {p} /\ p \notin Daemons /\ stolen' = stolen
        BY <2>T, <2>2, <3>1 DEF Check
      <4> QED
        BY <4>1, <4>2 DEF Lock!Acquire
    <3>2. CASE seen[p] # p
      BY <2>T, <2>2, <3>2 DEF Check
    <3> QED
      BY <3>1, <3>2
  <2>3. ASSUME NEW p \in Procs, Die(p) \/ Quit(p)
        PROVE  Lock!Release(p) \/ Lock!Steal \/ UNCHANGED <<Daemons, stolen>>
    <3>1. CASE pc[p] = "daemon"
      <4>1. p \in Daemons /\ Daemons' = Daemons \ {p}
        BY <2>T, <2>3, <3>1 DEF Quit, Die
      <4>2. stolen' = stolen
        BY <2>T, <2>3, <3>1 DEF Quit, Die, Removes
      <4> QED
        BY <4>1, <4>2 DEF Lock!Release
    <3>2. CASE pc[p] # "daemon"
      <4>1. Daemons' = Daemons
        BY <2>T, <2>3, <3>2 DEF Quit, Die
      <4>2. stolen' = stolen \/ stolen' = TRUE
        BY <2>T, <2>3 DEF Quit, Die, Removes
      <4> QED
        BY <4>1, <4>2 DEF Lock!Steal
    <3> QED
      BY <3>1, <3>2
  <2>4. ASSUME NEW p \in Procs,
               Start(p) \/ Open(p) \/ Fail(p) \/ Exit(p)
        PROVE  UNCHANGED <<Daemons, stolen>>
    BY <2>T, <2>4 DEF Start, Open, Fail, Exit, Starting
  <2>5. ASSUME NEW p \in Procs, Unlink(p)
        PROVE  Lock!Steal \/ UNCHANGED <<Daemons, stolen>>
    <3>1. Daemons' = Daemons
      BY <2>T, <2>5 DEF Unlink
    <3>2. stolen' = stolen \/ stolen' = TRUE
      BY <2>T, <2>5 DEF Unlink, Removes
    <3> QED
      BY <3>1, <3>2 DEF Lock!Steal
  <2>6. CASE UNCHANGED vars
    BY <2>6 DEF vars
  <2> QED
    BY <1>2, <2>1, <2>2, <2>3, <2>4, <2>5, <2>6
       DEF Next, PidInit, Lock!Next
<1> QED
  BY <1>1, <1>2, InvAlways, PTL DEF Spec, LockSpec, Lock!Spec
=============================================================================
