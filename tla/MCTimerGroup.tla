---------------------------- MODULE MCTimerGroup ----------------------------
(***************************************************************************)
(* Small instances of TimerGroup for TLC.                                  *)
(***************************************************************************)
EXTENDS TimerGroup

NoJumps == {}
Nowhere == {}

\* One driver, and as many groups as the limit allows.
DriverTimer == <<"driver", 1>>
OneDriver == {DriverTimer}
GroupClients == {GroupTimer(g) : g \in 1..GroupLimit} \cup OneDriver
=============================================================================
