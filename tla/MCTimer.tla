------------------------------- MODULE MCTimer -------------------------------
(***************************************************************************)
(* Small instances of Timer for TLC: constant values and state constraints *)
(* that the .cfg files refer to.                                           *)
(***************************************************************************)
EXTENDS Timer

NoJumps == {}
Nowhere == {}
SmallJumps == {-6, 3}

\* Once the loop runs only timer_process() reads the clock, on entry and before
\* it computes the delay: a step before each of these readings is enough.
BetweenReadings == {"timers", "poll"}
=============================================================================
