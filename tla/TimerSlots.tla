----------------------------- MODULE TimerSlots -----------------------------
(***************************************************************************)
(* The slot table of timer.c as constant-level operators: how a slot is    *)
(* found, filled, released, advanced, and how the clock-skew correction    *)
(* moves the whole table.  Timer.tla and TimerGroup.tla are state machines *)
(* over tables built from these operators.                                 *)
(*                                                                         *)
(* A definition whose name ends in _Bug is a faulty variant of the one that  *)
(* follows it.  No module uses it; it shows that a property can fail.      *)
(*                                                                         *)
(* Times are whole milliseconds (timeval microseconds are dropped).  A     *)
(* (callback, data) pair, which identifies a timer, is one client value.   *)
(***************************************************************************)
EXTENDS Integers, Sequences, FiniteSetsExt

CONSTANTS
  Clients,      \* the (callback, data) pairs that own timers
  Intervals,    \* triggering intervals passed to timer_add, in milliseconds
  IntMax,       \* INT_MAX of the build
  SlotLimit,    \* number of slots after which realloc() fails
  SkewDetect    \* CLOCK_SKEW_DETECT_TIME_IN_MS

ASSUME TimerAssumption ==
  /\ Intervals \subseteq Nat
  /\ IntMax \in Nat
  /\ \A i \in Intervals : i <= IntMax
  /\ SlotLimit \in Nat
  /\ SkewDetect \in Nat

Slot == [client: Clients, when: Int, interval: Intervals,
         one_shot: BOOLEAN, active: BOOLEAN]

(***************************************************************************)
(* C arithmetic                                                            *)
(***************************************************************************)
IntMin == -IntMax - 1

\* An int expression wraps modulo 2 * (IntMax + 1).
Wrap(n) == ((n + IntMax + 1) % (2 * (IntMax + 1))) - IntMax - 1

\* Division that truncates toward zero.
Quot(a, b) == IF a >= 0 THEN a \div b ELSE -((-a) \div b)

\* (int) (time_difference / interval).  The division is a float division, so
\* a zero interval gives an infinity or a NaN; converting these, or a value
\* that does not fit, is undefined: x86 yields INT_MIN, ARM saturates.
IntervalCounts(diff, interval) ==
  IF interval = 0 THEN {IntMin, IntMax}
  ELSE IF Quot(diff, interval) \in IntMin..IntMax
       THEN {Quot(diff, interval)}
       ELSE {IntMin, IntMax}

(***************************************************************************)
(* timer.c                                                                 *)
(***************************************************************************)
ActiveSlots(T) == {i \in DOMAIN T : T[i].active}

NextTriggers_TooFar_Bug(s, now) ==
  {s.when + Wrap(s.interval * Wrap(n + 2)) :
     n \in IntervalCounts(now - s.when, s.interval)}

NextTriggers_NoSkip_Bug(s, now) == {s.when + s.interval}

\* timer_inc(): the times the trigger of slot s may move to.
NextTriggers(s, now) ==
  {s.when + Wrap(s.interval * Wrap(n + 1)) :
     n \in IntervalCounts(now - s.when, s.interval)}

FreeSlot_Active_Bug(T) ==
  Min({i \in 1..(Len(T) + 1) : i \in DOMAIN T => T[i].active})

\* The slot timer_add() uses: the first inactive one, or a new one.
FreeSlot(T) == Min({i \in 1..(Len(T) + 1) : i \in DOMAIN T => ~T[i].active})

\* realloc() is called, and may fail, only when no slot can be reused.
CanAdd(T) == FreeSlot(T) <= SlotLimit

\* timer_add(): for a one-shot timer timer_inc() runs with a zero time
\* difference, which is one interval.
NewTimer(client, interval, one_shot, now) ==
  [client |-> client, interval |-> interval, one_shot |-> one_shot,
   active |-> TRUE, when |-> IF one_shot THEN now + interval ELSE now]

TimerAdd(T, s) ==
  IF FreeSlot(T) > Len(T) THEN Append(T, s)
                          ELSE [T EXCEPT ![FreeSlot(T)] = s]

\* The slots timer_remove() and the search loop of timer_add_late() match.
OwnedBy(T, client) == {i \in ActiveSlots(T) : T[i].client = client}

TimerRemove(T, client) ==
  IF OwnedBy(T, client) = {} THEN T
  ELSE [T EXCEPT ![Min(OwnedBy(T, client))].active = FALSE]

IsNextTimer_First_Bug(T, i) == i = Min(ActiveSlots(T))

\* The loop of timer_process() that selects the next upcoming timer keeps the
\* first slot among those with the earliest trigger.
IsNextTimer(T, i) ==
  /\ i \in ActiveSlots(T)
  /\ \A j \in ActiveSlots(T) :
       T[i].when < T[j].when \/ (T[i].when = T[j].when /\ i <= j)

\* diff converted to an int number of milliseconds.
TimeDifference(T, i, now) == Wrap(T[i].when - now)

SkewDetected_NoInterval_Bug(T, i, now) ==
  /\ T[i].when >= now
  /\ TimeDifference(T, i, now) > SkewDetect

SkewDetected_Sign_Bug(T, i, now) ==
  /\ T[i].when < now
  /\ TimeDifference(T, i, now) > Wrap(T[i].interval + SkewDetect)

\* Only a difference that is not negative is looked at.
SkewDetected(T, i, now) ==
  /\ T[i].when >= now
  /\ TimeDifference(T, i, now) > Wrap(T[i].interval + SkewDetect)

CorrectSkew_OnlyNext_Bug(T, i, now) ==
  [T EXCEPT ![i].when = now + T[i].interval]

\* The skew that is subtracted from every active trigger.
CorrectSkew(T, i, now) ==
  LET skew == Wrap(TimeDifference(T, i, now) - T[i].interval) IN
  [j \in DOMAIN T |->
     IF T[j].active THEN [T[j] EXCEPT !.when = @ - skew] ELSE T[j]]

DelayUntil_Negative_Bug(T, i, now) ==
  IF SkewDetected(T, i, now) THEN 0 ELSE T[i].when - now

\* The delay handed to event_process().
DelayUntil(T, i, now) ==
  IF T[i].when < now \/ SkewDetected(T, i, now) THEN 0 ELSE T[i].when - now
=============================================================================
