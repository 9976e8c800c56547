------------------------------- MODULE Timer -------------------------------
(***************************************************************************)
(* The generic timer queue (timer.c) driven by the main loop of            *)
(* lcd4linux.c: timer_process() calls every due timer, selects the next    *)
(* upcoming one and computes the delay that event_process() then polls     *)
(* for.  Client code (drivers, widgets, the D-Bus plugin) adds and removes *)
(* timers while it initialises, from inside timer callbacks, and from      *)
(* event callbacks.  The system clock is set by somebody else.             *)
(***************************************************************************)
EXTENDS TimerSlots

CONSTANTS
  MaxClock,     \* bound: the clock readings the model explores
  Jumps,        \* steps by which somebody else sets the clock
  JumpAt,       \* where the main loop may be when the clock is set
  MaxJumps,     \* bound: how often the clock is set
  Dynamic,      \* where timers are added once the main loop runs
  Removable,    \* the clients that remove their timers again
  SelfRemove    \* may a timer be removed by its own callback?

PCs == {"init", "timers", "callback", "poll", "event", "exit"}

ASSUME TimerLoopAssumption ==
  /\ MaxClock \in Nat
  /\ Jumps \subseteq Int
  /\ JumpAt \subseteq PCs \ {"exit"}
  /\ MaxJumps \in Nat
  /\ Dynamic \subseteq {"callback", "event"}
  /\ Removable \subseteq Clients
  /\ SelfRemove \in BOOLEAN

VARIABLES
  Timers,       \* the slot table
  clock,        \* what gettimeofday() returns
  pc,           \* where the main loop is
  timer,        \* loop index of timer_process()
  now,          \* clock reading timer_process() took on entry
  delay,        \* time left in ppoll()
  ret,          \* result of the last timer_add/_late/_remove call
  called,       \* history: slots whose present timer has been called
  jumps         \* how often the clock has been set

vars == <<Timers, clock, pc, timer, now, delay, ret, called, jumps>>

TypeOK ==
  /\ Timers \in Seq(Slot)
  /\ Len(Timers) <= SlotLimit
  /\ clock \in Int
  /\ pc \in PCs
  /\ timer \in 1..(SlotLimit + 1)
  /\ now \in Int
  /\ delay \in Nat
  /\ ret \in {0, -1}
  /\ called \in SUBSET (1..SlotLimit)
  /\ jumps \in 0..MaxJumps
  /\ pc \in {"timers", "callback"} => timer <= Len(Timers) + 1
  /\ pc = "callback" => timer <= Len(Timers)

Init ==
  /\ Timers = <<>>
  /\ clock = 0
  /\ pc = "init"
  /\ timer = 1
  /\ now = 0
  /\ delay = 0
  /\ ret = 0
  /\ called = {}
  /\ jumps = 0

-----------------------------------------------------------------------------
(***************************************************************************)
(* Client code                                                             *)
(***************************************************************************)
loop == <<clock, pc, timer, now, delay, jumps>>

\* Client code runs before the main loop, in timer callbacks and in event
\* callbacks.
ClientRuns == pc = "init" \/ pc \in Dynamic

Add(client, interval, one_shot) ==
  /\ ClientRuns
  /\ IF CanAdd(Timers)
     THEN /\ Timers' = TimerAdd(Timers,
                                NewTimer(client, interval, one_shot, clock))
          /\ called' = called \ {FreeSlot(Timers)}
          /\ ret' = 0
     ELSE /\ ret' = -1
          /\ UNCHANGED <<Timers, called>>
  /\ UNCHANGED loop

\* timer_add() returns 0 when it succeeds, and timer_add_late() takes this
\* for a failure: the new timer stays a one-shot timer.  When timer_add()
\* fails, the search loop goes on to unmask a timer that is there already.
AddLate(client, interval, one_shot) ==
  /\ ClientRuns
  /\ IF CanAdd(Timers)
     THEN /\ Timers' = TimerAdd(Timers,
                                NewTimer(client, interval, TRUE, clock))
          /\ called' = called \ {FreeSlot(Timers)}
          /\ ret' = -1
     ELSE LET found == {i \in OwnedBy(Timers, client) :
                          Timers[i].interval = interval} IN
          /\ Timers' = IF found = {} THEN Timers
                       ELSE [Timers EXCEPT ![Min(found)].one_shot = one_shot]
          /\ ret' = IF found = {} THEN -1 ELSE 0
          /\ UNCHANGED called
  /\ UNCHANGED loop

Remove(client) ==
  /\ ClientRuns
  /\ client \in Removable
  /\ (pc = "callback" /\ ~SelfRemove) => Timers[timer].client # client
  /\ Timers' = TimerRemove(Timers, client)
  /\ ret' = IF OwnedBy(Timers, client) = {} THEN -1 ELSE 0
  /\ UNCHANGED <<called, loop>>

Client ==
  \E c \in Clients :
    \/ \E i \in Intervals, o \in BOOLEAN : Add(c, i, o) \/ AddLate(c, i, o)
    \/ Remove(c)

-----------------------------------------------------------------------------
(***************************************************************************)
(* timer_process() and event_process(), called in turn by the main loop    *)
(***************************************************************************)

\* timer_exit(), which main() calls once the loop is left.
TimerExit == Timers' = <<>> /\ called' = {}

\* Entry: without a single slot timer_process() fails and the loop is left.
Begin ==
  /\ pc \in {"init", "event"}
  /\ now' = clock
  /\ timer' = 1
  /\ pc' = IF Timers = <<>> THEN "exit" ELSE "timers"
  /\ UNCHANGED <<Timers, clock, delay, ret, called, jumps>>

Due(i) == Timers[i].active /\ Timers[i].when <= now

Skip ==
  /\ pc = "timers"
  /\ timer <= Len(Timers)
  /\ ~Due(timer)
  /\ timer' = timer + 1
  /\ UNCHANGED <<Timers, clock, pc, now, delay, ret, called, jumps>>

Fire ==
  /\ pc = "timers"
  /\ timer <= Len(Timers)
  /\ Due(timer)
  /\ pc' = "callback"
  /\ called' = called \cup {timer}
  /\ UNCHANGED <<Timers, clock, timer, now, delay, ret, jumps>>

\* What timer_process() does after the callback: it looks at the slot again,
\* whatever the callback has made of it.
Rearm(T) ==
  IF Timers[timer].one_shot
  THEN T = [Timers EXCEPT ![timer].active = FALSE]
  ELSE \E w \in NextTriggers(Timers[timer], now) :
         T = [Timers EXCEPT ![timer].when = w]

Return_Steps_Twice_Bug ==
  /\ pc = "callback"
  /\ Rearm(Timers')
  /\ timer' = timer + 2
  /\ pc' = "timers"
  /\ UNCHANGED <<clock, now, delay, ret, called, jumps>>

Return ==
  /\ pc = "callback"
  /\ Rearm(Timers')
  /\ timer' = timer + 1
  /\ pc' = "timers"
  /\ UNCHANGED <<clock, now, delay, ret, called, jumps>>

\* The selection of the next timer, the skew correction and the delay.
Finish ==
  /\ pc = "timers"
  /\ timer > Len(Timers)
  /\ IF ActiveSlots(Timers) = {}
     THEN /\ pc' = "exit"
          /\ TimerExit
          /\ UNCHANGED delay
     ELSE \E next_timer \in ActiveSlots(Timers) :
          /\ IsNextTimer(Timers, next_timer)
          /\ delay' = DelayUntil(Timers, next_timer, clock)
          /\ Timers' = IF SkewDetected(Timers, next_timer, clock)
                       THEN CorrectSkew(Timers, next_timer, clock) ELSE Timers
          /\ pc' = "poll"
          /\ UNCHANGED called
  /\ UNCHANGED <<clock, timer, now, ret, jumps>>

\* ppoll() comes back when the delay is over, or early for an event.
Timeout ==
  /\ pc = "poll"
  /\ delay = 0
  /\ pc' = "event"
  /\ UNCHANGED <<Timers, clock, timer, now, delay, ret, called, jumps>>

EventReady ==
  /\ pc = "poll"
  /\ delay > 0
  /\ pc' = "event"
  /\ UNCHANGED <<Timers, clock, timer, now, delay, ret, called, jumps>>

\* A signal ends the loop where it is tested.
Signal ==
  /\ pc \in {"init", "event"}
  /\ pc' = "exit"
  /\ TimerExit
  /\ UNCHANGED <<clock, timer, now, delay, ret, jumps>>

-----------------------------------------------------------------------------
(***************************************************************************)
(* Time.  ppoll() measures its timeout on a clock nobody sets.             *)
(***************************************************************************)
Tick ==
  /\ clock < MaxClock
  /\ pc # "exit"
  /\ clock' = clock + 1
  /\ delay' = IF pc = "poll" /\ delay > 0 THEN delay - 1 ELSE delay
  /\ UNCHANGED <<Timers, pc, timer, now, ret, called, jumps>>

SetClock ==
  /\ jumps < MaxJumps
  /\ pc \in JumpAt
  /\ \E j \in Jumps : clock' = clock + j
  /\ jumps' = jumps + 1
  /\ UNCHANGED <<Timers, pc, timer, now, delay, ret, called>>

TimerProcess == Begin \/ Skip \/ Fire \/ Return \/ Finish

Next ==
  \/ Client
  \/ TimerProcess
  \/ Timeout \/ EventReady \/ Signal
  \/ Tick \/ SetClock

Spec == Init /\ [][Next]_vars

\* A callback returns, the main loop runs on, ppoll() ends, time passes.
Fairness ==
  /\ WF_vars(TimerProcess)
  /\ WF_vars(Timeout)
  /\ WF_vars(Tick)

FairSpec == Spec /\ Fairness

-----------------------------------------------------------------------------
(***************************************************************************)
(* Safety                                                                  *)
(***************************************************************************)

\* With a clock nobody sets back, no timer waits longer than its interval:
\* neither the advance over skipped intervals, nor a timer re-created in the
\* slot of the running one, puts a trigger further away.
WaitBound ==
  \A i \in ActiveSlots(Timers) : Timers[i].when <= clock + Timers[i].interval

EntersPoll == pc = "timers" /\ pc' = "poll"

\* Hence a slow callback or a late timer is never taken for a clock skew:
\* timer_process() leaves the triggers alone when the clock is steady.
NoFalseSkew == [][EntersPoll => Timers' = Timers]_vars

\* ppoll() never sleeps past the trigger of any active timer, whatever was
\* added, removed or corrected meanwhile and however the clock was set.
NeverOversleeps ==
  [][EntersPoll =>
       \A i \in ActiveSlots(Timers') :
         clock + delay' <= clock \/ clock + delay' <= Timers'[i].when]_vars

\* The skew correction keeps the main loop from sleeping much longer than the
\* interval of the timer it waits for, whoever sets the clock.
SleepBound ==
  [][EntersPoll =>
       \E i \in ActiveSlots(Timers) :
         /\ IsNextTimer(Timers, i)
         /\ delay' <= Timers[i].interval + SkewDetect]_vars

\* The timers that are not the next one are repaired by the same correction:
\* if all triggers were taken from one clock (no timer is added after the clock
\* was set), none of them lies further away than two intervals and the
\* threshold.
StallBound ==
  [][EntersPoll =>
       \A i \in ActiveSlots(Timers') :
         Timers'[i].when <= clock + SkewDetect + 2 * Max(Intervals)]_vars

\* What a clock that was set costs: a bounded sleep and a bounded wait of every timer.
JumpBounds == SleepBound /\ StallBound

\* A recurring timer that was called moves past the time of this pass: missed
\* intervals are skipped and do not stack up.
NoBacklog ==
  [][(pc = "callback" /\ pc' = "timers" /\ ~Timers[timer].one_shot
      /\ Timers[timer].interval > 0)
     => Timers'[timer].when > now]_vars

\* A timer leaves the table only because it was a one-shot timer and has been
\* called, because its owner removed it, or because the program ends.  In
\* particular no slot is reused, and no slot released after a callback, that
\* holds a timer still waiting for its call.
NoTimerLost ==
  [][\A i \in ActiveSlots(Timers) :
       \/ /\ i \in ActiveSlots(Timers')
          /\ Timers'[i].client = Timers[i].client
          /\ Timers'[i].interval = Timers[i].interval
       \/ /\ pc = "callback" /\ pc' = "timers"
          /\ Timers[i].one_shot /\ i \in called
       \/ Remove(Timers[i].client)
       \/ pc' = "exit"]_vars

-----------------------------------------------------------------------------
(***************************************************************************)
(* Liveness                                                                *)
(***************************************************************************)

\* A timer whose trigger has passed is called, unless it is removed first or
\* the program ends.
DueTimerFires ==
  \A i \in 1..SlotLimit :
    (i \in ActiveSlots(Timers) /\ Timers[i].when <= clock)
      ~> (i \notin ActiveSlots(Timers) \/ (pc = "callback" /\ timer = i))
=============================================================================
