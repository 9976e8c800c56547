----------------------------- MODULE TimerGroup -----------------------------
(***************************************************************************)
(* Timer groups (timer_group.c): widgets with the same interval share one  *)
(* generic timer, whose callback timer_process_group() calls them one by   *)
(* one.  The module extends the main loop of Timer.tla: the steps of       *)
(* timer_process_group() take place while pc = "callback".                 *)
(*                                                                         *)
(* Widgets come in two kinds.  A text or a bar adds itself once, when it   *)
(* is initialised (one-shot if its interval is zero).  Icons, GPOs,        *)
(* images, graphs, arcs and rings add themselves as one-shot timers and do *)
(* so again at the end of every update, with the interval evaluated then.  *)
(***************************************************************************)
EXTENDS Timer

CONSTANTS
  Widgets,      \* the (callback, data) pairs that own widget slots
  Rearming,     \* the widgets that add themselves again when called
  Retired,      \* the widgets that somebody removes
  Drivers,      \* owners of generic timers that are no groups
  GroupLimit,   \* number of group slots after which realloc() fails
  WidgetLimit   \* number of widget slots after which realloc() fails

\* The callback data of a group's generic timer is the address of the group's
\* interval, one block of memory per group slot.
GroupTimer(g) == <<"timer_process_group", g>>

ASSUME TimerGroupAssumption ==
  /\ Rearming \subseteq Widgets
  /\ Retired \subseteq Widgets
  /\ Drivers \subseteq Clients
  /\ GroupLimit \in Nat
  /\ WidgetLimit \in Nat
  /\ \A g \in 1..GroupLimit : GroupTimer(g) \in Clients \ Drivers

VARIABLES
  TimerGroups,        \* group slots
  TimerGroupWidgets,  \* widget slots
  step,               \* where timer_process_group() is
  widget,             \* its loop index
  interval,           \* the interval it read on entry
  calls               \* history: how often this pass has called a widget

groupVars == <<TimerGroups, TimerGroupWidgets, step, widget, interval, calls>>
allVars == <<vars, groupVars>>

GroupSlot == [interval: Intervals, active: BOOLEAN]
WidgetSlot == [owner: Widgets, interval: Intervals, one_shot: BOOLEAN,
               active: BOOLEAN]

NoCalls == [w \in Widgets |-> 0]

GroupTypeOK ==
  /\ TypeOK
  /\ TimerGroups \in Seq(GroupSlot)
  /\ Len(TimerGroups) <= GroupLimit
  /\ TimerGroupWidgets \in Seq(WidgetSlot)
  /\ Len(TimerGroupWidgets) <= WidgetLimit
  /\ step \in {"none", "loop", "callback"}
  /\ widget \in 1..(WidgetLimit + 1)
  /\ interval \in Intervals \cup {-1}
  /\ calls \in [Widgets -> 0..2]

GroupInit ==
  /\ Init
  /\ TimerGroups = <<>>
  /\ TimerGroupWidgets = <<>>
  /\ step = "none"
  /\ widget = 1
  /\ interval = -1
  /\ calls = NoCalls

-----------------------------------------------------------------------------
(***************************************************************************)
(* The tables                                                              *)
(***************************************************************************)
ActiveGroups(G) == {g \in DOMAIN G : G[g].active}

\* timer_group_exists(), and the slot timer_remove_group() looks for.
GroupsOf(G, i) == {g \in ActiveGroups(G) : G[g].interval = i}

ActiveWidgets(W) == {x \in DOMAIN W : W[x].active}

MembersOf(W, i) == {x \in ActiveWidgets(W) : W[x].interval = i}

\* The slot that is filled: the first inactive one, or a new one.
FirstFree(S) == Min({k \in 1..(Len(S) + 1) : k \in DOMAIN S => ~S[k].active})

Fill(S, k, slot) == IF k > Len(S) THEN Append(S, slot) ELSE [S EXCEPT ![k] = slot]

\* timer_remove_group() passes the address of the pointer instead of the
\* pointer to timer_remove(): no timer ever has this callback data.
TimerOfRemovedGroup(g) == <<"&TimerGroups.interval", g>>

RemoveEmptyGroup_NotEmpty_Bug(W, i) ==
  IF GroupsOf(TimerGroups, i) # {}
  THEN LET g == Min(GroupsOf(TimerGroups, i)) IN
       /\ TimerGroups' = [TimerGroups EXCEPT ![g].active = FALSE]
       /\ Timers' = TimerRemove(Timers, TimerOfRemovedGroup(g))
  ELSE UNCHANGED <<TimerGroups, Timers>>

\* timer_remove_empty_group(): an emptied group is released, its generic timer
\* is looked up in vain.
RemoveEmptyGroup(W, i) ==
  IF MembersOf(W, i) = {} /\ GroupsOf(TimerGroups, i) # {}
  THEN LET g == Min(GroupsOf(TimerGroups, i)) IN
       /\ TimerGroups' = [TimerGroups EXCEPT ![g].active = FALSE]
       /\ Timers' = TimerRemove(Timers, TimerOfRemovedGroup(g))
  ELSE UNCHANGED <<TimerGroups, Timers>>

\* timer_add_group(): the group is marked active before its generic timer is
\* requested, and stays so when this request fails.
AddGroup(i) ==
  LET g == FirstFree(TimerGroups) IN
  IF g > GroupLimit
  THEN UNCHANGED <<TimerGroups, Timers, called>>
  ELSE /\ TimerGroups' =
            Fill(TimerGroups, g, [interval |-> i, active |-> TRUE])
       /\ IF CanAdd(Timers)
          THEN /\ Timers' = TimerAdd(Timers,
                                     NewTimer(GroupTimer(g), i, FALSE, clock))
               /\ called' = called \ {FreeSlot(Timers)}
          ELSE UNCHANGED <<Timers, called>>

GroupReady(i) ==
  \/ GroupsOf(TimerGroups, i) # {}
  \/ FirstFree(TimerGroups) <= GroupLimit /\ CanAdd(Timers)

-----------------------------------------------------------------------------
(***************************************************************************)
(* The API that widgets call                                               *)
(***************************************************************************)

\* timer_add_widget()
AddWidget(w, i, one_shot) ==
  LET x == FirstFree(TimerGroupWidgets)
      placed == GroupReady(i) /\ x <= WidgetLimit IN
  /\ IF GroupsOf(TimerGroups, i) = {}
     THEN AddGroup(i)
     ELSE UNCHANGED <<TimerGroups, Timers, called>>
  /\ TimerGroupWidgets' =
       IF placed
       THEN Fill(TimerGroupWidgets, x, [owner |-> w, interval |-> i,
                                        one_shot |-> one_shot, active |-> TRUE])
       ELSE TimerGroupWidgets
  /\ ret' = IF placed THEN 0 ELSE -1

\* timer_remove_widget()
RemoveWidget(w) ==
  LET found == {x \in ActiveWidgets(TimerGroupWidgets) :
                  TimerGroupWidgets[x].owner = w} IN
  /\ found # {}
  /\ TimerGroupWidgets' = [TimerGroupWidgets EXCEPT ![Min(found)].active = FALSE]
  /\ RemoveEmptyGroup(TimerGroupWidgets',
                      TimerGroupWidgets[Min(found)].interval)
  /\ ret' = 0
  /\ UNCHANGED called

-----------------------------------------------------------------------------
(***************************************************************************)
(* The callers                                                             *)
(***************************************************************************)
running == <<loop, step, widget, interval, calls>>

\* layout_init() creates a widget; drv_init() starts the timers of a driver.
InitWidget(w) ==
  /\ pc = "init"
  /\ \A x \in DOMAIN TimerGroupWidgets : TimerGroupWidgets[x].owner # w
  /\ \E i \in Intervals :
       /\ w \in Rearming => i > 0
       /\ AddWidget(w, i, w \in Rearming \/ i = 0)
  /\ UNCHANGED running

InitDriver(d) ==
  /\ pc = "init"
  /\ OwnedBy(Timers, d) = {}
  /\ \E i \in Intervals \ {0} : Add(d, i, FALSE)
  /\ UNCHANGED groupVars

\* A widget adds itself again at the end of its update, once per call: until
\* then its own slot is the only one that is called.
Rearmed == TimerGroupWidgets[widget].owner

RearmWidget ==
  /\ step = "callback"
  /\ Rearmed \in Rearming
  /\ \A x \in ActiveWidgets(TimerGroupWidgets) \ {widget} :
       TimerGroupWidgets[x].owner # Rearmed
  /\ \E i \in Intervals \ {0} : AddWidget(Rearmed, i, TRUE)
  /\ UNCHANGED running

RetireWidget(w) ==
  /\ w \in Retired
  /\ pc = "event" \/ (step = "callback" /\ w # Rearmed)
  /\ RemoveWidget(w)
  /\ UNCHANGED running

-----------------------------------------------------------------------------
(***************************************************************************)
(* timer_process_group()                                                   *)
(***************************************************************************)
InGroup == pc = "callback" /\ Timers[timer].client \notin Drivers

EnterGroup_SkipsFirst_Bug ==
  /\ InGroup
  /\ step = "none"
  /\ interval' = TimerGroups[Timers[timer].client[2]].interval
  /\ widget' = 2
  /\ step' = "loop"
  /\ calls' = NoCalls
  /\ UNCHANGED <<vars, TimerGroups, TimerGroupWidgets>>

EnterGroup ==
  /\ InGroup
  /\ step = "none"
  /\ interval' = TimerGroups[Timers[timer].client[2]].interval
  /\ widget' = 1
  /\ step' = "loop"
  /\ calls' = NoCalls
  /\ UNCHANGED <<vars, TimerGroups, TimerGroupWidgets>>

Member_NoOneShot_Bug(x) ==
  /\ TimerGroupWidgets[x].active
  /\ TimerGroupWidgets[x].interval = interval
  /\ ~TimerGroupWidgets[x].one_shot

Member(x) ==
  TimerGroupWidgets[x].active /\ TimerGroupWidgets[x].interval = interval

SkipWidget ==
  /\ step = "loop"
  /\ widget <= Len(TimerGroupWidgets)
  /\ ~Member(widget)
  /\ widget' = widget + 1
  /\ UNCHANGED <<vars, TimerGroups, TimerGroupWidgets, step, interval, calls>>

CallWidget ==
  /\ step = "loop"
  /\ widget <= Len(TimerGroupWidgets)
  /\ Member(widget)
  /\ step' = "callback"
  /\ calls' = [calls EXCEPT ![TimerGroupWidgets[widget].owner] = @ + 1]
  /\ UNCHANGED <<vars, TimerGroups, TimerGroupWidgets, widget, interval>>

ReturnWidget_StepsTwice_Bug ==
  /\ step = "callback"
  /\ step' = "loop"
  /\ widget' = widget + 2
  /\ UNCHANGED <<TimerGroupWidgets, TimerGroups, Timers>>
  /\ UNCHANGED <<called, ret, loop, interval, calls>>

\* A one-shot widget is released after its call, and its group if it was the
\* last member.
ReturnWidget ==
  /\ step = "callback"
  /\ step' = "loop"
  /\ widget' = widget + 1
  /\ IF TimerGroupWidgets[widget].one_shot
     THEN /\ TimerGroupWidgets' =
               [TimerGroupWidgets EXCEPT ![widget].active = FALSE]
          /\ RemoveEmptyGroup(TimerGroupWidgets', interval)
     ELSE UNCHANGED <<TimerGroupWidgets, TimerGroups, Timers>>
  /\ UNCHANGED <<called, ret, loop, interval, calls>>

\* With no widget slot at all timer_process_group() returns early, too.
LeaveGroup ==
  /\ step = "loop"
  /\ widget > Len(TimerGroupWidgets)
  /\ Return
  /\ step' = "none"
  /\ widget' = 1
  /\ interval' = -1
  /\ calls' = NoCalls
  /\ UNCHANGED <<TimerGroups, TimerGroupWidgets>>

DriverReturn ==
  /\ pc = "callback"
  /\ ~InGroup
  /\ Return
  /\ UNCHANGED groupVars

ProcessGroup ==
  EnterGroup \/ SkipWidget \/ CallWidget \/ ReturnWidget \/ LeaveGroup

-----------------------------------------------------------------------------
\* timer_exit_group(), just before timer_exit().
TimerExitGroup == TimerGroups' = <<>> /\ TimerGroupWidgets' = <<>>

MainLoop ==
  /\ Begin \/ Skip \/ Fire \/ Finish \/ Timeout \/ EventReady \/ Signal
  /\ IF pc' = "exit" THEN TimerExitGroup
                     ELSE UNCHANGED <<TimerGroups, TimerGroupWidgets>>
  /\ UNCHANGED <<step, widget, interval, calls>>

GroupTick == Tick /\ UNCHANGED groupVars

GroupNext ==
  \/ \E w \in Widgets : InitWidget(w) \/ RetireWidget(w)
  \/ \E d \in Drivers : InitDriver(d)
  \/ RearmWidget
  \/ ProcessGroup \/ DriverReturn
  \/ MainLoop
  \/ GroupTick

GroupSpec == GroupInit /\ [][GroupNext]_allVars

GroupFairness ==
  /\ WF_allVars(ProcessGroup \/ DriverReturn)
  /\ WF_allVars(MainLoop /\ (Begin \/ Skip \/ Fire \/ Finish))
  /\ WF_allVars(MainLoop /\ Timeout)
  /\ WF_allVars(GroupTick)

FairGroupSpec == GroupSpec /\ GroupFairness

-----------------------------------------------------------------------------
(***************************************************************************)
(* Safety                                                                  *)
(***************************************************************************)

\* The generic timers that call group g.
TimersOf(g) == {t \in ActiveSlots(Timers) : Timers[t].client = GroupTimer(g)}

\* Every widget waiting for its call has exactly one active group, and a
\* recurring generic timer of the same interval calls that group: releasing
\* emptied groups and reusing slots never leaves a widget without a timer.
WidgetServed ==
  \A x \in ActiveWidgets(TimerGroupWidgets) :
    \E g \in ActiveGroups(TimerGroups) :
      /\ GroupsOf(TimerGroups, TimerGroupWidgets[x].interval) = {g}
      /\ \E t \in TimersOf(g) :
           /\ Timers[t].interval = TimerGroupWidgets[x].interval
           /\ ~Timers[t].one_shot

\* One pass over a group calls every recurring widget that belongs to it, and
\* calls it once, although the callbacks add and remove widget slots and
\* release groups meanwhile.
PassComplete ==
  [][(step = "loop" /\ step' = "none") =>
       \A x \in MembersOf(TimerGroupWidgets, interval) :
         ~TimerGroupWidgets[x].one_shot
           => calls[TimerGroupWidgets[x].owner] = 1]_allVars

\* A released group is unlinked from the timer queue.
NoOrphanTimer ==
  \A g \in DOMAIN TimerGroups :
    \A t \in TimersOf(g) :
      TimerGroups[g].active /\ TimerGroups[g].interval = Timers[t].interval

-----------------------------------------------------------------------------
(***************************************************************************)
(* Liveness                                                                *)
(***************************************************************************)

SlotsOf(w) ==
  {x \in ActiveWidgets(TimerGroupWidgets) : TimerGroupWidgets[x].owner = w}

\* Every widget is called within the time the model explores, unless it is
\* removed or the program ends.
WidgetCalled ==
  \A w \in Widgets :
    (\E x \in SlotsOf(w) : clock + TimerGroupWidgets[x].interval <= MaxClock)
    ~> (\/ SlotsOf(w) = {}
        \/ step = "callback" /\ TimerGroupWidgets[widget].owner = w)

\* What timer_add_widget(), timer_remove_widget() and timer_process_group() keep
\* of the two tables whenever they return.
GroupInv == GroupTypeOK /\ WidgetServed
=============================================================================
