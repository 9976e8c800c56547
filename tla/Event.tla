------------------------------- MODULE Event -------------------------------
(***************************************************************************)
(* File descriptor events (event.c): drivers and the D-Bus plugin register *)
(* descriptors, event_process() polls the active ones and runs a callback  *)
(* for each that is ready.  The callbacks add, remove and modify events    *)
(* while event_process() goes through the table.                           *)
(*                                                                         *)
(* An event is its descriptor ("events are identified by their file        *)
(* descriptor only").  What is ready for reading, for writing or in error  *)
(* is not told apart, and a descriptor stays ready until its callback has  *)
(* dealt with that: poll() reports it again and again.                     *)
(***************************************************************************)
EXTENDS SequencesExt

CONSTANTS
  Fds,          \* the file descriptors
  MaxChanges    \* bound: how often clients change the table

ASSUME EventAssumption == IsFiniteSet(Fds) /\ MaxChanges \in Nat

VARIABLES
  events,       \* the event table
  fds,          \* the array poll() was called with
  revents,      \* the positions in fds that poll() has reported
  pc,           \* where event_process() is
  i,            \* its index into events
  j,            \* its index into fds
  pending,      \* the descriptors that are ready
  clients,      \* the descriptors clients have registered
  modified,     \* history: has event_modify() been called?
  current,      \* history: the descriptor whose callback was called last
  seen,         \* history: the descriptors called in this pass
  changes       \* how often the table has been changed

vars == <<events, fds, revents, pc, i, j, pending, clients, modified, current,
          seen, changes>>

\* fds_id is 0 for an event that is not in fds (-1 in the code).
EventSlot == [fd: Fds, active: BOOLEAN, fds_id: 0..Cardinality(Fds)]

FdsOf(E) == {E[k].fd : k \in DOMAIN E}

EventTypeOK ==
  /\ events \in Seq(EventSlot)
  /\ fds \in Seq(Fds)
  /\ revents \subseteq DOMAIN fds
  /\ pc \in {"idle", "scan", "callback"}
  /\ i \in 1..(Cardinality(Fds) + 1)
  /\ j \in 1..(Len(fds) + 1)
  /\ pending \subseteq Fds
  /\ clients \subseteq Fds
  /\ modified \in BOOLEAN
  /\ current \in Fds
  /\ seen \subseteq Fds
  /\ changes \in 0..MaxChanges

Init ==
  /\ events = <<>>
  /\ fds = <<>>
  /\ revents = {}
  /\ pc = "idle"
  /\ i = 1
  /\ j = 1
  /\ pending \in SUBSET Fds
  /\ clients = {}
  /\ modified = FALSE
  /\ current \in Fds
  /\ seen = {}
  /\ changes = 0

-----------------------------------------------------------------------------
(***************************************************************************)
(* Client code: between two calls of event_process(), and in callbacks     *)
(***************************************************************************)
Change ==
  /\ pc \in {"idle", "callback"}
  /\ changes < MaxChanges
  /\ changes' = changes + 1
  /\ UNCHANGED <<fds, revents, pc, i, j, pending, current, seen>>

event_add_Polled_Bug(fd, active) ==
  /\ Change
  /\ fd \notin clients
  /\ events' = Append(events, [fd |-> fd, active |-> active,
                               fds_id |-> Len(events) + 1])
  /\ clients' = clients \cup {fd}
  /\ UNCHANGED modified

event_add(fd, active) ==
  /\ Change
  /\ fd \notin clients
  /\ events' = Append(events, [fd |-> fd, active |-> active, fds_id |-> 0])
  /\ clients' = clients \cup {fd}
  /\ UNCHANGED modified

IndexOf(fd) == SelectInSeq(events, LAMBDA e : e.fd = fd)

event_del_Last_Bug(fd) ==
  /\ Change
  /\ fd \in clients
  /\ events # <<>>
  /\ events' = Front(events)
  /\ clients' = clients \ {fd}
  /\ UNCHANGED modified

\* The last event takes the place of the removed one.  If none has this
\* descriptor the last event is dropped all the same.
event_del(fd) ==
  /\ Change
  /\ fd \in clients
  /\ events # <<>>
  /\ events' = Front(IF IndexOf(fd) = 0 THEN events
                     ELSE ReplaceAt(events, IndexOf(fd), Last(events)))
  /\ clients' = clients \ {fd}
  /\ UNCHANGED modified

\* event_modify() ends like event_del(): it drops the last event.
event_modify(fd, active) ==
  /\ Change
  /\ fd \in clients
  /\ events # <<>>
  /\ events' = Front(IF IndexOf(fd) = 0 THEN events
                     ELSE [events EXCEPT ![IndexOf(fd)].active = active])
  /\ modified' = TRUE
  /\ UNCHANGED clients

\* A descriptor gets ready.
Ready(fd) ==
  /\ fd \notin pending
  /\ pending' = pending \cup {fd}
  /\ UNCHANGED <<events, fds, revents, pc, i, j, clients, modified, current,
                 seen, changes>>

-----------------------------------------------------------------------------
(***************************************************************************)
(* event_process()                                                         *)
(***************************************************************************)
table == <<events, clients, modified, changes>>

ActiveUpTo(k) == {x \in 1..k : events[x].active}

NthActive(n) ==
  CHOOSE k \in DOMAIN events :
    events[k].active /\ Cardinality(ActiveUpTo(k)) = n

\* fds is filled with the active events, and poll() waits for them.
Poll ==
  /\ pc = "idle"
  /\ events' = [k \in DOMAIN events |->
                  [events[k] EXCEPT !.fds_id =
                     IF events[k].active THEN Cardinality(ActiveUpTo(k)) ELSE 0]]
  /\ fds' = [n \in 1..Cardinality(ActiveUpTo(Len(events))) |->
               events[NthActive(n)].fd]
  /\ revents' = {k \in DOMAIN fds' : fds'[k] \in pending}
  /\ pc' = IF revents' = {} THEN "idle" ELSE "scan"
  /\ i' = 1
  /\ j' = 1
  /\ seen' = {}
  /\ UNCHANGED <<pending, clients, modified, current, changes>>

Scanning == pc = "scan" /\ i <= Len(events)

Skip_Advances_Bug ==
  /\ Scanning
  /\ events[i].fds_id # j
  /\ i' = i + 1
  /\ j' = j + 1
  /\ UNCHANGED <<fds, revents, pc, pending, current, seen, table>>

Skip ==
  /\ Scanning
  /\ events[i].fds_id # j
  /\ i' = i + 1
  /\ UNCHANGED <<fds, revents, pc, j, pending, current, seen, table>>

NotReady ==
  /\ Scanning
  /\ events[i].fds_id = j
  /\ j \notin revents
  /\ i' = i + 1
  /\ j' = j + 1
  /\ UNCHANGED <<fds, revents, pc, pending, current, seen, table>>

\* The callback may deal with the condition or leave it.
Call ==
  /\ Scanning
  /\ events[i].fds_id = j
  /\ j \in revents
  /\ pc' = "callback"
  /\ current' = events[i].fd
  /\ seen' = seen \cup {events[i].fd}
  /\ pending' \in {pending, pending \ {events[i].fd}}
  /\ UNCHANGED <<fds, revents, i, j, table>>

Return ==
  /\ pc = "callback"
  /\ pc' = "scan"
  /\ i' = i + 1
  /\ j' = j + 1
  /\ UNCHANGED <<fds, revents, pending, current, seen, table>>

Leave ==
  /\ pc = "scan"
  /\ i > Len(events)
  /\ pc' = "idle"
  /\ fds' = <<>>
  /\ revents' = {}
  /\ i' = 1
  /\ j' = 1
  /\ seen' = {}
  /\ UNCHANGED <<pending, current, table>>

EventProcess == Poll \/ Skip \/ NotReady \/ Call \/ Return \/ Leave

Next ==
  \/ \E fd \in Fds :
       \/ \E active \in BOOLEAN : event_add(fd, active) \/ event_modify(fd, active)
       \/ event_del(fd)
       \/ Ready(fd)
  \/ EventProcess

Spec == Init /\ [][Next]_vars

\* The main loop calls event_process() again and again, and callbacks return.
FairSpec == Spec /\ WF_vars(EventProcess)

-----------------------------------------------------------------------------
(***************************************************************************)
(* Properties                                                              *)
(***************************************************************************)

\* Whatever the callbacks before it did to the table, a callback runs only for
\* a descriptor that this very poll() reported ready, and only once per pass.
CalledWhenReady ==
  [][pc = "scan" /\ pc' = "callback" =>
       /\ j \in revents
       /\ fds[j] = current'
       /\ current' \notin seen]_vars

\* The table holds what clients have registered and not removed, each event
\* once, although removal fills the gap with the last event (unless
\* event_modify() was called, which loses events).
NoEventLost ==
  ~modified => /\ FdsOf(events) = clients
               /\ Len(events) = Cardinality(clients)

\* event_modify() changes one event and keeps all of them.
ModifyKeepsEvents ==
  [][\A fd \in Fds, active \in BOOLEAN :
       event_modify(fd, active) => FdsOf(events') = FdsOf(events)]_vars

ActiveFds == {events[k].fd : k \in {x \in DOMAIN events : events[x].active}}

\* A descriptor that stays ready gets its callback, although each removal can
\* make the pass skip the rest of the table.
ReadyServed ==
  \A fd \in Fds :
    (fd \in pending /\ fd \in ActiveFds) ~>
      \/ pc = "callback" /\ current = fd
      \/ fd \notin ActiveFds

\* The table of events has the events that were added and not removed, and the
\* loop of event_process() stays inside it.
EventInv == EventTypeOK /\ NoEventLost
=============================================================================
