---------------------------- MODULE EventProofs -----------------------------
(***************************************************************************)
(* Theorems about event.c: the table of events stays what clients have     *)
(* registered, and a pass of event_process() calls a callback only for     *)
(* what this poll() has reported, once each, for every set of descriptors  *)
(* and every order of changes before the pass and during it.               *)
(***************************************************************************)
EXTENDS Event, Loops, FiniteSetTheorems

\* No descriptor has two events: event_add() is called with new ones only.
OneEventEach ==
  \A a, b \in DOMAIN events : events[a].fd = events[b].fd => a = b

\* What is in the table has been registered.
TablePart ==
  /\ OneEventEach
  /\ FdsOf(events) \subseteq clients
  /\ ~modified => FdsOf(events) = clients

\* While a pass goes on, an event with a place in fds is the one that was put
\* there, however the callbacks have moved it within the table.
PolledPart ==
  \A k \in DOMAIN events :
    events[k].fds_id # 0 =>
      /\ events[k].fds_id \in DOMAIN fds
      /\ fds[events[k].fds_id] = events[k].fd

\* fds has each descriptor once, and what was called lies before position n.
FdsOnce == \A a, b \in DOMAIN fds : fds[a] = fds[b] => a = b

SeenBefore(n) ==
  \A fd \in seen : \E m \in DOMAIN fds : m < n /\ fds[m] = fd

PassPart ==
  /\ pc # "idle" => PolledPart /\ FdsOnce
  /\ pc = "scan" => SeenBefore(j)
  /\ pc = "callback" => /\ SeenBefore(j + 1)
                        /\ j \in revents
                        /\ i <= Cardinality(Fds)

EventIInv == EventTypeOK /\ TablePart /\ PassPart

-----------------------------------------------------------------------------
(***************************************************************************)
(* Counting the active events                                              *)
(***************************************************************************)
LEMMA CountType ==
  ASSUME NEW k \in Nat
  PROVE  IsFiniteSet(ActiveUpTo(k)) /\ Cardinality(ActiveUpTo(k)) \in 0..k
<1>1. IsFiniteSet(1..k) /\ Cardinality(1..k) = k
  BY FS_Interval
<1>2. ActiveUpTo(k) \in SUBSET (1..k)
  BY DEF ActiveUpTo
<1>3. /\ IsFiniteSet(ActiveUpTo(k))
      /\ Cardinality(ActiveUpTo(k)) <= Cardinality(1..k)
  BY <1>1, <1>2, FS_Subset
<1>4. Cardinality(ActiveUpTo(k)) \in Nat
  BY <1>3, FS_CardinalityType
<1> QED
  BY <1>1, <1>3, <1>4

LEMMA CountStep ==
  ASSUME NEW k \in Nat \ {0}
  PROVE  /\ events[k].active =>
              Cardinality(ActiveUpTo(k)) = Cardinality(ActiveUpTo(k - 1)) + 1
         /\ ~events[k].active =>
              Cardinality(ActiveUpTo(k)) = Cardinality(ActiveUpTo(k - 1))
<1>0. k - 1 \in Nat
  OBVIOUS
<1>1. IsFiniteSet(ActiveUpTo(k - 1)) /\ k \notin ActiveUpTo(k - 1)
  <2>1. IsFiniteSet(ActiveUpTo(k - 1))
    BY <1>0, CountType
  <2>2. k \notin ActiveUpTo(k - 1)
    BY DEF ActiveUpTo
  <2> QED
    BY <2>1, <2>2
<1>2. CASE events[k].active
  <2>1. ActiveUpTo(k) = ActiveUpTo(k - 1) \cup {k}
    BY <1>2 DEF ActiveUpTo
  <2> QED
    BY <1>1, <1>2, <2>1, FS_AddElement
<1>3. CASE ~events[k].active
  <2>1. ActiveUpTo(k) = ActiveUpTo(k - 1)
    BY <1>3 DEF ActiveUpTo
  <2> QED
    BY <1>3, <2>1
<1> QED
  BY <1>2, <1>3

LEMMA CountGrows ==
  ASSUME NEW a \in Nat, NEW b \in Nat, a < b
  PROVE  /\ Cardinality(ActiveUpTo(a)) <= Cardinality(ActiveUpTo(b))
         /\ events[b].active =>
              Cardinality(ActiveUpTo(a)) < Cardinality(ActiveUpTo(b))
<1>1. \A c \in Nat : a <= c =>
        Cardinality(ActiveUpTo(a)) <= Cardinality(ActiveUpTo(c))
  <2> SUFFICES ASSUME NEW c \in Nat, a <= c
               PROVE  Cardinality(ActiveUpTo(a)) <= Cardinality(ActiveUpTo(c))
    OBVIOUS
  <2>1. ActiveUpTo(a) \in SUBSET ActiveUpTo(c)
    BY DEF ActiveUpTo
  <2> QED
    BY <2>1, CountType, FS_Subset
<1>2. b - 1 \in Nat /\ a <= b - 1 /\ b \in Nat \ {0}
  OBVIOUS
<1>3. Cardinality(ActiveUpTo(a)) <= Cardinality(ActiveUpTo(b - 1))
  BY <1>1, <1>2
<1>4. /\ Cardinality(ActiveUpTo(a)) \in Nat
      /\ Cardinality(ActiveUpTo(b - 1)) \in Nat
  BY <1>2, CountType
<1>5. events[b].active =>
        Cardinality(ActiveUpTo(b)) = Cardinality(ActiveUpTo(b - 1)) + 1
  BY <1>2, CountStep
<1> QED
  BY <1>1, <1>3, <1>4, <1>5

\* Every place in fds has one active event that goes there.
LEMMA NthExists ==
  ASSUME NEW N \in Nat, NEW n \in 1..Cardinality(ActiveUpTo(N))
  PROVE  \E k \in 1..N : events[k].active /\ Cardinality(ActiveUpTo(k)) = n
<1> DEFINE S == {k \in Nat : Cardinality(ActiveUpTo(k)) >= n}
<1>0. Cardinality(ActiveUpTo(N)) \in Nat /\ n \in Nat /\ n >= 1
  BY CountType
<1>1. N \in S
  BY <1>0
<1>2. S \in SUBSET Nat /\ S # {}
  BY <1>1
<1>3. PICK k \in S : \A y \in S : k <= y
  <2> HIDE DEF S
  <2>1. Min(S) \in S /\ \A y \in S : Min(S) <= y
    BY <1>2, MinProperty
  <2> QED
    BY <2>1
<1>4. k \in Nat /\ k <= N /\ Cardinality(ActiveUpTo(k)) >= n
  BY <1>1, <1>3
<1>5. k # 0
  <2> SUFFICES ASSUME k = 0 PROVE FALSE
    OBVIOUS
  <2>1. Cardinality(ActiveUpTo(0)) \in 0..0
    BY CountType
  <2> QED
    BY <1>0, <1>4, <2>1
<1>6. k \in Nat \ {0} /\ k - 1 \in Nat /\ k - 1 < k /\ k \in 1..N
  BY <1>4, <1>5
<1>7. k - 1 \notin S
  BY <1>3, <1>6
<1>8. ~(Cardinality(ActiveUpTo(k - 1)) >= n)
  BY <1>6, <1>7
<1>9. /\ Cardinality(ActiveUpTo(k - 1)) \in Nat
      /\ Cardinality(ActiveUpTo(k)) \in Nat
  BY <1>4, <1>6, CountType
<1>10. /\ events[k].active =>
            Cardinality(ActiveUpTo(k)) = Cardinality(ActiveUpTo(k - 1)) + 1
       /\ ~events[k].active =>
            Cardinality(ActiveUpTo(k)) = Cardinality(ActiveUpTo(k - 1))
  BY <1>6, CountStep
<1>11. events[k].active /\ Cardinality(ActiveUpTo(k)) = n
  BY <1>0, <1>4, <1>8, <1>9, <1>10
<1> QED
  BY <1>6, <1>11

LEMMA NthUnique ==
  ASSUME NEW a \in Nat, NEW b \in Nat, events[a].active, events[b].active,
         Cardinality(ActiveUpTo(a)) = Cardinality(ActiveUpTo(b))
  PROVE  a = b
<1>1. CASE a < b
  BY <1>1, CountGrows, CountType
<1>2. CASE b < a
  BY <1>2, CountGrows, CountType
<1> QED
  BY <1>1, <1>2

LEMMA NthActiveProperty ==
  ASSUME events \in Seq(EventSlot),
         NEW n \in 1..Cardinality(ActiveUpTo(Len(events)))
  PROVE  /\ NthActive(n) \in DOMAIN events
         /\ events[NthActive(n)].active
         /\ Cardinality(ActiveUpTo(NthActive(n))) = n
<1>1. Len(events) \in Nat /\ DOMAIN events = 1..Len(events)
  OBVIOUS
<1>2. \E k \in DOMAIN events :
        events[k].active /\ Cardinality(ActiveUpTo(k)) = n
  BY <1>1, NthExists
<1> QED
  BY <1>2 DEF NthActive

LEMMA NthActiveOf ==
  ASSUME events \in Seq(EventSlot),
         NEW k \in DOMAIN events, events[k].active
  PROVE  /\ Cardinality(ActiveUpTo(k)) \in 1..Cardinality(ActiveUpTo(Len(events)))
         /\ NthActive(Cardinality(ActiveUpTo(k))) = k
<1>1. /\ Len(events) \in Nat /\ k \in 1..Len(events) /\ k \in Nat \ {0}
      /\ k \in Nat /\ k - 1 \in Nat
  OBVIOUS
<1>2. Cardinality(ActiveUpTo(k)) = Cardinality(ActiveUpTo(k - 1)) + 1
  BY <1>1, CountStep
<1>3. /\ Cardinality(ActiveUpTo(k - 1)) \in Nat
      /\ Cardinality(ActiveUpTo(Len(events))) \in Nat
  BY <1>1, CountType
<1>4. Cardinality(ActiveUpTo(k)) <= Cardinality(ActiveUpTo(Len(events)))
  <2>1. CASE k = Len(events)
    BY <1>2, <1>3, <2>1
  <2>2. CASE k < Len(events)
    BY <1>1, <2>2, CountGrows
  <2> QED
    BY <1>1, <2>1, <2>2
<1>5. Cardinality(ActiveUpTo(k)) \in 1..Cardinality(ActiveUpTo(Len(events)))
  BY <1>2, <1>3, <1>4
<1>6. /\ NthActive(Cardinality(ActiveUpTo(k))) \in DOMAIN events
      /\ events[NthActive(Cardinality(ActiveUpTo(k)))].active
      /\ Cardinality(ActiveUpTo(NthActive(Cardinality(ActiveUpTo(k)))))
           = Cardinality(ActiveUpTo(k))
  BY <1>5, NthActiveProperty
<1>7. NthActive(Cardinality(ActiveUpTo(k))) \in Nat
  BY <1>6
<1>8. NthActive(Cardinality(ActiveUpTo(k))) = k
  BY <1>1, <1>6, <1>7, NthUnique
<1> QED
  BY <1>5, <1>8

-----------------------------------------------------------------------------
(***************************************************************************)
(* The invariant is inductive                                              *)
(***************************************************************************)
LEMMA FdsCard == Cardinality(Fds) \in Nat
  BY EventAssumption, FS_CardinalityType

\* The table is never longer than there are descriptors.
LEMMA TableSize ==
  ASSUME events \in Seq(EventSlot), OneEventEach
  PROVE  /\ IsFiniteSet(FdsOf(events))
         /\ Cardinality(FdsOf(events)) = Len(events)
         /\ Len(events) <= Cardinality(Fds)
<1> DEFINE f == [k \in 1..Len(events) |-> events[k].fd]
<1>1. Len(events) \in Nat /\ DOMAIN events = 1..Len(events)
  OBVIOUS
<1>2. IsFiniteSet(1..Len(events)) /\ Cardinality(1..Len(events)) = Len(events)
  BY <1>1, FS_Interval
<1>3. f \in [1..Len(events) -> FdsOf(events)]
  BY <1>1 DEF FdsOf
<1>4. \A a, b \in 1..Len(events) : f[a] = f[b] => a = b
  BY <1>1 DEF OneEventEach
<1>5. \A fd \in FdsOf(events) : \E k \in 1..Len(events) : f[k] = fd
  BY <1>1 DEF FdsOf
<1>6. f \in Bijection(1..Len(events), FdsOf(events))
  <2> HIDE DEF f
  <2>1. IsInjective(f)
    BY <1>3, <1>4 DEF IsInjective
  <2> QED
    BY <1>3, <1>5, <2>1 DEF Bijection, Injection, Surjection
<1>7. ExistsBijection(1..Len(events), FdsOf(events))
  BY <1>6 DEF ExistsBijection
<1>8. /\ IsFiniteSet(FdsOf(events))
      /\ Cardinality(FdsOf(events)) = Len(events)
  BY <1>2, <1>7, FS_Bijection
<1>9. FdsOf(events) \in SUBSET Fds
  <2>1. \A k \in DOMAIN events : events[k] \in EventSlot
    BY <1>1
  <2>2. \A k \in DOMAIN events : events[k].fd \in Fds
    BY <2>1 DEF EventSlot
  <2> QED
    BY <2>2 DEF FdsOf
<1>10. Cardinality(FdsOf(events)) <= Cardinality(Fds)
  BY <1>9, EventAssumption, FS_Subset
<1> QED
  BY <1>8, <1>10

\* Where the search for a descriptor stops.
LEMMA IndexOfProperty ==
  ASSUME events \in Seq(EventSlot), NEW fd \in Fds
  PROVE  /\ IndexOf(fd) \in 0..Len(events)
         /\ IndexOf(fd) # 0 => events[IndexOf(fd)].fd = fd
         /\ IndexOf(fd) = 0 => fd \notin FdsOf(events)
<1> DEFINE S == {k \in 1..Len(events) : events[k].fd = fd}
<1>1. Len(events) \in Nat /\ DOMAIN events = 1..Len(events)
  OBVIOUS
<1>2. IndexOf(fd) = IF S # {} THEN Min(S) ELSE 0
  BY DEF IndexOf, SelectInSeq
<1>3. S \in SUBSET Nat
  OBVIOUS
<1>4. S # {} => Min(S) \in S
  <2> HIDE DEF S
  <2> QED
    BY <1>3, MinProperty
<1>5. CASE S # {}
  BY <1>1, <1>2, <1>4, <1>5
<1>6. CASE S = {}
  BY <1>1, <1>2, <1>6 DEF FdsOf
<1> QED
  BY <1>5, <1>6

-----------------------------------------------------------------------------
LEMMA InitHolds == Init => EventIInv
<1> SUFFICES ASSUME Init PROVE EventIInv
  OBVIOUS
<1>1. EventTypeOK
  <2>1. i \in 1..(Cardinality(Fds) + 1)
    BY FdsCard DEF Init
  <2>2. events \in Seq(EventSlot) /\ fds \in Seq(Fds) /\ j \in 1..(Len(fds) + 1)
    BY DEF Init
  <2>3. modified \in BOOLEAN
    BY DEF Init
  <2>4. changes \in 0..MaxChanges
    BY EventAssumption DEF Init
  <2>5. revents \subseteq DOMAIN fds /\ clients \subseteq Fds /\ seen \subseteq Fds
    BY DEF Init
  <2>6. pc \in {"idle", "scan", "callback"} /\ pending \subseteq Fds /\ current \in Fds
    BY DEF Init
  <2> QED
    BY <2>1, <2>2, <2>3, <2>4, <2>5, <2>6 DEF EventTypeOK
<1>2. TablePart
  BY DEF Init, TablePart, OneEventEach, FdsOf
<1>3. PassPart
  BY DEF Init, PassPart
<1> QED
  BY <1>1, <1>2, <1>3 DEF EventIInv

\* Every event of the table comes from a place of the old one, no two from the
\* same: the facts a pass relies on do not depend on where an event is.
LEMMA MovedKeeps ==
  ASSUME EventIInv, Change, events' \in Seq(EventSlot),
         NEW f \in [DOMAIN events' -> DOMAIN events],
         \A a, b \in DOMAIN events' : f[a] = f[b] => a = b,
         \A k \in DOMAIN events' :
           /\ events'[k].fd = events[f[k]].fd
           /\ events'[k].fds_id = events[f[k]].fds_id
  PROVE  OneEventEach' /\ FdsOf(events') \subseteq FdsOf(events) /\ PassPart'
<1>1. OneEventEach'
  BY DEF OneEventEach, EventIInv, TablePart
<1>2. FdsOf(events') \subseteq FdsOf(events)
  BY DEF FdsOf
<1>3. UNCHANGED <<fds, revents, pc, i, j, seen>>
  BY DEF Change
<1>4. PolledPart => PolledPart'
  <2> SUFFICES ASSUME PolledPart, NEW k \in DOMAIN events', events'[k].fds_id # 0
               PROVE  /\ events'[k].fds_id \in DOMAIN fds'
                      /\ fds'[events'[k].fds_id] = events'[k].fd
    BY DEF PolledPart
  <2>1. /\ f[k] \in DOMAIN events
        /\ events'[k].fd = events[f[k]].fd
        /\ events'[k].fds_id = events[f[k]].fds_id
    OBVIOUS
  <2>2. /\ events[f[k]].fds_id \in DOMAIN fds
        /\ fds[events[f[k]].fds_id] = events[f[k]].fd
    BY <2>1 DEF PolledPart
  <2> QED
    BY <1>3, <2>1, <2>2
<1>5. PassPart'
  BY <1>3, <1>4 DEF EventIInv, PassPart, FdsOnce, SeenBefore
<1> QED
  BY <1>1, <1>2, <1>5

LEMMA ChangeType ==
  ASSUME EventTypeOK, Change, events' \in Seq(EventSlot), clients' \subseteq Fds,
         modified' \in BOOLEAN
  PROVE  EventTypeOK'
  BY EventAssumption DEF EventTypeOK, Change

LEMMA AddKeeps ==
  ASSUME EventIInv, NEW fd \in Fds, NEW active \in BOOLEAN, event_add(fd, active)
  PROVE  EventIInv'
<1> DEFINE e == [fd |-> fd, active |-> active, fds_id |-> 0]
           n == Len(events) + 1
<1>1. Change /\ events' = Append(events, e) /\ clients' = clients \cup {fd}
      /\ fd \notin clients /\ UNCHANGED modified
  BY DEF event_add
<1>2. events \in Seq(EventSlot) /\ clients \subseteq Fds /\ modified \in BOOLEAN
  BY DEF EventIInv, EventTypeOK
<1>3. e \in EventSlot
  BY FdsCard DEF EventSlot
<1>4. e.fd = fd /\ e.fds_id = 0
  OBVIOUS
<1> HIDE DEF e
<1>5. /\ events' \in Seq(EventSlot)
      /\ n \in Nat /\ DOMAIN events = 1..Len(events)
      /\ DOMAIN events' = DOMAIN events \cup {n} /\ n \notin DOMAIN events
      /\ events'[n] = e /\ \A k \in DOMAIN events : events'[k] = events[k]
  BY <1>1, <1>2, <1>3
<1> HIDE DEF n
<1>6. EventTypeOK'
  BY <1>1, <1>2, <1>5, ChangeType DEF EventIInv
<1>7. FdsOf(events') = FdsOf(events) \cup {fd}
  BY <1>4, <1>5 DEF FdsOf
<1>8. FdsOf(events) \subseteq clients /\ OneEventEach
  BY DEF EventIInv, TablePart
<1>9. OneEventEach'
  <2>1. \A k \in DOMAIN events : events[k].fd # fd
    BY <1>1, <1>8 DEF FdsOf
  <2> QED
    BY <1>4, <1>5, <1>8, <2>1 DEF OneEventEach
<1>10. TablePart'
  <2>1. ~modified => FdsOf(events) = clients
    BY DEF EventIInv, TablePart
  <2> QED
    BY <1>1, <1>7, <1>8, <1>9, <2>1 DEF TablePart
<1>11. UNCHANGED <<fds, revents, pc, i, j, seen>>
  BY <1>1 DEF Change
<1>12. PolledPart => PolledPart'
  BY <1>4, <1>5, <1>11 DEF PolledPart
<1>13. PassPart'
  BY <1>11, <1>12 DEF EventIInv, PassPart, FdsOnce, SeenBefore
<1> QED
  BY <1>6, <1>10, <1>13 DEF EventIInv

LEMMA DelKeeps ==
  ASSUME EventIInv, NEW fd \in Fds, event_del(fd)
  PROVE  EventIInv'
<1> DEFINE n == Len(events)
           at == IndexOf(fd)
           f == [k \in 1..(n - 1) |-> IF k = at THEN n ELSE k]
<1>1. /\ Change /\ events # <<>> /\ UNCHANGED modified
      /\ clients' = clients \ {fd}
      /\ events' = Front(IF at = 0 THEN events
                         ELSE ReplaceAt(events, at, Last(events)))
  BY DEF event_del
<1>2. events \in Seq(EventSlot) /\ clients \subseteq Fds /\ modified \in BOOLEAN
  BY DEF EventIInv, EventTypeOK
<1>3. /\ at \in 0..n
      /\ at # 0 => events[at].fd = fd
      /\ at = 0 => fd \notin FdsOf(events)
  BY <1>2, IndexOfProperty
<1>4. n \in Nat \ {0} /\ DOMAIN events = 1..n /\ n - 1 \in Nat
  BY <1>1, <1>2
<1> HIDE DEF at
<1>5. /\ events' \in Seq(EventSlot)
      /\ DOMAIN events' = 1..(n - 1)
      /\ \A k \in 1..(n - 1) : events'[k] = IF k = at THEN events[n] ELSE events[k]
  <2>1. CASE at = 0
    BY <1>1, <1>2, <1>4, <2>1 DEF Front
  <2>2. CASE at # 0
    <3> DEFINE r == ReplaceAt(events, at, Last(events))
    <3>1. /\ r \in Seq(EventSlot) /\ Len(r) = n
          /\ \A k \in 1..n : r[k] = IF k = at THEN events[n] ELSE events[k]
      BY <1>2, <1>3, <1>4, <2>2 DEF ReplaceAt, Last
    <3>2. events' = SubSeq(r, 1, n - 1)
      BY <1>1, <2>2, <3>1 DEF Front
    <3> HIDE DEF r
    <3> QED
      BY <1>4, <3>1, <3>2
  <2> QED
    BY <2>1, <2>2
<1>6. EventTypeOK'
  BY <1>1, <1>2, <1>5, ChangeType DEF EventIInv
<1> HIDE DEF n
<1>7. /\ f \in [DOMAIN events' -> DOMAIN events]
      /\ \A a, b \in DOMAIN events' : f[a] = f[b] => a = b
      /\ \A k \in DOMAIN events' : events'[k] = events[f[k]]
  BY <1>3, <1>4, <1>5
<1> HIDE DEF f
<1>8. OneEventEach' /\ FdsOf(events') \subseteq FdsOf(events) /\ PassPart'
  BY <1>1, <1>5, <1>7, MovedKeeps
<1>9. OneEventEach /\ FdsOf(events) \subseteq clients
  BY DEF EventIInv, TablePart
<1>10. fd \notin FdsOf(events')
  <2> SUFFICES ASSUME NEW k \in DOMAIN events', events'[k].fd = fd PROVE FALSE
    BY DEF FdsOf
  <2>1. f[k] \in DOMAIN events /\ events[f[k]].fd = fd
    BY <1>7
  <2>2. at # 0 /\ at \in DOMAIN events
    BY <1>3, <1>4, <2>1 DEF FdsOf
  <2>3. f[k] = at
    BY <1>3, <1>9, <2>1, <2>2 DEF OneEventEach
  <2> QED
    BY <1>3, <1>4, <1>5, <2>2, <2>3 DEF f
<1>11. FdsOf(events') \subseteq clients'
  BY <1>1, <1>8, <1>9, <1>10
<1>12. ~modified' => FdsOf(events') = clients'
  <2> SUFFICES ASSUME ~modified, NEW c \in clients, c # fd
               PROVE  c \in FdsOf(events')
    BY <1>1, <1>11
  <2>1. FdsOf(events) = clients
    BY DEF EventIInv, TablePart
  <2>2. PICK k \in DOMAIN events : events[k].fd = c
    BY <2>1 DEF FdsOf
  <2>3. at # 0 /\ at \in 1..n
    BY <1>1, <1>3, <1>4, <2>1 DEF event_del
  <2>4. CASE k < n
    <3>1. k # at /\ k \in DOMAIN events'
      BY <1>3, <1>4, <1>5, <2>2, <2>3, <2>4
    <3>2. events'[k].fd = c
      BY <1>5, <2>2, <3>1
    <3> QED
      BY <3>1, <3>2 DEF FdsOf
  <2>5. CASE k = n
    <3>1. at # n /\ at \in DOMAIN events'
      BY <1>3, <1>4, <1>5, <2>2, <2>3, <2>5
    <3>2. events'[at].fd = c
      BY <1>5, <2>2, <2>5, <3>1
    <3> QED
      BY <3>1, <3>2 DEF FdsOf
  <2> QED
    BY <1>4, <2>4, <2>5
<1> QED
  BY <1>6, <1>8, <1>11, <1>12 DEF EventIInv, TablePart

LEMMA ModifyKeeps ==
  ASSUME EventIInv, NEW fd \in Fds, NEW active \in BOOLEAN,
         event_modify(fd, active)
  PROVE  EventIInv'
<1> DEFINE n == Len(events)
           at == IndexOf(fd)
           f == [k \in 1..(n - 1) |-> k]
<1>1. /\ Change /\ events # <<>> /\ modified' = TRUE /\ UNCHANGED clients
      /\ events' = Front(IF at = 0 THEN events
                         ELSE [events EXCEPT ![at].active = active])
  BY DEF event_modify
<1>2. events \in Seq(EventSlot) /\ clients \subseteq Fds
  BY DEF EventIInv, EventTypeOK
<1>3. at \in 0..n
  BY <1>2, IndexOfProperty
<1>4. n \in Nat \ {0} /\ DOMAIN events = 1..n /\ n - 1 \in Nat
  BY <1>1, <1>2
<1> HIDE DEF at
<1>5. /\ events' \in Seq(EventSlot)
      /\ DOMAIN events' = 1..(n - 1)
      /\ \A k \in 1..(n - 1) : /\ events'[k].fd = events[k].fd
                               /\ events'[k].fds_id = events[k].fds_id
  <2>1. CASE at = 0
    BY <1>1, <1>2, <1>4, <2>1 DEF Front
  <2>2. CASE at # 0
    <3> DEFINE m == [events[at] EXCEPT !.active = active]
               r == [events EXCEPT ![at] = m]
    <3>1. at \in 1..n /\ events[at] \in EventSlot
      BY <1>2, <1>3, <1>4, <2>2
    <3>2. /\ m \in EventSlot /\ m.fd = events[at].fd
          /\ m.fds_id = events[at].fds_id
      BY <3>1 DEF EventSlot
    <3>3. events' = Front(r)
      BY <1>1, <2>2
    <3> HIDE DEF m
    <3>4. /\ r \in Seq(EventSlot) /\ Len(r) = n
          /\ \A k \in 1..n : r[k] = IF k = at THEN m ELSE events[k]
      BY <1>2, <1>4, <3>1, <3>2
    <3>5. events' = SubSeq(r, 1, n - 1)
      BY <3>3, <3>4 DEF Front
    <3> HIDE DEF r
    <3>6. /\ events' \in Seq(EventSlot)
          /\ DOMAIN events' = 1..(n - 1)
          /\ \A k \in 1..(n - 1) : events'[k] = r[k]
      BY <1>4, <3>4, <3>5
    <3> HIDE DEF n
    <3> QED
      BY <1>4, <3>2, <3>4, <3>6
  <2> QED
    BY <2>1, <2>2
<1>6. EventTypeOK'
  BY <1>1, <1>2, <1>5, ChangeType DEF EventIInv
<1> HIDE DEF n
<1>7. /\ f \in [DOMAIN events' -> DOMAIN events]
      /\ \A a, b \in DOMAIN events' : f[a] = f[b] => a = b
      /\ \A k \in DOMAIN events' : /\ events'[k].fd = events[f[k]].fd
                                   /\ events'[k].fds_id = events[f[k]].fds_id
  BY <1>4, <1>5
<1> HIDE DEF f
<1>8. OneEventEach' /\ FdsOf(events') \subseteq FdsOf(events) /\ PassPart'
  BY <1>1, <1>5, <1>7, MovedKeeps
<1> QED
  BY <1>1, <1>6, <1>8 DEF EventIInv, TablePart

\* Poll() puts the active events into fds in the order of the table, and each
\* remembers its place.
LEMMA PollFills ==
  ASSUME EventIInv, Poll
  PROVE  /\ events' \in Seq(EventSlot) /\ fds' \in Seq(Fds)
         /\ OneEventEach' /\ FdsOf(events') = FdsOf(events)
         /\ PolledPart' /\ FdsOnce'
<1> DEFINE C == Cardinality(ActiveUpTo(Len(events)))
           id(k) == IF events[k].active THEN Cardinality(ActiveUpTo(k)) ELSE 0
<1>1. events \in Seq(EventSlot) /\ OneEventEach
  BY DEF EventIInv, EventTypeOK, TablePart
<1>2. /\ Len(events) \in Nat /\ DOMAIN events = 1..Len(events)
      /\ Len(events) <= Cardinality(Fds) /\ Cardinality(Fds) \in Nat
  BY <1>1, TableSize, FdsCard
<1>3. C \in 0..Len(events)
  BY <1>2, CountType
<1>4. \A k \in DOMAIN events : events[k].active =>
        /\ Cardinality(ActiveUpTo(k)) \in 1..C
        /\ NthActive(Cardinality(ActiveUpTo(k))) = k
  BY <1>1, NthActiveOf
<1>5. \A n \in 1..C : /\ NthActive(n) \in DOMAIN events
                      /\ Cardinality(ActiveUpTo(NthActive(n))) = n
  BY <1>1, NthActiveProperty
<1>6. \A k \in DOMAIN events : events[k] \in EventSlot
  BY <1>1
<1>7. \A k \in DOMAIN events : events[k].fd \in Fds /\ events[k].active \in BOOLEAN
  BY <1>6 DEF EventSlot
<1>8. \A k \in DOMAIN events : id(k) \in 0..Cardinality(Fds)
  BY <1>2, <1>3, <1>4
<1>9. /\ events' = [k \in DOMAIN events |-> [events[k] EXCEPT !.fds_id = id(k)]]
      /\ fds' = [n \in 1..C |-> events[NthActive(n)].fd]
  BY DEF Poll
<1>10. \A k \in DOMAIN events : id(k) # 0 =>
         id(k) \in 1..C /\ NthActive(id(k)) = k
  BY <1>4
<1> HIDE DEF id, C
<1>11. \A k \in DOMAIN events :
         /\ [events[k] EXCEPT !.fds_id = id(k)] \in EventSlot
         /\ [events[k] EXCEPT !.fds_id = id(k)].fd = events[k].fd
         /\ [events[k] EXCEPT !.fds_id = id(k)].fds_id = id(k)
  BY <1>6, <1>8 DEF EventSlot
<1>12. /\ DOMAIN events' = 1..Len(events)
       /\ \A k \in DOMAIN events : /\ events'[k] \in EventSlot
                                   /\ events'[k].fd = events[k].fd
                                   /\ events'[k].fds_id = id(k)
  BY <1>2, <1>9, <1>11
<1>13. events' \in Seq(EventSlot) /\ DOMAIN events' = DOMAIN events
  <2>1. events' \in [1..Len(events) -> EventSlot]
    BY <1>2, <1>9, <1>11
  <2> QED
    BY <1>2, <1>12, <2>1
<1>14. fds' \in Seq(Fds) /\ DOMAIN fds' = 1..C
  <2>1. fds' \in [1..C -> Fds]
    BY <1>5, <1>7, <1>9
  <2>2. C \in Nat
    BY <1>2, <1>3
  <2> QED
    BY <2>1, <2>2
<1>15. OneEventEach' /\ FdsOf(events') = FdsOf(events)
  BY <1>1, <1>12, <1>13 DEF OneEventEach, FdsOf
<1>16. PolledPart'
  <2> SUFFICES ASSUME NEW k \in DOMAIN events', events'[k].fds_id # 0
               PROVE  /\ events'[k].fds_id \in DOMAIN fds'
                      /\ fds'[events'[k].fds_id] = events'[k].fd
    BY DEF PolledPart
  <2>1. k \in DOMAIN events /\ events'[k].fd = events[k].fd /\ events'[k].fds_id = id(k)
    BY <1>12, <1>13
  <2>2. id(k) \in 1..C /\ NthActive(id(k)) = k
    BY <1>10, <2>1
  <2>3. fds'[id(k)] = events[k].fd
    BY <1>9, <2>2
  <2> QED
    BY <1>14, <2>1, <2>2, <2>3
<1>17. FdsOnce'
  <2> SUFFICES ASSUME NEW a \in 1..C, NEW b \in 1..C, fds'[a] = fds'[b]
               PROVE  a = b
    BY <1>14 DEF FdsOnce
  <2>1. events[NthActive(a)].fd = events[NthActive(b)].fd
    BY <1>9
  <2>2. NthActive(a) = NthActive(b)
    BY <1>1, <1>5, <2>1 DEF OneEventEach
  <2> QED
    BY <1>5, <2>2
<1> QED
  BY <1>13, <1>14, <1>15, <1>16, <1>17

LEMMA PollKeeps == ASSUME EventIInv, Poll PROVE EventIInv'
<1>1. /\ events' \in Seq(EventSlot) /\ fds' \in Seq(Fds)
      /\ OneEventEach' /\ FdsOf(events') = FdsOf(events)
      /\ PolledPart' /\ FdsOnce'
  BY PollFills
<1>2. /\ revents' = {k \in DOMAIN fds' : fds'[k] \in pending}
      /\ pc' = IF revents' = {} THEN "idle" ELSE "scan"
      /\ i' = 1 /\ j' = 1 /\ seen' = {}
      /\ UNCHANGED <<pending, clients, modified, current, changes>>
  BY DEF Poll
<1>3. EventTypeOK'
  <2>1. i' \in 1..(Cardinality(Fds) + 1)
    BY <1>2, FdsCard
  <2>2. j' \in 1..(Len(fds') + 1)
    BY <1>1, <1>2
  <2>3. /\ pending' \subseteq Fds /\ clients' \subseteq Fds /\ current' \in Fds
        /\ modified' \in BOOLEAN /\ changes' \in 0..MaxChanges
    BY <1>2 DEF EventIInv, EventTypeOK
  <2>4. /\ pc' \in {"idle", "scan", "callback"} /\ seen' \subseteq Fds
        /\ revents' \subseteq DOMAIN fds'
    BY <1>2
  <2> QED
    BY <1>1, <2>1, <2>2, <2>3, <2>4 DEF EventTypeOK
<1>4. TablePart'
  BY <1>1, <1>2 DEF EventIInv, TablePart
<1>5. PassPart'
  BY <1>1, <1>2 DEF PassPart, SeenBefore
<1> QED
  BY <1>3, <1>4, <1>5 DEF EventIInv

\* At the event the pass is at: it is in fds at position j if it is at all.
LEMMA AtEvent ==
  ASSUME EventIInv, Scanning, events[i].fds_id = j
  PROVE  /\ j \in DOMAIN fds /\ j \in Nat \ {0} /\ j + 1 \in 1..(Len(fds) + 1)
         /\ fds[j] = events[i].fd /\ events[i].fd \in Fds
<1>1. events \in Seq(EventSlot) /\ fds \in Seq(Fds) /\ j \in 1..(Len(fds) + 1)
      /\ i \in 1..(Cardinality(Fds) + 1)
  BY DEF EventIInv, EventTypeOK
<1>2. i \in DOMAIN events /\ Len(fds) \in Nat /\ j \in Nat /\ j # 0
  BY <1>1, FdsCard DEF Scanning
<1>3. PolledPart
  BY DEF EventIInv, PassPart, Scanning
<1>4. j \in DOMAIN fds /\ fds[j] = events[i].fd
  BY <1>2, <1>3 DEF PolledPart
<1> QED
  BY <1>1, <1>2, <1>4

\* i stays within the table and one past it.
LEMMA NextIndex ==
  ASSUME EventIInv, Scanning
  PROVE  i <= Cardinality(Fds) /\ i + 1 \in 1..(Cardinality(Fds) + 1)
<1>1. events \in Seq(EventSlot) /\ OneEventEach
      /\ i \in 1..(Cardinality(Fds) + 1)
  BY DEF EventIInv, EventTypeOK, TablePart
<1>2. Len(events) <= Cardinality(Fds) /\ Len(events) \in Nat
  BY <1>1, TableSize
<1> QED
  BY <1>1, <1>2, FdsCard DEF Scanning

LEMMA SkipKeeps == ASSUME EventIInv, Skip PROVE EventIInv'
<1>1. i' = i + 1 /\ UNCHANGED <<fds, revents, pc, j, pending, current, seen, table>>
  BY DEF Skip
<1>2. i + 1 \in 1..(Cardinality(Fds) + 1) /\ pc = "scan"
  BY NextIndex DEF Skip, Scanning
<1>3. EventTypeOK'
  BY <1>1, <1>2 DEF EventIInv, EventTypeOK, table
<1>4. TablePart'
  BY <1>1 DEF EventIInv, TablePart, OneEventEach, table
<1>5. PassPart'
  BY <1>1, <1>2 DEF EventIInv, PassPart, PolledPart, FdsOnce, SeenBefore, table
<1> QED
  BY <1>3, <1>4, <1>5 DEF EventIInv

LEMMA NotReadyKeeps == ASSUME EventIInv, NotReady PROVE EventIInv'
<1>1. /\ i' = i + 1 /\ j' = j + 1
      /\ UNCHANGED <<fds, revents, pc, pending, current, seen, table>>
  BY DEF NotReady
<1>2. /\ i + 1 \in 1..(Cardinality(Fds) + 1) /\ pc = "scan"
      /\ j + 1 \in 1..(Len(fds) + 1) /\ j \in Nat
  BY NextIndex, AtEvent DEF NotReady, Scanning
<1>3. EventTypeOK'
  BY <1>1, <1>2 DEF EventIInv, EventTypeOK, table
<1>4. TablePart'
  BY <1>1 DEF EventIInv, TablePart, OneEventEach, table
<1>5. SeenBefore(j) => SeenBefore(j)'
  <2> SUFFICES ASSUME SeenBefore(j), NEW fd \in seen
               PROVE  \E m \in DOMAIN fds : m < j + 1 /\ fds[m] = fd
    BY <1>1 DEF SeenBefore
  <2>1. PICK m \in DOMAIN fds : m < j /\ fds[m] = fd
    BY DEF SeenBefore
  <2>2. m \in Nat
    BY DEF EventIInv, EventTypeOK
  <2>3. m < j + 1
    BY <1>2, <2>1, <2>2
  <2> QED
    BY <2>1, <2>3
<1>6. PassPart'
  <2>1. SeenBefore(j)' /\ PolledPart /\ FdsOnce
    BY <1>2, <1>5 DEF EventIInv, PassPart
  <2>2. PolledPart' /\ FdsOnce'
    BY <1>1, <2>1 DEF PolledPart, FdsOnce, table
  <2> QED
    BY <1>1, <1>2, <2>1, <2>2 DEF PassPart, SeenBefore
<1> QED
  BY <1>3, <1>4, <1>6 DEF EventIInv

LEMMA CallKeeps == ASSUME EventIInv, Call PROVE EventIInv'
<1>1. /\ pc' = "callback" /\ current' = events[i].fd
      /\ seen' = seen \cup {events[i].fd}
      /\ pending' \in {pending, pending \ {events[i].fd}}
      /\ j \in revents
      /\ UNCHANGED <<fds, revents, i, j, table>>
  BY DEF Call
<1>2. /\ i <= Cardinality(Fds) /\ pc = "scan" /\ j \in DOMAIN fds
      /\ fds[j] = events[i].fd /\ events[i].fd \in Fds /\ j \in Nat
  BY NextIndex, AtEvent DEF Call, Scanning
<1>3. EventTypeOK'
  BY <1>1, <1>2 DEF EventIInv, EventTypeOK, table
<1>4. TablePart'
  BY <1>1 DEF EventIInv, TablePart, OneEventEach, table
<1>5. SeenBefore(j) /\ PolledPart /\ FdsOnce
  BY <1>2 DEF EventIInv, PassPart
<1>6. SeenBefore(j + 1)'
  <2> SUFFICES ASSUME NEW fd \in seen'
               PROVE  \E m \in DOMAIN fds : m < j + 1 /\ fds[m] = fd
    BY <1>1 DEF SeenBefore
  <2>1. CASE fd = events[i].fd
    BY <1>2, <2>1
  <2>2. CASE fd \in seen
    <3>1. PICK m \in DOMAIN fds : m < j /\ fds[m] = fd
      BY <1>5, <2>2 DEF SeenBefore
    <3>2. m \in Nat
      BY DEF EventIInv, EventTypeOK
    <3>3. m < j + 1
      BY <1>2, <3>1, <3>2
    <3> QED
      BY <3>1, <3>3
  <2> QED
    BY <1>1, <2>1, <2>2
<1>7. PolledPart' /\ FdsOnce'
  BY <1>1, <1>5 DEF PolledPart, FdsOnce, table
<1>8. PassPart'
  BY <1>1, <1>2, <1>6, <1>7 DEF PassPart
<1> QED
  BY <1>3, <1>4, <1>8 DEF EventIInv

LEMMA ReturnKeeps == ASSUME EventIInv, Return PROVE EventIInv'
<1>1. /\ pc = "callback" /\ pc' = "scan" /\ i' = i + 1 /\ j' = j + 1
      /\ UNCHANGED <<fds, revents, pending, current, seen, table>>
  BY DEF Return
<1>2. /\ SeenBefore(j + 1) /\ j \in revents /\ i <= Cardinality(Fds)
      /\ PolledPart /\ FdsOnce
  BY <1>1 DEF EventIInv, PassPart
<1>3. /\ j + 1 \in 1..(Len(fds) + 1)
      /\ i + 1 \in 1..(Cardinality(Fds) + 1)
  <2>1. /\ revents \subseteq DOMAIN fds /\ fds \in Seq(Fds)
        /\ i \in 1..(Cardinality(Fds) + 1)
    BY DEF EventIInv, EventTypeOK
  <2>2. j \in 1..Len(fds) /\ Len(fds) \in Nat
    BY <1>2, <2>1
  <2> QED
    BY <1>2, <2>1, <2>2, FdsCard
<1>4. EventTypeOK'
  BY <1>1, <1>3 DEF EventIInv, EventTypeOK, table
<1>5. TablePart'
  BY <1>1 DEF EventIInv, TablePart, OneEventEach, table
<1>6. PolledPart' /\ FdsOnce' /\ SeenBefore(j)'
  BY <1>1, <1>2 DEF PolledPart, FdsOnce, SeenBefore, table
<1>7. PassPart'
  BY <1>1, <1>6 DEF PassPart, SeenBefore
<1> QED
  BY <1>4, <1>5, <1>7 DEF EventIInv

LEMMA LeaveKeeps == ASSUME EventIInv, Leave PROVE EventIInv'
<1>1. /\ pc' = "idle" /\ fds' = <<>> /\ revents' = {} /\ i' = 1 /\ j' = 1
      /\ seen' = {} /\ UNCHANGED <<pending, current, table>>
  BY DEF Leave
<1>2. EventTypeOK'
  <2>1. i' \in 1..(Cardinality(Fds) + 1)
    BY <1>1, FdsCard
  <2>2. fds' \in Seq(Fds) /\ j' \in 1..(Len(fds') + 1)
    BY <1>1
  <2>3. revents' \subseteq DOMAIN fds' /\ seen' \subseteq Fds
        /\ pc' \in {"idle", "scan", "callback"}
    BY <1>1
  <2> QED
    BY <1>1, <2>1, <2>2, <2>3 DEF EventIInv, EventTypeOK, table
<1>3. TablePart'
  BY <1>1 DEF EventIInv, TablePart, OneEventEach, table
<1> QED
  BY <1>1, <1>2, <1>3 DEF EventIInv, PassPart

LEMMA ReadyKeeps ==
  ASSUME EventIInv, NEW fd \in Fds, Ready(fd) PROVE EventIInv'
<1>1. /\ pending' = pending \cup {fd}
      /\ UNCHANGED <<events, fds, revents, pc, i, j, clients, modified, current,
                     seen, changes>>
  BY DEF Ready
<1>2. EventTypeOK'
  BY <1>1 DEF EventIInv, EventTypeOK
<1>3. TablePart' /\ PassPart'
  BY <1>1 DEF EventIInv, TablePart, OneEventEach, PassPart, PolledPart, FdsOnce,
              SeenBefore
<1> QED
  BY <1>2, <1>3 DEF EventIInv

LEMMA StepKeeps == EventIInv /\ [Next]_vars => EventIInv'
<1> SUFFICES ASSUME EventIInv, [Next]_vars PROVE EventIInv'
  OBVIOUS
<1>1. ASSUME NEW fd \in Fds, NEW active \in BOOLEAN,
             event_add(fd, active) \/ event_modify(fd, active)
      PROVE  EventIInv'
  BY <1>1, AddKeeps, ModifyKeeps
<1>2. ASSUME NEW fd \in Fds, event_del(fd) \/ Ready(fd)
      PROVE  EventIInv'
  BY <1>2, DelKeeps, ReadyKeeps
<1>3. CASE EventProcess
  BY <1>3, PollKeeps, SkipKeeps, NotReadyKeeps, CallKeeps, ReturnKeeps, LeaveKeeps
     DEF EventProcess
<1>4. CASE UNCHANGED vars
  BY <1>4 DEF vars, EventIInv, EventTypeOK, TablePart, OneEventEach, PassPart,
              PolledPart, FdsOnce, SeenBefore
<1> QED
  BY <1>1, <1>2, <1>3, <1>4 DEF Next

LEMMA EventIInvHolds == Spec => []EventIInv
<1> QED
  BY InitHolds, StepKeeps, PTL DEF Spec

-----------------------------------------------------------------------------
(***************************************************************************)
(* The theorems                                                            *)
(***************************************************************************)

\* For every set of descriptors and every sequence of event_add(), event_del()
\* and event_modify(), in callbacks too: the loop of event_process() stays in
\* its arrays, and until event_modify() is used the table holds just what has
\* been added and not removed, each descriptor once.
THEOREM TableComplete == Spec => []EventInv
<1>1. EventIInv => EventInv
  <2> SUFFICES ASSUME EventIInv, ~modified
               PROVE  /\ FdsOf(events) = clients
                      /\ Len(events) = Cardinality(clients)
    BY DEF EventInv, EventIInv, NoEventLost
  <2>1. events \in Seq(EventSlot) /\ OneEventEach /\ FdsOf(events) = clients
    BY DEF EventIInv, EventTypeOK, TablePart
  <2> QED
    BY <2>1, TableSize
<1> QED
  BY <1>1, EventIInvHolds, PTL

\* For every set of descriptors: event_process() runs a callback only for the
\* descriptor that this poll() has reported at this position, and no callback
\* twice in a pass, whatever the callbacks before it did to the table.
THEOREM CallsOnlyReady == Spec => CalledWhenReady
<1>1. EventIInv /\ [Next]_vars =>
        [pc = "scan" /\ pc' = "callback" =>
           /\ j \in revents
           /\ fds[j] = current'
           /\ current' \notin seen]_vars
  <2> SUFFICES ASSUME EventIInv, Next, pc = "scan", pc' = "callback"
               PROVE  /\ j \in revents
                      /\ fds[j] = current'
                      /\ current' \notin seen
    OBVIOUS
  <2>1. Call
    BY DEF Next, event_add, event_del, event_modify, Change, Ready, EventProcess,
           Poll, Skip, NotReady, Return, Leave
  <2>2. j \in revents /\ current' = events[i].fd
    BY <2>1 DEF Call
  <2>3. fds[j] = events[i].fd /\ j \in DOMAIN fds /\ j \in Nat
    BY <2>1, AtEvent DEF Call
  <2>4. SeenBefore(j) /\ FdsOnce
    BY DEF EventIInv, PassPart
  <2>5. current' \notin seen
    BY <2>2, <2>3, <2>4 DEF SeenBefore, FdsOnce
  <2> QED
    BY <2>2, <2>3, <2>5
<1> QED
  BY <1>1, EventIInvHolds, PTL DEF Spec, CalledWhenReady
=============================================================================
