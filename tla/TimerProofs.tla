---------------------------- MODULE TimerProofs ----------------------------
(***************************************************************************)
(* Theorems about the timer queue, and about the timer groups on top of    *)
(* it, for every value of the constants.  The queue: its slots are well    *)
(* formed, no timer is lost, sleeps and waits are bounded.  The groups:    *)
(* the two tables stay well formed, a pass over a group is complete, and   *)
(* as long as timer_add() finds room no waiting widget is without a timer. *)
(***************************************************************************)
EXTENDS TimerGroup, Loops, TLAPS

(***************************************************************************)
(* Arithmetic                                                              *)
(***************************************************************************)

\* A value that fits an int is not changed by int arithmetic.
LEMMA WrapFits ==
  ASSUME NEW n \in Int, IntMin <= n, n <= IntMax
  PROVE  Wrap(n) = n
<1> DEFINE m == n + IntMax + 1
           k == 2 * (IntMax + 1)
<1>1. IntMax \in Nat
  BY TimerAssumption
<1>2. m \in 0..(k - 1) /\ k \in Nat \ {0}
  BY <1>1 DEF IntMin
<1> HIDE DEF m, k
<1>3. m % k = m
  BY <1>2
<1> QED
  BY <1>1, <1>3 DEF Wrap, m, k

LEMMA WrapInt ==
  ASSUME NEW n \in Int
  PROVE  Wrap(n) \in Int
<1> DEFINE m == n + IntMax + 1
           k == 2 * (IntMax + 1)
<1>1. m \in Int /\ k \in Int /\ k > 0 /\ IntMax \in Int
  BY TimerAssumption
<1> HIDE DEF m, k
<1>2. m % k \in Int
  BY <1>1
<1> QED
  BY <1>1, <1>2 DEF Wrap, m, k

LEMMA MulSuccessor ==
  ASSUME NEW a \in Nat, NEW b \in Nat
  PROVE  a * b \in Nat /\ a * (b + 1) = a * b + a
<1>1. a * b \in Nat
  OBVIOUS
<1>2. a * (b + 1) = a * b + a
  OBVIOUS
<1> QED
  BY <1>1, <1>2

LEMMA MulPredecessor ==
  ASSUME NEW a \in Nat, NEW b \in Nat
  PROVE  a * (-b + 1) = a - a * b
  OBVIOUS

LEMMA DivProperty ==
  ASSUME NEW a \in Nat, NEW p \in Nat, p > 0
  PROVE  /\ a \div p \in Nat
         /\ p * (a \div p) \in Nat
         /\ p * (a \div p) <= a
         /\ a < p * (a \div p) + p
         /\ a \div p <= a
  OBVIOUS

(***************************************************************************)
(* The slot table                                                          *)
(***************************************************************************)

LEMMA SlotFields ==
  ASSUME NEW s \in Slot
  PROVE  /\ s.client \in Clients
         /\ s.when \in Int
         /\ s.interval \in Intervals
         /\ s.interval \in Nat
         /\ s.one_shot \in BOOLEAN
         /\ s.active \in BOOLEAN
<1>1. s.interval \in Intervals
  BY DEF Slot
<1>2. s.interval \in Nat
  BY <1>1, TimerAssumption
<1> QED
  BY <1>1, <1>2 DEF Slot

LEMMA SlotUpdates ==
  ASSUME NEW s \in Slot
  PROVE  /\ \A t \in Int : [s EXCEPT !.when = t] \in Slot
         /\ \A b \in BOOLEAN : [s EXCEPT !.active = b] \in Slot
         /\ \A b \in BOOLEAN : [s EXCEPT !.one_shot = b] \in Slot
  BY DEF Slot

\* The slot timer_add() uses holds no active timer and is at most one past
\* the end of the table.
LEMMA FreeSlotProperty ==
  ASSUME NEW T \in Seq(Slot)
  PROVE  /\ FreeSlot(T) \in 1..(Len(T) + 1)
         /\ FreeSlot(T) \in DOMAIN T => ~T[FreeSlot(T)].active
<1> DEFINE S == {i \in 1..(Len(T) + 1) : i \in DOMAIN T => ~T[i].active}
<1>1. Len(T) \in Nat /\ DOMAIN T = 1..Len(T)
  OBVIOUS
<1>2. S \in SUBSET Nat
  BY <1>1
<1>3. Len(T) + 1 \in S
  BY <1>1
<1>4. Min(S) \in S
  BY <1>2, <1>3, MinProperty
<1> QED
  BY <1>4 DEF FreeSlot

\* timer_add() fills that slot and leaves every other one alone.
LEMMA TimerAddProperty ==
  ASSUME NEW T \in Seq(Slot), NEW s \in Slot
  PROVE  /\ TimerAdd(T, s) \in Seq(Slot)
         /\ Len(TimerAdd(T, s)) \in {Len(T), FreeSlot(T)}
         /\ Len(T) <= Len(TimerAdd(T, s))
         /\ TimerAdd(T, s)[FreeSlot(T)] = s
         /\ \A i \in DOMAIN TimerAdd(T, s) :
              i # FreeSlot(T) => i \in DOMAIN T /\ TimerAdd(T, s)[i] = T[i]
<1>1. Len(T) \in Nat /\ DOMAIN T = 1..Len(T)
  OBVIOUS
<1>2. FreeSlot(T) \in 1..(Len(T) + 1)
  BY FreeSlotProperty
<1>3. CASE FreeSlot(T) > Len(T)
  <2>1. FreeSlot(T) = Len(T) + 1
    BY <1>1, <1>2, <1>3
  <2>2. TimerAdd(T, s) = Append(T, s)
    BY <1>3 DEF TimerAdd
  <2> QED
    BY <1>1, <2>1, <2>2
<1>4. CASE ~(FreeSlot(T) > Len(T))
  <2>1. TimerAdd(T, s) = [T EXCEPT ![FreeSlot(T)] = s]
    BY <1>4 DEF TimerAdd
  <2>2. FreeSlot(T) \in DOMAIN T
    BY <1>1, <1>2, <1>4
  <2> QED
    BY <1>1, <2>1, <2>2
<1> QED
  BY <1>3, <1>4

LEMMA NewTimerType ==
  ASSUME NEW c \in Clients, NEW i \in Intervals, NEW o \in BOOLEAN,
         NEW t \in Int
  PROVE  NewTimer(c, i, o, t) \in Slot
  BY TimerAssumption DEF NewTimer, Slot

\* timer_remove() releases at most one slot, one of the client's.
LEMMA TimerRemoveProperty ==
  ASSUME NEW T \in Seq(Slot), NEW c
  PROVE  /\ TimerRemove(T, c) \in Seq(Slot)
         /\ Len(TimerRemove(T, c)) = Len(T)
         /\ \A i \in DOMAIN T :
              \/ TimerRemove(T, c)[i] = T[i]
              \/ /\ T[i].client = c /\ TimerRemove(T, c)[i].client = c
                 /\ ~TimerRemove(T, c)[i].active
<1>1. CASE OwnedBy(T, c) = {}
  BY <1>1 DEF TimerRemove
<1>2. CASE OwnedBy(T, c) # {}
  <2> DEFINE m == Min(OwnedBy(T, c))
  <2>1. OwnedBy(T, c) \in SUBSET Nat /\ DOMAIN T = 1..Len(T)
    BY DEF OwnedBy, ActiveSlots
  <2>2. m \in OwnedBy(T, c)
    BY <1>2, <2>1, MinProperty
  <2>3. m \in DOMAIN T /\ T[m].client = c
    BY <2>2 DEF OwnedBy, ActiveSlots
  <2> HIDE DEF m
  <2>4. TimerRemove(T, c) = [T EXCEPT ![m] = [T[m] EXCEPT !.active = FALSE]]
    BY <1>2 DEF TimerRemove, m
  <2>5. T[m] \in Slot
    BY <2>3
  <2> DEFINE s == [T[m] EXCEPT !.active = FALSE]
  <2>6. s \in Slot
    BY <2>5, SlotUpdates
  <2>7. TimerRemove(T, c) = [T EXCEPT ![m] = s]
    BY <2>4
  <2>8. \A i \in DOMAIN T : i # m => TimerRemove(T, c)[i] = T[i]
    BY <2>7
  <2>9. TimerRemove(T, c)[m] = s
    BY <2>3, <2>7
  <2>10. TimerRemove(T, c) \in Seq(Slot) /\ Len(TimerRemove(T, c)) = Len(T)
    <3> HIDE DEF s
    <3> QED
      BY <2>3, <2>6, <2>7
  <2>11. ~s.active /\ s.client = c
    BY <2>3, <2>5 DEF Slot
  <2> HIDE DEF s
  <2> QED
    BY <2>3, <2>8, <2>9, <2>10, <2>11
<1> QED
  BY <1>1, <1>2

\* An advanced trigger is an integer.
LEMMA NextTriggersType ==
  ASSUME NEW s \in Slot, NEW t \in Int
  PROVE  NextTriggers(s, t) \in SUBSET Int
<1> SUFFICES ASSUME NEW n \in IntervalCounts(t - s.when, s.interval)
             PROVE  s.when + Wrap(s.interval * Wrap(n + 1)) \in Int
  BY DEF NextTriggers
<1>1. s.when \in Int /\ s.interval \in Int /\ IntMax \in Nat
  BY SlotFields, TimerAssumption
<1>2. n \in IntMin..IntMax
  BY <1>1 DEF IntervalCounts, IntMin
<1>3. n + 1 \in Int
  BY <1>1, <1>2 DEF IntMin
<1>4. s.interval * Wrap(n + 1) \in Int
  BY <1>1, <1>3, WrapInt
<1> QED
  BY <1>1, <1>4, WrapInt

\* Without overflow timer_inc() moves the trigger past the given time, but not
\* further than one interval past that time and past the old trigger.
LEMMA NextTriggersProperty ==
  ASSUME NEW s \in Slot, NEW t \in Int,
         t - s.when + s.interval <= IntMax, s.when <= t + IntMax,
         NEW w \in NextTriggers(s, t)
  PROVE  /\ w \in Int
         /\ s.interval = 0 => w = s.when
         /\ w <= t + s.interval \/ w <= s.when + s.interval
         /\ s.when <= t => w <= t + s.interval
         /\ s.when >= t + s.interval => w <= s.when
         /\ s.interval > 0 => w > t
<1> DEFINE p == s.interval
           d == t - s.when
<1>1. p \in Nat /\ d \in Int /\ IntMax \in Nat /\ s.when \in Int /\ p <= IntMax
  BY SlotFields, TimerAssumption
<1>2. PICK n \in IntervalCounts(d, p) : w = s.when + Wrap(p * Wrap(n + 1))
  BY DEF NextTriggers
<1>3. CASE p = 0
  <2>1. n + 1 \in Int
    BY <1>1, <1>2, <1>3 DEF IntervalCounts, IntMin
  <2>2. Wrap(n + 1) \in Int
    BY <2>1, WrapInt
  <2>3. p * Wrap(n + 1) = 0
    BY <1>3, <2>2
  <2>4. Wrap(0) = 0
    BY <1>1, WrapFits DEF IntMin
  <2> QED
    BY <1>1, <1>2, <1>3, <2>3, <2>4
<1>4. CASE p > 0 /\ d >= 0
  <2> DEFINE q == d \div p
  <2>1. d \in Nat
    BY <1>1, <1>4
  <2>2. q \in Nat /\ p * q \in Nat /\ p * q <= d /\ d < p * q + p /\ q <= d
    BY <1>1, <1>4, <2>1, DivProperty
  <2> HIDE DEF q
  <2>3. n = q
    BY <1>1, <1>4, <2>2, <1>2 DEF IntervalCounts, Quot, IntMin, q
  <2>4. Wrap(q + 1) = q + 1
    BY <1>1, <1>4, <2>2, WrapFits DEF IntMin
  <2>5. p * (q + 1) = p * q + p
    BY <1>1, <2>2, MulSuccessor
  <2>6. Wrap(p * q + p) = p * q + p
    BY <1>1, <1>4, <2>2, WrapFits DEF IntMin
  <2>7. w = s.when + p * q + p
    BY <1>1, <1>2, <2>2, <2>3, <2>4, <2>5, <2>6
  <2> QED
    BY <1>1, <1>4, <2>2, <2>7
<1>5. CASE p > 0 /\ d < 0
  <2> DEFINE x == -d
             q == x \div p
  <2>1. x \in Nat /\ x > 0 /\ x <= IntMax
    BY <1>1, <1>5
  <2> HIDE DEF x
  <2>2. q \in Nat /\ p * q \in Nat /\ p * q <= x /\ x < p * q + p /\ q <= x
    BY <1>1, <1>5, <2>1, DivProperty
  <2> HIDE DEF q
  <2>3. n = -q
    BY <1>1, <1>5, <2>1, <2>2, <1>2 DEF IntervalCounts, Quot, IntMin, q, x
  <2>4. Wrap(-q + 1) = -q + 1
    BY <1>1, <2>1, <2>2, WrapFits DEF IntMin
  <2>5. p * (-q + 1) = p - p * q
    BY <1>1, <2>2, MulPredecessor
  <2>6. Wrap(p - p * q) = p - p * q
    BY <1>1, <1>5, <2>1, <2>2, WrapFits DEF IntMin
  <2>7. w = s.when + p - p * q
    BY <1>1, <1>2, <2>2, <2>3, <2>4, <2>5, <2>6
  <2>8. ASSUME x >= p PROVE p * q >= p
    <3>1. q # 0
      BY <1>1, <2>1, <2>2, <2>8
    <3>2. PICK r \in Nat : q = r + 1
      BY <2>2, <3>1
    <3>3. p * r \in Nat /\ p * (r + 1) = p * r + p
      BY <1>1, MulSuccessor
    <3> QED
      BY <1>1, <2>2, <3>2, <3>3
  <2> QED
    BY <1>1, <1>5, <2>1, <2>2, <2>7, <2>8 DEF x
<1> QED
  BY <1>1, <1>3, <1>4, <1>5

\* The skew correction keeps everything but the triggers.
LEMMA CorrectSkewProperty ==
  ASSUME NEW T \in Seq(Slot), NEW i \in DOMAIN T, NEW t \in Int
  PROVE  /\ CorrectSkew(T, i, t) \in Seq(Slot)
         /\ Len(CorrectSkew(T, i, t)) = Len(T)
         /\ \A j \in DOMAIN T :
              /\ CorrectSkew(T, i, t)[j].client = T[j].client
              /\ CorrectSkew(T, i, t)[j].interval = T[j].interval
              /\ CorrectSkew(T, i, t)[j].one_shot = T[j].one_shot
              /\ CorrectSkew(T, i, t)[j].active = T[j].active
<1> DEFINE skew == Wrap(TimeDifference(T, i, t) - T[i].interval)
           U == [j \in DOMAIN T |->
                  IF T[j].active THEN [T[j] EXCEPT !.when = @ - skew] ELSE T[j]]
<1>1. T[i] \in Slot /\ T[i].when \in Int /\ T[i].interval \in Int
  BY SlotFields
<1>2. TimeDifference(T, i, t) \in Int
  BY <1>1, WrapInt DEF TimeDifference
<1>3. skew \in Int
  <2>1. TimeDifference(T, i, t) - T[i].interval \in Int
    BY <1>1, <1>2
  <2> QED
    BY <2>1, WrapInt
<1>4. CorrectSkew(T, i, t) = U
  BY DEF CorrectSkew
<1> HIDE DEF skew
<1>5. \A j \in DOMAIN T : /\ U[j] \in Slot
                          /\ U[j].client = T[j].client
                          /\ U[j].interval = T[j].interval
                          /\ U[j].one_shot = T[j].one_shot
                          /\ U[j].active = T[j].active
  <2> SUFFICES ASSUME NEW j \in DOMAIN T
               PROVE  /\ U[j] \in Slot
                      /\ U[j].client = T[j].client
                      /\ U[j].interval = T[j].interval
                      /\ U[j].one_shot = T[j].one_shot
                      /\ U[j].active = T[j].active
    OBVIOUS
  <2>1. T[j] \in Slot /\ T[j].when - skew \in Int
    BY <1>3, SlotFields
  <2>2. [T[j] EXCEPT !.when = @ - skew] \in Slot
    BY <2>1, SlotUpdates
  <2> QED
    BY <2>1, <2>2 DEF Slot
<1>6. U \in Seq(Slot) /\ Len(U) = Len(T)
  <2>1. DOMAIN U = 1..Len(T) /\ Len(T) \in Nat
    OBVIOUS
  <2> QED
    BY <1>5, <2>1
<1> QED
  BY <1>4, <1>5, <1>6

\* Without overflow the correction moves every active trigger by the same
\* amount, which puts the next timer one interval away.
LEMMA CorrectSkewShift ==
  ASSUME NEW T \in Seq(Slot), NEW i \in DOMAIN T, NEW t \in Int,
         T[i].when - t <= IntMax, T[i].interval + SkewDetect <= IntMax
  PROVE  /\ SkewDetected(T, i, t) <=> T[i].when > t + T[i].interval + SkewDetect
         /\ SkewDetected(T, i, t) => \A j \in DOMAIN T :
              CorrectSkew(T, i, t)[j].when =
                IF T[j].active THEN T[j].when - (T[i].when - t - T[i].interval)
                               ELSE T[j].when
<1> DEFINE w == T[i].when
           p == T[i].interval
<1>1. /\ w \in Int /\ p \in Nat /\ SkewDetect \in Nat /\ IntMax \in Nat
      /\ w - t <= IntMax /\ p + SkewDetect <= IntMax
  BY SlotFields, TimerAssumption
<1> HIDE DEF w, p
<1>2. Wrap(p + SkewDetect) = p + SkewDetect
  BY <1>1, WrapFits DEF IntMin
<1>3. SkewDetected(T, i, t) <=> w >= t /\ Wrap(w - t) > Wrap(p + SkewDetect)
  BY DEF SkewDetected, TimeDifference, w, p
<1>4. ASSUME w >= t PROVE Wrap(w - t) = w - t
  BY <1>1, <1>4, WrapFits DEF IntMin
<1>5. SkewDetected(T, i, t) <=> w > t + p + SkewDetect
  BY <1>1, <1>2, <1>3, <1>4
<1>6. ASSUME SkewDetected(T, i, t), NEW j \in DOMAIN T
      PROVE  CorrectSkew(T, i, t)[j].when =
               IF T[j].active THEN T[j].when - (w - t - p) ELSE T[j].when
  <2> DEFINE skew == w - t - p
  <2>1. skew \in Int /\ IntMin <= skew /\ skew <= IntMax /\ w >= t
    BY <1>1, <1>5, <1>6 DEF IntMin
  <2> HIDE DEF skew
  <2>2. Wrap(skew) = skew
    BY <2>1, WrapFits
  <2>3. Wrap(TimeDifference(T, i, t) - T[i].interval) = skew
    BY <1>4, <2>1, <2>2 DEF TimeDifference, w, p, skew
  <2>4. CorrectSkew(T, i, t)[j] =
          IF T[j].active THEN [T[j] EXCEPT !.when = T[j].when - skew] ELSE T[j]
    BY <2>3 DEF CorrectSkew
  <2>5. T[j] \in Slot
    OBVIOUS
  <2> QED
    BY <2>4, <2>5 DEF Slot, skew
<1> QED
  BY <1>5, <1>6 DEF w, p

-----------------------------------------------------------------------------
(***************************************************************************)
(* Type correctness                                                        *)
(***************************************************************************)
LEMMA TypeInit == Init => TypeOK
  BY TimerAssumption, TimerLoopAssumption DEF Init, TypeOK, PCs

\* A call of timer_add() keeps the table well formed.
LEMMA AddType ==
  ASSUME TypeOK, CanAdd(Timers),
         NEW c \in Clients, NEW i \in Intervals, NEW o \in BOOLEAN,
         Timers' = TimerAdd(Timers, NewTimer(c, i, o, clock)),
         called' = called \ {FreeSlot(Timers)}
  PROVE  /\ Timers' \in Seq(Slot)
         /\ Len(Timers') <= SlotLimit
         /\ Len(Timers) <= Len(Timers')
         /\ called' \in SUBSET (1..SlotLimit)
<1>1. Timers \in Seq(Slot) /\ Len(Timers) <= SlotLimit /\ clock \in Int
  BY DEF TypeOK
<1>2. FreeSlot(Timers) <= SlotLimit /\ SlotLimit \in Nat
  BY TimerAssumption DEF CanAdd
<1>3. NewTimer(c, i, o, clock) \in Slot
  BY <1>1, NewTimerType
<1>4. called' \in SUBSET (1..SlotLimit)
  BY DEF TypeOK
<1> QED
  BY <1>1, <1>2, <1>3, <1>4, TimerAddProperty

LEMMA TypeNext == TypeOK /\ [Next]_vars => TypeOK'
<1> SUFFICES ASSUME TypeOK, [Next]_vars PROVE TypeOK'
  OBVIOUS
<1> USE DEF PCs
<1>T. /\ Timers \in Seq(Slot) /\ Len(Timers) \in Nat
      /\ DOMAIN Timers = 1..Len(Timers)
      /\ SlotLimit \in Nat
  BY TimerAssumption DEF TypeOK
<1>1. ASSUME NEW c \in Clients, NEW i \in Intervals, NEW o \in BOOLEAN,
             Add(c, i, o)
      PROVE  TypeOK'
  <2>1. CASE CanAdd(Timers)
    <3>1. /\ Timers' \in Seq(Slot)
          /\ Len(Timers') <= SlotLimit
          /\ Len(Timers) <= Len(Timers')
          /\ called' \in SUBSET (1..SlotLimit)
      BY <1>1, <2>1, AddType DEF Add
    <3>2. Len(Timers') \in Nat
      BY <3>1
    <3> QED
      BY <1>1, <1>T, <2>1, <3>1, <3>2 DEF Add, TypeOK, loop
  <2>2. CASE ~CanAdd(Timers)
    BY <1>1, <2>2 DEF Add, TypeOK, loop
  <2> QED
    BY <2>1, <2>2
<1>2. ASSUME NEW c \in Clients, NEW i \in Intervals, NEW o \in BOOLEAN,
             AddLate(c, i, o)
      PROVE  TypeOK'
  <2>1. CASE CanAdd(Timers)
    <3>1. /\ Timers' \in Seq(Slot)
          /\ Len(Timers') <= SlotLimit
          /\ Len(Timers) <= Len(Timers')
          /\ called' \in SUBSET (1..SlotLimit)
      BY <1>2, <2>1, AddType DEF AddLate
    <3>2. Len(Timers') \in Nat
      BY <3>1
    <3>3. ret' \in {0, -1} /\ UNCHANGED loop
      BY <1>2, <2>1 DEF AddLate
    <3> QED
      BY <3>1, <3>2, <3>3 DEF TypeOK, loop
  <2>2. CASE ~CanAdd(Timers)
    <3> DEFINE found == {s \in OwnedBy(Timers, c) : Timers[s].interval = i}
    <3>1. CASE found = {}
      BY <1>2, <2>2, <3>1 DEF AddLate, TypeOK, loop
    <3>2. CASE found # {}
      <4>1. found \in SUBSET Nat /\ found \subseteq DOMAIN Timers
        BY <1>T DEF OwnedBy, ActiveSlots
      <4>2. Min(found) \in DOMAIN Timers
        BY <3>2, <4>1, MinProperty
      <4>3. PICK m \in DOMAIN Timers :
              Timers' = [Timers EXCEPT ![m] = [Timers[m] EXCEPT !.one_shot = o]]
        BY <1>2, <2>2, <3>2, <4>2 DEF AddLate
      <4>4. Timers[m] \in Slot
        BY <1>T, <4>3
      <4>5. [Timers[m] EXCEPT !.one_shot = o] \in Slot
        BY <4>4, SlotUpdates
      <4>6. Timers' \in Seq(Slot) /\ Len(Timers') = Len(Timers)
        BY <1>T, <4>3, <4>5
      <4>7. ret' \in {0, -1} /\ UNCHANGED <<called, loop>>
        BY <1>2, <2>2 DEF AddLate
      <4> QED
        BY <4>6, <4>7 DEF TypeOK, loop
    <3> QED
      BY <3>1, <3>2
  <2> QED
    BY <2>1, <2>2
<1>3. ASSUME NEW c \in Clients, Remove(c)
      PROVE  TypeOK'
  <2>1. Timers' \in Seq(Slot) /\ Len(Timers') = Len(Timers)
    BY <1>3, <1>T, TimerRemoveProperty DEF Remove
  <2>2. ret' \in {0, -1} /\ UNCHANGED <<called, loop>>
    BY <1>3 DEF Remove
  <2> QED
    BY <2>1, <2>2 DEF TypeOK, loop
<1>4. CASE Begin
  BY <1>4, <1>T DEF Begin, TypeOK
<1>5. CASE Skip
  BY <1>5, <1>T DEF Skip, TypeOK
<1>6. CASE Fire
  BY <1>6, <1>T DEF Fire, TypeOK
<1>7. CASE Return
  <2>1. timer \in DOMAIN Timers /\ now \in Int
    BY <1>7, <1>T DEF Return, TypeOK
  <2>2. Timers[timer] \in Slot
    BY <1>T, <2>1
  <2>3. PICK s \in Slot : Timers' = [Timers EXCEPT ![timer] = s]
    <3>1. CASE Timers[timer].one_shot
      <4>1. Timers' =
              [Timers EXCEPT ![timer] = [Timers[timer] EXCEPT !.active = FALSE]]
        BY <1>7, <3>1 DEF Return, Rearm
      <4>2. [Timers[timer] EXCEPT !.active = FALSE] \in Slot
        BY <2>2, SlotUpdates
      <4> QED
        BY <4>1, <4>2
    <3>2. CASE ~Timers[timer].one_shot
      <4>1. PICK w \in NextTriggers(Timers[timer], now) :
              Timers' =
                [Timers EXCEPT ![timer] = [Timers[timer] EXCEPT !.when = w]]
        BY <1>7, <3>2 DEF Return, Rearm
      <4>2. w \in Int
        BY <2>1, <2>2, NextTriggersType
      <4>3. [Timers[timer] EXCEPT !.when = w] \in Slot
        BY <2>2, <4>2, SlotUpdates
      <4> QED
        BY <4>1, <4>3
    <3> QED
      BY <3>1, <3>2
  <2>4. Timers' \in Seq(Slot) /\ Len(Timers') = Len(Timers)
    BY <1>T, <2>1, <2>3
  <2> QED
    BY <1>7, <1>T, <2>1, <2>4 DEF Return, TypeOK
<1>8. CASE Finish
  <2>1. CASE ActiveSlots(Timers) = {}
    <3>1. Timers' \in Seq(Slot) /\ Len(Timers') = 0
      BY <1>8, <2>1 DEF Finish, TimerExit
    <3> QED
      BY <1>8, <1>T, <2>1, <3>1 DEF Finish, TimerExit, TypeOK
  <2>2. CASE ActiveSlots(Timers) # {}
    <3>1. PICK n \in ActiveSlots(Timers) :
            /\ delay' = DelayUntil(Timers, n, clock)
            /\ Timers' = IF SkewDetected(Timers, n, clock)
                         THEN CorrectSkew(Timers, n, clock) ELSE Timers
      BY <1>8, <2>2 DEF Finish
    <3>2. n \in DOMAIN Timers /\ clock \in Int
      BY DEF ActiveSlots, TypeOK
    <3>3. Timers[n].when \in Int
      BY <1>T, <3>2, SlotFields
    <3>4. delay' \in Nat
      BY <3>1, <3>2, <3>3 DEF DelayUntil
    <3>5. Timers' \in Seq(Slot) /\ Len(Timers') = Len(Timers)
      BY <1>T, <3>1, <3>2, CorrectSkewProperty
    <3> QED
      BY <1>8, <1>T, <2>2, <3>4, <3>5 DEF Finish, TypeOK
  <2> QED
    BY <2>1, <2>2
<1>9. CASE Timeout \/ EventReady
  BY <1>9 DEF Timeout, EventReady, TypeOK
<1>10. CASE Signal
  <2>1. Timers' \in Seq(Slot) /\ Len(Timers') = 0
    BY <1>10 DEF Signal, TimerExit
  <2> QED
    BY <1>10, <1>T, <2>1 DEF Signal, TimerExit, TypeOK
<1>11. CASE Tick
  <2>1. delay' \in Nat
    BY <1>11 DEF Tick, TypeOK
  <2> QED
    BY <1>11, <2>1 DEF Tick, TypeOK
<1>12. CASE SetClock
  <2>1. clock' \in Int
    BY <1>12, TimerLoopAssumption DEF SetClock, TypeOK
  <2>2. jumps' \in 0..MaxJumps
    BY <1>12, TimerLoopAssumption DEF SetClock, TypeOK
  <2> QED
    BY <1>12, <2>1, <2>2 DEF SetClock, TypeOK
<1>13. CASE UNCHANGED vars
  BY <1>13 DEF vars, TypeOK
<1> QED
  BY <1>1, <1>2, <1>3, <1>4, <1>5, <1>6, <1>7, <1>8, <1>9, <1>10, <1>11,
     <1>12, <1>13 DEF Next, Client, TimerProcess

\* The slot table, the loop index and the delay keep their types whatever the
\* clients do and however the clock is set.
THEOREM TypeCorrect == Spec => []TypeOK
  BY TypeInit, TypeNext, PTL DEF Spec

\* What client code does to the table: each slot holds what it held, less its
\* active mark or its one-shot mark, or a timer made just now.
LEMMA ClientProperty ==
  ASSUME TypeOK, Client
  PROVE  /\ UNCHANGED loop
         /\ DOMAIN Timers \subseteq DOMAIN Timers'
         /\ \A i \in DOMAIN Timers' :
              \/ /\ i \in DOMAIN Timers
                 /\ Timers'[i].when = Timers[i].when
                 /\ Timers'[i].interval = Timers[i].interval
                 /\ Timers'[i].active => Timers[i].active
              \/ /\ Timers'[i].interval \in Intervals
                 /\ \/ Timers'[i].when = clock
                    \/ Timers'[i].when = clock + Timers'[i].interval
<1>T. /\ Timers \in Seq(Slot) /\ DOMAIN Timers = 1..Len(Timers)
      /\ Len(Timers) \in Nat /\ clock \in Int
      /\ \A i \in DOMAIN Timers : Timers[i] \in Slot
  BY DEF TypeOK
<1>1. ASSUME NEW c \in Clients, NEW j \in Intervals, NEW q \in BOOLEAN,
             Timers' = TimerAdd(Timers, NewTimer(c, j, q, clock))
      PROVE  /\ DOMAIN Timers \subseteq DOMAIN Timers'
             /\ \A i \in DOMAIN Timers' :
                  \/ i \in DOMAIN Timers /\ Timers'[i] = Timers[i]
                  \/ /\ Timers'[i].interval \in Intervals
                     /\ \/ Timers'[i].when = clock
                        \/ Timers'[i].when = clock + Timers'[i].interval
  <2> DEFINE s == NewTimer(c, j, q, clock)
  <2>1. s \in Slot
    BY <1>T, NewTimerType
  <2>2. /\ s.interval \in Intervals
        /\ s.when = clock \/ s.when = clock + s.interval
    BY DEF NewTimer
  <2>3. Timers' = TimerAdd(Timers, s)
    BY <1>1
  <2> HIDE DEF s
  <2>4. /\ TimerAdd(Timers, s) \in Seq(Slot)
        /\ Len(Timers) <= Len(TimerAdd(Timers, s))
        /\ TimerAdd(Timers, s)[FreeSlot(Timers)] = s
        /\ \A i \in DOMAIN TimerAdd(Timers, s) :
             i # FreeSlot(Timers) =>
               i \in DOMAIN Timers /\ TimerAdd(Timers, s)[i] = Timers[i]
    BY <1>T, <2>1, TimerAddProperty
  <2>5. DOMAIN Timers \subseteq DOMAIN Timers'
    BY <1>T, <2>3, <2>4
  <2> QED
    BY <2>2, <2>3, <2>4, <2>5
<1>2. ASSUME NEW c \in Clients, NEW j \in Intervals, NEW o \in BOOLEAN,
             AddLate(c, j, o), ~CanAdd(Timers)
      PROVE  /\ DOMAIN Timers' = DOMAIN Timers
             /\ \A i \in DOMAIN Timers :
                  /\ Timers'[i].when = Timers[i].when
                  /\ Timers'[i].interval = Timers[i].interval
                  /\ Timers'[i].active = Timers[i].active
  <2> DEFINE found == {k \in OwnedBy(Timers, c) : Timers[k].interval = j}
             m == Min(found)
  <2>1. \/ Timers' = Timers
        \/ Timers' = [Timers EXCEPT ![m] = [Timers[m] EXCEPT !.one_shot = o]]
    BY <1>2 DEF AddLate
  <2> HIDE DEF found, m
  <2>2. CASE m \in DOMAIN Timers
    <3> DEFINE u == [Timers[m] EXCEPT !.one_shot = o]
    <3>1. /\ u.when = Timers[m].when
          /\ u.interval = Timers[m].interval
          /\ u.active = Timers[m].active
      BY <1>T, <2>2 DEF Slot
    <3>2. Timers' = Timers \/ Timers' = [Timers EXCEPT ![m] = u]
      BY <2>1
    <3> HIDE DEF u
    <3> QED
      BY <1>T, <2>2, <3>1, <3>2
  <2>3. CASE m \notin DOMAIN Timers
    BY <1>T, <2>1, <2>3
  <2> QED
    BY <2>2, <2>3
<1>3. ASSUME NEW c \in Clients, Remove(c)
      PROVE  /\ DOMAIN Timers' = DOMAIN Timers
             /\ \A i \in DOMAIN Timers :
                  /\ Timers'[i].when = Timers[i].when
                  /\ Timers'[i].interval = Timers[i].interval
                  /\ Timers'[i].active => Timers[i].active
  BY <1>3, <1>T DEF Remove, TimerRemove, Slot
<1>4. UNCHANGED loop
  BY DEF Client, Add, AddLate, Remove
<1>5. ASSUME NEW c \in Clients, NEW j \in Intervals, NEW o \in BOOLEAN,
             Add(c, j, o)
      PROVE  Timers' = Timers
             \/ Timers' = TimerAdd(Timers, NewTimer(c, j, o, clock))
  BY <1>5 DEF Add
<1>6. ASSUME NEW c \in Clients, NEW j \in Intervals, NEW o \in BOOLEAN,
             AddLate(c, j, o), CanAdd(Timers)
      PROVE  Timers' = TimerAdd(Timers, NewTimer(c, j, TRUE, clock))
  BY <1>6 DEF AddLate
<1>7. PICK c \in Clients :
        \/ \E j \in Intervals, o \in BOOLEAN : Add(c, j, o) \/ AddLate(c, j, o)
        \/ Remove(c)
  BY DEF Client
<1>8. CASE Remove(c)
  BY <1>3, <1>4, <1>8
<1>9. ASSUME NEW j \in Intervals, NEW o \in BOOLEAN, Add(c, j, o)
      PROVE  Timers' = Timers \/ \E q \in BOOLEAN :
               Timers' = TimerAdd(Timers, NewTimer(c, j, q, clock))
  BY <1>5, <1>9
<1>10. CASE \E j \in Intervals, o \in BOOLEAN : Add(c, j, o)
  BY <1>1, <1>4, <1>9, <1>10
<1>11. CASE \E j \in Intervals, o \in BOOLEAN : AddLate(c, j, o)
  BY <1>1, <1>2, <1>4, <1>6, <1>11
<1> QED
  BY <1>7, <1>8, <1>10, <1>11

-----------------------------------------------------------------------------
(***************************************************************************)
(* The sleep never passes a trigger                                        *)
(***************************************************************************)
LEMMA EntersPollByFinish ==
  ASSUME [Next]_vars, EntersPoll
  PROVE  Finish /\ ActiveSlots(Timers) # {}
  BY DEF EntersPoll, Next, vars, Client, TimerProcess, Add, AddLate, Remove,
         loop, Begin, Skip, Fire, Return, Finish, Timeout, EventReady, Signal,
         Tick, SetClock

\* This is where timer_process() relies on nothing but the order of the
\* triggers: neither the kind of timers nor the clock matter.
THEOREM SleepEndsInTime == Spec => NeverOversleeps
<1>1. ASSUME TypeOK, [Next]_vars, EntersPoll,
             NEW i \in ActiveSlots(Timers')
      PROVE  clock + delay' <= clock \/ clock + delay' <= Timers'[i].when
  <2>1. PICK n \in ActiveSlots(Timers) :
          /\ IsNextTimer(Timers, n)
          /\ delay' = DelayUntil(Timers, n, clock)
          /\ Timers' = IF SkewDetected(Timers, n, clock)
                       THEN CorrectSkew(Timers, n, clock) ELSE Timers
    BY <1>1, EntersPollByFinish DEF Finish
  <2>2. Timers \in Seq(Slot) /\ clock \in Int
    BY <1>1 DEF TypeOK
  <2>3. CASE Timers[n].when < clock \/ SkewDetected(Timers, n, clock)
    BY <2>1, <2>2, <2>3 DEF DelayUntil
  <2>4. CASE ~(Timers[n].when < clock \/ SkewDetected(Timers, n, clock))
    <3>1. delay' = Timers[n].when - clock /\ Timers' = Timers
      BY <2>1, <2>4 DEF DelayUntil
    <3>2. Timers[n] \in Slot /\ Timers[i] \in Slot /\ i \in ActiveSlots(Timers)
      BY <1>1, <2>2, <3>1 DEF ActiveSlots
    <3>3. Timers[n].when \in Int /\ Timers[i].when \in Int
      BY <3>2, SlotFields
    <3>4. Timers[n].when <= Timers[i].when
      BY <2>1, <3>2, <3>3 DEF IsNextTimer
    <3> QED
      BY <2>2, <3>1, <3>3, <3>4
  <2> QED
    BY <2>3, <2>4
<1>2. TypeOK /\ [Next]_vars =>
        [EntersPoll =>
           \A i \in ActiveSlots(Timers') :
             clock + delay' <= clock \/ clock + delay' <= Timers'[i].when]_vars
  BY <1>1
<1> QED
  BY <1>2, TypeCorrect, PTL DEF Spec, NeverOversleeps

-----------------------------------------------------------------------------
(***************************************************************************)
(* No timer is lost                                                        *)
(***************************************************************************)

\* Inductive: while a callback runs, its slot is still the one that was called
\* and has not been given away.
CalledSlotKept ==
  pc = "callback" => /\ timer \in ActiveSlots(Timers)
                     /\ timer \in called

TimerKeptOrDone(i) ==
  \/ /\ i \in ActiveSlots(Timers')
     /\ Timers'[i].client = Timers[i].client
     /\ Timers'[i].interval = Timers[i].interval
  \/ /\ pc = "callback" /\ pc' = "timers"
     /\ Timers[i].one_shot /\ i \in called
  \/ Remove(Timers[i].client)
  \/ pc' = "exit"

\* A timer_add() leaves the other timers as they are, and it takes no slot
\* that is in use.
LEMMA AddKeeps ==
  ASSUME TypeOK, NEW c \in Clients, NEW j \in Intervals, NEW o \in BOOLEAN,
         Timers' = TimerAdd(Timers, NewTimer(c, j, o, clock))
  PROVE  \A i \in ActiveSlots(Timers) :
           /\ i \in ActiveSlots(Timers')
           /\ Timers'[i] = Timers[i]
           /\ i # FreeSlot(Timers)
<1> SUFFICES ASSUME NEW i \in ActiveSlots(Timers)
             PROVE  /\ i \in ActiveSlots(Timers')
                    /\ Timers'[i] = Timers[i]
                    /\ i # FreeSlot(Timers)
  OBVIOUS
<1>1. Timers \in Seq(Slot) /\ clock \in Int
  BY DEF TypeOK
<1>2. NewTimer(c, j, o, clock) \in Slot
  BY <1>1, NewTimerType
<1>3. i \in DOMAIN Timers /\ Timers[i].active
  BY DEF ActiveSlots
<1>4. i # FreeSlot(Timers)
  BY <1>1, <1>3, FreeSlotProperty
<1>5. /\ Timers' \in Seq(Slot)
      /\ Len(Timers) <= Len(Timers')
      /\ \A k \in DOMAIN Timers' :
           k # FreeSlot(Timers) => Timers'[k] = Timers[k]
  BY <1>1, <1>2, TimerAddProperty
<1>6. i \in DOMAIN Timers'
  BY <1>1, <1>3, <1>5
<1> QED
  BY <1>3, <1>4, <1>5, <1>6 DEF ActiveSlots

\* The one-shot mark that timer_add_late() changes is no part of what identifies
\* a timer.
LEMMA UnmaskKeeps ==
  ASSUME TypeOK, NEW c \in Clients, NEW j \in Intervals, NEW o \in BOOLEAN,
         AddLate(c, j, o), ~CanAdd(Timers)
  PROVE  \A i \in ActiveSlots(Timers) :
           /\ i \in ActiveSlots(Timers')
           /\ Timers'[i].client = Timers[i].client
           /\ Timers'[i].interval = Timers[i].interval
<1> DEFINE found == {s \in OwnedBy(Timers, c) : Timers[s].interval = j}
<1>1. Timers \in Seq(Slot) /\ DOMAIN Timers = 1..Len(Timers)
  BY DEF TypeOK
<1>2. CASE found = {}
  BY <1>2 DEF AddLate
<1>3. CASE found # {}
  <2>1. found \in SUBSET Nat /\ found \subseteq DOMAIN Timers
    BY <1>1 DEF OwnedBy, ActiveSlots
  <2>2. Min(found) \in DOMAIN Timers
    BY <1>3, <2>1, MinProperty
  <2>3. PICK m \in DOMAIN Timers :
          Timers' = [Timers EXCEPT ![m] = [Timers[m] EXCEPT !.one_shot = o]]
    BY <1>3, <2>2 DEF AddLate
  <2> QED
    BY <1>1, <2>3, SlotFields DEF ActiveSlots, Slot
<1> QED
  BY <1>2, <1>3

LEMMA KeptInit == Init => CalledSlotKept
  BY DEF Init, CalledSlotKept

LEMMA KeptNext ==
  ASSUME ~SelfRemove
  PROVE  TypeOK /\ CalledSlotKept /\ [Next]_vars =>
           /\ CalledSlotKept'
           /\ \A i \in ActiveSlots(Timers) :
                UNCHANGED vars \/ TimerKeptOrDone(i)
<1> SUFFICES ASSUME TypeOK, CalledSlotKept, [Next]_vars
             PROVE  /\ CalledSlotKept'
                    /\ \A i \in ActiveSlots(Timers) :
                         UNCHANGED vars \/ TimerKeptOrDone(i)
  OBVIOUS
<1>T. Timers \in Seq(Slot) /\ DOMAIN Timers = 1..Len(Timers)
  BY DEF TypeOK
<1>1. ASSUME NEW c \in Clients, NEW j \in Intervals, NEW o \in BOOLEAN,
             Add(c, j, o) \/ AddLate(c, j, o)
      PROVE  /\ CalledSlotKept'
             /\ \A i \in ActiveSlots(Timers) : TimerKeptOrDone(i)
  <2>1. CASE CanAdd(Timers)
    <3>1. PICK q \in BOOLEAN :
            /\ Timers' = TimerAdd(Timers, NewTimer(c, j, q, clock))
            /\ called' = called \ {FreeSlot(Timers)}
            /\ UNCHANGED loop
      BY <1>1, <2>1 DEF Add, AddLate
    <3> QED
      BY <3>1, AddKeeps DEF CalledSlotKept, TimerKeptOrDone, loop
  <2>2. CASE ~CanAdd(Timers) /\ Add(c, j, o)
    BY <2>2 DEF Add, CalledSlotKept, TimerKeptOrDone, loop, ActiveSlots
  <2>3. CASE ~CanAdd(Timers) /\ AddLate(c, j, o)
    <3>1. UNCHANGED <<called, loop>>
      BY <2>3 DEF AddLate
    <3> QED
      BY <2>3, <3>1, UnmaskKeeps DEF CalledSlotKept, TimerKeptOrDone, loop
  <2> QED
    BY <1>1, <2>1, <2>2, <2>3
<1>2. ASSUME NEW c \in Clients, Remove(c)
      PROVE  /\ CalledSlotKept'
             /\ \A i \in ActiveSlots(Timers) : TimerKeptOrDone(i)
  <2>1. /\ Timers' \in Seq(Slot)
        /\ Len(Timers') = Len(Timers)
        /\ \A i \in DOMAIN Timers :
             Timers'[i] = Timers[i] \/ Timers[i].client = c
    <3>1. Timers' = TimerRemove(Timers, c)
      BY <1>2 DEF Remove
    <3>2. /\ TimerRemove(Timers, c) \in Seq(Slot)
          /\ Len(TimerRemove(Timers, c)) = Len(Timers)
          /\ \A i \in DOMAIN Timers :
               TimerRemove(Timers, c)[i] = Timers[i] \/ Timers[i].client = c
      BY <1>T, TimerRemoveProperty
    <3> QED
      BY <3>1, <3>2
  <2>2. \A i \in ActiveSlots(Timers) :
          Timers[i].client # c => i \in ActiveSlots(Timers')
                                  /\ Timers'[i] = Timers[i]
    BY <1>T, <2>1 DEF ActiveSlots
  <2>3. pc = "callback" => Timers[timer].client # c
    BY <1>2 DEF Remove
  <2>4. UNCHANGED <<called, loop>>
    BY <1>2 DEF Remove
  <2> QED
    BY <1>2, <2>2, <2>3, <2>4 DEF CalledSlotKept, TimerKeptOrDone, loop
<1>3. CASE Fire
  BY <1>3, <1>T DEF TypeOK, Fire, Due, CalledSlotKept, TimerKeptOrDone, ActiveSlots
<1>4. CASE Return
  <2>1. timer \in ActiveSlots(Timers) /\ timer \in called
    BY <1>4 DEF Return, CalledSlotKept
  <2>2. \A i \in ActiveSlots(Timers) :
          i # timer => i \in ActiveSlots(Timers') /\ Timers'[i] = Timers[i]
    BY <1>4, <1>T, <2>1 DEF Return, Rearm, ActiveSlots
  <2>3. CASE Timers[timer].one_shot
    BY <1>4, <2>1, <2>2, <2>3
       DEF Return, CalledSlotKept, TimerKeptOrDone
  <2>4. CASE ~Timers[timer].one_shot
    <3>1. PICK w : Timers' =
            [Timers EXCEPT ![timer] = [Timers[timer] EXCEPT !.when = w]]
      BY <1>4, <2>4 DEF Return, Rearm
    <3>2. Timers[timer] \in Slot
      BY <1>T, <2>1 DEF ActiveSlots
    <3>3. /\ timer \in ActiveSlots(Timers')
          /\ Timers'[timer].client = Timers[timer].client
          /\ Timers'[timer].interval = Timers[timer].interval
      BY <1>T, <2>1, <3>1, <3>2 DEF ActiveSlots, Slot
    <3> QED
      BY <1>4, <2>1, <2>2, <3>3 DEF Return, CalledSlotKept, TimerKeptOrDone
  <2> QED
    BY <2>3, <2>4
<1>5. CASE Finish
  <2>1. CASE ActiveSlots(Timers) = {}
    BY <1>5, <2>1 DEF Finish, CalledSlotKept
  <2>2. CASE ActiveSlots(Timers) # {}
    <3>1. PICK n \in ActiveSlots(Timers) :
            Timers' = IF SkewDetected(Timers, n, clock)
                      THEN CorrectSkew(Timers, n, clock) ELSE Timers
      BY <1>5, <2>2 DEF Finish
    <3>2. n \in DOMAIN Timers /\ clock \in Int
      BY DEF ActiveSlots, TypeOK
    <3>3. /\ Timers' \in Seq(Slot) /\ Len(Timers') = Len(Timers)
          /\ \A i \in DOMAIN Timers :
               /\ Timers'[i].client = Timers[i].client
               /\ Timers'[i].interval = Timers[i].interval
               /\ Timers'[i].active = Timers[i].active
      BY <1>T, <3>1, <3>2, CorrectSkewProperty
    <3>4. pc' = "poll"
      BY <1>5, <2>2 DEF Finish
    <3> QED
      BY <1>T, <3>3, <3>4 DEF CalledSlotKept, TimerKeptOrDone, ActiveSlots
  <2> QED
    BY <2>1, <2>2
<1>6. CASE Begin \/ Skip \/ Timeout \/ EventReady \/ Signal \/ Tick \/ SetClock
  BY <1>6 DEF Begin, Skip, Timeout, EventReady, Signal, Tick, SetClock,
              CalledSlotKept, TimerKeptOrDone, ActiveSlots
<1>7. CASE UNCHANGED vars
  BY <1>7 DEF vars, CalledSlotKept, ActiveSlots
<1> QED
  BY <1>1, <1>2, <1>3, <1>4, <1>5, <1>6, <1>7 DEF Next, Client, TimerProcess

\* If no callback removes the very timer it runs for, a timer leaves the table
\* only after its call, through its owner or at the end of the program.
THEOREM TimersKept ==
  ASSUME ~SelfRemove
  PROVE  Spec => NoTimerLost
<1>1. TypeOK /\ CalledSlotKept /\ [Next]_vars =>
        CalledSlotKept' /\ [\A i \in ActiveSlots(Timers) :
                              TimerKeptOrDone(i)]_vars
  BY KeptNext
<1>2. Spec => [][\A i \in ActiveSlots(Timers) : TimerKeptOrDone(i)]_vars
  BY <1>1, KeptInit, TypeCorrect, PTL DEF Spec
<1> QED
  BY <1>2 DEF NoTimerLost, TimerKeptOrDone

-----------------------------------------------------------------------------
(***************************************************************************)
(* A steady clock                                                          *)
(***************************************************************************)

\* Nobody sets the clock, and an int holds the running time plus one interval
\* and the threshold.
SteadyClock == MaxJumps = 0
NoOverflow == \A i \in Intervals : MaxClock + i + SkewDetect <= IntMax

\* Inductive.  All slots are meant, the released ones too: timer_process()
\* advances the slot it called even when the callback released it.  The last
\* conjunct is about a timer re-created there, ahead of the pass: it is either
\* due immediately or a full interval away.
SteadyInv ==
  /\ 0 <= now /\ now <= clock /\ clock <= MaxClock
  /\ \A i \in DOMAIN Timers :
       0 <= Timers[i].when /\ Timers[i].when <= clock + Timers[i].interval
  /\ pc = "callback" =>
       \/ Timers[timer].when <= clock
       \/ Timers[timer].when >= now + Timers[timer].interval

LEMMA SteadyInit == Init => SteadyInv
  BY TimerLoopAssumption DEF Init, SteadyInv

\* Facts about a slot table that follow from the types and the assumptions.
LEMMA SteadyFacts ==
  ASSUME TypeOK, SteadyInv, NoOverflow
  PROVE  /\ Timers \in Seq(Slot) /\ DOMAIN Timers = 1..Len(Timers)
         /\ clock \in Nat /\ now \in Nat
         /\ \A i \in DOMAIN Timers :
              /\ Timers[i] \in Slot
              /\ Timers[i].when \in Nat
              /\ Timers[i].interval \in Nat
              /\ clock + Timers[i].interval + SkewDetect <= IntMax
<1>1. /\ Timers \in Seq(Slot) /\ DOMAIN Timers = 1..Len(Timers)
      /\ clock \in Nat /\ now \in Nat
  BY DEF TypeOK, SteadyInv
<1>2. ASSUME NEW i \in DOMAIN Timers
      PROVE  /\ Timers[i] \in Slot
             /\ Timers[i].when \in Nat
             /\ Timers[i].interval \in Nat
             /\ clock + Timers[i].interval + SkewDetect <= IntMax
  <2>1. Timers[i] \in Slot
    BY <1>1
  <2>2. /\ Timers[i].when \in Int
        /\ Timers[i].interval \in Intervals
        /\ Timers[i].interval \in Nat
    BY <2>1, SlotFields
  <2>3. MaxClock \in Nat /\ SkewDetect \in Nat /\ IntMax \in Nat
    BY TimerAssumption, TimerLoopAssumption
  <2> QED
    BY <1>1, <2>1, <2>2, <2>3 DEF SteadyInv, NoOverflow
<1> QED
  BY <1>1, <1>2

\* The clock-skew branch is dead while the clock is steady.
LEMMA SteadyFinish ==
  ASSUME TypeOK, SteadyInv, NoOverflow, Finish, ActiveSlots(Timers) # {}
  PROVE  Timers' = Timers /\ pc' = "poll"
<1>1. PICK n \in ActiveSlots(Timers) :
        Timers' = IF SkewDetected(Timers, n, clock)
                  THEN CorrectSkew(Timers, n, clock) ELSE Timers
  BY DEF Finish
<1>2. n \in DOMAIN Timers
  BY DEF ActiveSlots
<1> DEFINE w == Timers[n].when
           p == Timers[n].interval
<1>3. /\ w \in Nat /\ p \in Nat /\ clock \in Nat
      /\ w <= clock + p /\ clock + p + SkewDetect <= IntMax
  BY <1>2, SteadyFacts DEF SteadyInv
<1> HIDE DEF w, p
<1>4. CASE w < clock
  BY <1>1, <1>3, <1>4 DEF SkewDetected, Finish, w
<1>5. CASE w >= clock
  <2>1. SkewDetect \in Nat /\ IntMax \in Nat
    BY TimerAssumption
  <2>2. Wrap(w - clock) = w - clock
    BY <1>3, <1>5, <2>1, WrapFits DEF IntMin
  <2>3. Wrap(p + SkewDetect) = p + SkewDetect
    BY <1>3, <2>1, WrapFits DEF IntMin
  <2>4. ~SkewDetected(Timers, n, clock)
    BY <1>3, <2>1, <2>2, <2>3 DEF SkewDetected, TimeDifference, w, p
  <2> QED
    BY <1>1, <2>4 DEF Finish
<1> QED
  BY <1>3, <1>4, <1>5

\* What timer_inc() does to the slot that was called.
LEMMA SteadyReturn ==
  ASSUME TypeOK, SteadyInv, NoOverflow, Return, ~Timers[timer].one_shot
  PROVE  \E w \in Nat :
           /\ Timers' = [Timers EXCEPT ![timer] =
                                         [Timers[timer] EXCEPT !.when = w]]
           /\ w <= clock + Timers[timer].interval
<1>1. timer \in DOMAIN Timers
  BY DEF Return, TypeOK
<1> DEFINE s == Timers[timer]
<1>2. /\ s \in Slot /\ s.when \in Nat /\ s.interval \in Nat
      /\ clock \in Nat /\ now \in Nat /\ now <= clock
      /\ s.when <= clock + s.interval
      /\ clock + s.interval + SkewDetect <= IntMax
      /\ s.when <= clock \/ s.when >= now + s.interval
  BY <1>1, SteadyFacts DEF SteadyInv, Return
<1>3. PICK w \in NextTriggers(s, now) :
        Timers' = [Timers EXCEPT ![timer] = [s EXCEPT !.when = w]]
  BY DEF Return, Rearm
<1> HIDE DEF s
<1>4. now - s.when + s.interval <= IntMax /\ s.when <= now + IntMax
  BY <1>2, TimerAssumption
<1>5. /\ w \in Int
      /\ s.interval > 0 => w > now
      /\ s.interval = 0 => w = s.when
      /\ w <= now + s.interval \/ w <= s.when + s.interval
      /\ s.when >= now + s.interval => w <= s.when
  BY <1>2, <1>4, NextTriggersProperty
<1>6. w <= clock + s.interval
  BY <1>2, <1>5
<1>7. w \in Nat
  BY <1>2, <1>5
<1> QED
  BY <1>3, <1>5, <1>6, <1>7 DEF s

LEMMA SteadyNext ==
  ASSUME SteadyClock, NoOverflow
  PROVE  TypeOK /\ SteadyInv /\ [Next]_vars => SteadyInv'
<1> SUFFICES ASSUME TypeOK, SteadyInv, [Next]_vars PROVE SteadyInv'
  OBVIOUS
<1>T. /\ Timers \in Seq(Slot) /\ DOMAIN Timers = 1..Len(Timers)
      /\ clock \in Nat /\ now \in Nat
      /\ \A i \in DOMAIN Timers :
           /\ Timers[i] \in Slot
           /\ Timers[i].when \in Nat
           /\ Timers[i].interval \in Nat
  BY SteadyFacts
<1>2. CASE Client
  <2>1. /\ UNCHANGED loop
        /\ DOMAIN Timers \subseteq DOMAIN Timers'
        /\ \A i \in DOMAIN Timers' :
             \/ /\ i \in DOMAIN Timers
                /\ Timers'[i].when = Timers[i].when
                /\ Timers'[i].interval = Timers[i].interval
             \/ /\ Timers'[i].interval \in Nat
                /\ \/ Timers'[i].when = clock
                   \/ Timers'[i].when = clock + Timers'[i].interval
    BY <1>2, ClientProperty, TimerAssumption
  <2>2. pc = "callback" => timer \in DOMAIN Timers
    BY <1>T DEF TypeOK
  <2>3. \A i \in DOMAIN Timers' :
          0 <= Timers'[i].when /\ Timers'[i].when <= clock + Timers'[i].interval
    BY <1>T, <2>1 DEF SteadyInv
  <2>4. pc = "callback" =>
          \/ Timers'[timer].when <= clock
          \/ Timers'[timer].when >= now + Timers'[timer].interval
    <3> SUFFICES ASSUME pc = "callback"
                 PROVE  \/ Timers'[timer].when <= clock
                        \/ Timers'[timer].when >= now + Timers'[timer].interval
      OBVIOUS
    <3>1. timer \in DOMAIN Timers /\ timer \in DOMAIN Timers'
      BY <2>1, <2>2
    <3>2. now <= clock
      BY DEF SteadyInv
    <3>3. \/ Timers[timer].when <= clock
          \/ Timers[timer].when >= now + Timers[timer].interval
      BY DEF SteadyInv
    <3>4. \/ /\ Timers'[timer].when = Timers[timer].when
             /\ Timers'[timer].interval = Timers[timer].interval
          \/ /\ Timers'[timer].interval \in Nat
             /\ \/ Timers'[timer].when = clock
                \/ Timers'[timer].when = clock + Timers'[timer].interval
      BY <2>1, <3>1
    <3>5. CASE Timers'[timer].when = Timers[timer].when
               /\ Timers'[timer].interval = Timers[timer].interval
      BY <3>3, <3>5
    <3> QED
      BY <1>T, <3>2, <3>4, <3>5
  <2> QED
    BY <2>1, <2>3, <2>4 DEF SteadyInv, loop
<1>3. CASE Fire
  <2>1. timer \in DOMAIN Timers
    BY <1>3, <1>T DEF Fire, TypeOK
  <2>2. Timers[timer].when <= clock
    BY <1>3, <1>T, <2>1 DEF Fire, Due, SteadyInv
  <2> QED
    BY <1>3, <1>T, <2>2 DEF Fire, SteadyInv
<1>4. CASE Return
  <2>1. timer \in DOMAIN Timers
    BY <1>4, <1>T DEF Return, TypeOK
  <2>2. CASE Timers[timer].one_shot
    BY <1>4, <1>T, <2>1, <2>2 DEF Return, Rearm, SteadyInv, Slot
  <2>3. CASE ~Timers[timer].one_shot
    <3>1. PICK w \in Nat :
            /\ Timers' = [Timers EXCEPT ![timer] =
                                          [Timers[timer] EXCEPT !.when = w]]
            /\ w <= clock + Timers[timer].interval
      BY <1>4, <2>3, SteadyReturn
    <3>2. \A i \in DOMAIN Timers : i # timer => Timers'[i] = Timers[i]
      BY <3>1
    <3>3. Timers'[timer].when = w
          /\ Timers'[timer].interval = Timers[timer].interval
      BY <1>T, <2>1, <3>1 DEF Slot
    <3>4. DOMAIN Timers' = DOMAIN Timers
      BY <3>1
    <3> QED
      BY <1>4, <3>1, <3>2, <3>3, <3>4 DEF Return, SteadyInv
  <2> QED
    BY <2>2, <2>3
<1>5. CASE Finish
  <2>1. CASE ActiveSlots(Timers) = {}
    BY <1>5, <2>1 DEF Finish, TimerExit, SteadyInv
  <2>2. CASE ActiveSlots(Timers) # {}
    BY <1>5, <2>2, SteadyFinish DEF Finish, SteadyInv
  <2> QED
    BY <2>1, <2>2
<1>6. CASE Begin \/ Skip \/ Timeout \/ EventReady \/ Signal
  BY <1>6, <1>T DEF Begin, Skip, Timeout, EventReady, Signal, TimerExit,
                    SteadyInv
<1>7. CASE Tick
  <2>1. clock' = clock + 1 /\ clock' <= MaxClock /\ UNCHANGED <<Timers, pc, timer, now>>
    BY <1>7, <1>T, TimerLoopAssumption DEF Tick
  <2>2. pc = "callback" => timer \in DOMAIN Timers
    BY <1>T DEF TypeOK
  <2> QED
    BY <1>T, <2>1, <2>2 DEF SteadyInv
<1>8. CASE SetClock
  BY <1>8, TimerLoopAssumption DEF SetClock, SteadyClock, TypeOK
<1>9. CASE UNCHANGED vars
  BY <1>9 DEF vars, SteadyInv
<1> QED
  BY <1>2, <1>3, <1>4, <1>5, <1>6, <1>7, <1>8, <1>9 DEF Next, TimerProcess

LEMMA SteadyInvariant ==
  ASSUME SteadyClock, NoOverflow
  PROVE  Spec => [](TypeOK /\ SteadyInv)
<1>1. TypeOK /\ SteadyInv /\ [Next]_vars => SteadyInv'
  BY SteadyNext
<1> QED
  BY <1>1, SteadyInit, TypeCorrect, PTL DEF Spec

\* With a steady clock no active timer is further away than its interval.
THEOREM WaitsBounded ==
  ASSUME SteadyClock, NoOverflow
  PROVE  Spec => []WaitBound
<1>1. TypeOK /\ SteadyInv => WaitBound
  BY DEF SteadyInv, WaitBound, ActiveSlots
<1> QED
  BY <1>1, SteadyInvariant, PTL

\* With a steady clock timer_process() never takes a late timer or a slow
\* callback for a clock skew, for every threshold, even zero.
THEOREM SkewNeverAssumed ==
  ASSUME SteadyClock, NoOverflow
  PROVE  Spec => NoFalseSkew
<1>1. TypeOK /\ SteadyInv /\ [Next]_vars => [EntersPoll => Timers' = Timers]_vars
  BY SteadyFinish, EntersPollByFinish
<1> QED
  BY <1>1, SteadyInvariant, PTL DEF Spec, NoFalseSkew

-----------------------------------------------------------------------------
(***************************************************************************)
(* A clock that is set                                                     *)
(***************************************************************************)

\* The longest interval is at most m, and an int holds the difference between
\* two clock readings in lo..hi plus some intervals and the threshold: with
\* milliseconds in 32 bits, a clock that is set by less than 24 days in all.
ClockFits(lo, hi, m) ==
  /\ \A i \in Intervals : i <= m
  /\ hi - lo + 3 * m + SkewDetect <= IntMax

\* Inductive.  All slots are meant again.  A trigger may be two intervals away
\* from any clock reading: a timer re-created ahead of the pass may be advanced
\* once more.
RangeInv(lo, hi, m) ==
  /\ lo <= now /\ now <= hi
  /\ \A i \in DOMAIN Timers :
       lo <= Timers[i].when /\ Timers[i].when <= hi + 2 * m
  /\ pc = "callback" => Timers[timer].when <= hi + m

LEMMA RangeFacts ==
  ASSUME NEW lo \in Int, NEW hi \in Int, NEW m \in Nat, ClockFits(lo, hi, m),
         TypeOK, RangeInv(lo, hi, m), clock \in lo..hi
  PROVE  /\ Timers \in Seq(Slot) /\ DOMAIN Timers = 1..Len(Timers)
         /\ now \in Int /\ clock \in Int /\ IntMax \in Nat /\ SkewDetect \in Nat
         /\ lo <= clock /\ clock <= hi
         /\ \A i \in DOMAIN Timers :
              /\ Timers[i] \in Slot
              /\ Timers[i].when \in Int
              /\ Timers[i].interval \in Nat
              /\ Timers[i].interval <= m
              /\ Timers[i].when - clock <= IntMax
              /\ Timers[i].interval + SkewDetect <= IntMax
              /\ now - Timers[i].when + Timers[i].interval <= IntMax
              /\ Timers[i].when <= now + IntMax
<1>1. /\ Timers \in Seq(Slot) /\ DOMAIN Timers = 1..Len(Timers)
      /\ now \in Int /\ clock \in Int
  BY DEF TypeOK
<1>2. IntMax \in Nat /\ SkewDetect \in Nat
  BY TimerAssumption
<1>3. ASSUME NEW i \in DOMAIN Timers
      PROVE  /\ Timers[i] \in Slot
             /\ Timers[i].when \in Int
             /\ Timers[i].interval \in Nat
             /\ Timers[i].interval <= m
             /\ lo <= Timers[i].when /\ Timers[i].when <= hi + 2 * m
  <2>1. Timers[i] \in Slot
    BY <1>1
  <2> QED
    BY <2>1, SlotFields DEF ClockFits, RangeInv
<1>4. lo <= now /\ now <= hi /\ hi - lo + 3 * m + SkewDetect <= IntMax
  BY DEF RangeInv, ClockFits
<1>5. ASSUME NEW i \in DOMAIN Timers
      PROVE  /\ Timers[i].when - clock <= IntMax
             /\ Timers[i].interval + SkewDetect <= IntMax
             /\ now - Timers[i].when + Timers[i].interval <= IntMax
             /\ Timers[i].when <= now + IntMax
  <2> DEFINE w == Timers[i].when
             p == Timers[i].interval
  <2>1. w \in Int /\ p \in Nat /\ p <= m /\ lo <= w /\ w <= hi + 2 * m
    BY <1>3
  <2>2. lo <= clock /\ clock <= hi /\ hi - lo >= 0
    BY <1>1
  <2> HIDE DEF w, p
  <2>3. /\ w - clock <= IntMax /\ p + SkewDetect <= IntMax
        /\ now - w + p <= IntMax /\ w <= now + IntMax
    BY <1>1, <1>2, <1>4, <2>1, <2>2
  <2> QED
    BY <2>3 DEF w, p
<1> QED
  BY <1>1, <1>2, <1>3, <1>5

\* timer_process() in the presence of the skew correction.
LEMMA RangeFinish ==
  ASSUME NEW lo \in Int, NEW hi \in Int, NEW m \in Nat, ClockFits(lo, hi, m),
         TypeOK, RangeInv(lo, hi, m), clock \in lo..hi,
         Finish, ActiveSlots(Timers) # {}
  PROVE  /\ DOMAIN Timers' = DOMAIN Timers
         /\ \A j \in DOMAIN Timers :
              /\ Timers'[j].active = Timers[j].active
              /\ Timers'[j].interval = Timers[j].interval
         /\ \E n \in ActiveSlots(Timers) :
              /\ IsNextTimer(Timers, n)
              /\ delay' <= Timers[n].interval + SkewDetect
              /\ \/ /\ Timers[n].when <= clock + Timers[n].interval + SkewDetect
                    /\ Timers' = Timers
                 \/ \E skew \in Nat :
                      /\ skew = Timers[n].when - clock - Timers[n].interval
                      /\ \A j \in DOMAIN Timers :
                           Timers'[j].when = IF Timers[j].active
                                             THEN Timers[j].when - skew
                                             ELSE Timers[j].when
<1>1. PICK n \in ActiveSlots(Timers) :
        /\ IsNextTimer(Timers, n)
        /\ delay' = DelayUntil(Timers, n, clock)
        /\ Timers' = IF SkewDetected(Timers, n, clock)
                     THEN CorrectSkew(Timers, n, clock) ELSE Timers
  BY DEF Finish
<1>2. n \in DOMAIN Timers /\ Timers \in Seq(Slot) /\ clock \in Int
  BY RangeFacts DEF ActiveSlots
<1>3. /\ Timers[n].when \in Int /\ Timers[n].interval \in Nat
      /\ Timers[n].when - clock <= IntMax
      /\ Timers[n].interval + SkewDetect <= IntMax
      /\ SkewDetect \in Nat
  BY <1>2, RangeFacts
<1>4. CASE SkewDetected(Timers, n, clock)
  <2>1. Timers' = CorrectSkew(Timers, n, clock)
    BY <1>1, <1>4
  <2>2. Timers[n].when > clock + Timers[n].interval + SkewDetect
    BY <1>2, <1>3, <1>4, CorrectSkewShift
  <2>3. delay' <= Timers[n].interval + SkewDetect
    BY <1>1, <1>3, <1>4 DEF DelayUntil
  <2>4. \A j \in DOMAIN Timers :
          Timers'[j].when =
            IF Timers[j].active
            THEN Timers[j].when - (Timers[n].when - clock - Timers[n].interval)
            ELSE Timers[j].when
    BY <1>2, <1>3, <1>4, <2>1, CorrectSkewShift
  <2>5. /\ DOMAIN Timers' = DOMAIN Timers
        /\ \A j \in DOMAIN Timers :
             /\ Timers'[j].active = Timers[j].active
             /\ Timers'[j].interval = Timers[j].interval
    <3>1. /\ CorrectSkew(Timers, n, clock) \in Seq(Slot)
          /\ Len(CorrectSkew(Timers, n, clock)) = Len(Timers)
          /\ \A j \in DOMAIN Timers :
               /\ CorrectSkew(Timers, n, clock)[j].active = Timers[j].active
               /\ CorrectSkew(Timers, n, clock)[j].interval = Timers[j].interval
      BY <1>2, CorrectSkewProperty
    <3> QED
      BY <1>2, <2>1, <3>1
  <2>6. Timers[n].when - clock - Timers[n].interval \in Nat
    BY <1>2, <1>3, <2>2
  <2> QED
    BY <1>1, <2>3, <2>4, <2>5, <2>6
<1>5. CASE ~SkewDetected(Timers, n, clock)
  <2>1. Timers' = Timers
    BY <1>1, <1>5
  <2>2. Timers[n].when <= clock + Timers[n].interval + SkewDetect
    <3>1. ~(Timers[n].when > clock + Timers[n].interval + SkewDetect)
      BY <1>2, <1>3, <1>5, CorrectSkewShift
    <3> QED
      BY <1>2, <1>3, <3>1
  <2>3. delay' <= Timers[n].interval + SkewDetect
    BY <1>1, <1>2, <1>3, <2>2 DEF DelayUntil
  <2> QED
    BY <1>1, <2>1, <2>2, <2>3
<1> QED
  BY <1>4, <1>5

\* What timer_inc() does to the slot that was called.
LEMMA RangeReturn ==
  ASSUME NEW lo \in Int, NEW hi \in Int, NEW m \in Nat, ClockFits(lo, hi, m),
         TypeOK, RangeInv(lo, hi, m), clock \in lo..hi,
         Return, ~Timers[timer].one_shot
  PROVE  \E w \in Int :
           /\ Timers' = [Timers EXCEPT ![timer] =
                                         [Timers[timer] EXCEPT !.when = w]]
           /\ lo <= w /\ w <= hi + 2 * m
           /\ Timers[timer].when <= now => w <= now + Timers[timer].interval
           /\ Timers[timer].interval > 0 => w > now
<1>1. timer \in DOMAIN Timers
  BY DEF Return, TypeOK
<1> DEFINE s == Timers[timer]
<1>2. /\ s \in Slot /\ s.when \in Int /\ s.interval \in Nat /\ s.interval <= m
      /\ now \in Int /\ lo <= now /\ now <= hi
      /\ lo <= s.when /\ s.when <= hi + m
      /\ now - s.when + s.interval <= IntMax
      /\ s.when <= now + IntMax
  BY <1>1, RangeFacts DEF RangeInv, Return
<1>3. PICK w \in NextTriggers(s, now) :
        Timers' = [Timers EXCEPT ![timer] = [s EXCEPT !.when = w]]
  BY DEF Return, Rearm
<1> HIDE DEF s
<1>4. /\ w \in Int
      /\ s.interval = 0 => w = s.when
      /\ w <= now + s.interval \/ w <= s.when + s.interval
      /\ s.when <= now => w <= now + s.interval
      /\ s.interval > 0 => w > now
  BY <1>2, NextTriggersProperty
<1>5. lo <= w /\ w <= hi + 2 * m
  BY <1>2, <1>4
<1> QED
  BY <1>3, <1>4, <1>5 DEF s

LEMMA RangeNext ==
  ASSUME NEW lo \in Int, NEW hi \in Int, NEW m \in Nat, ClockFits(lo, hi, m)
  PROVE  TypeOK /\ RangeInv(lo, hi, m) /\ clock \in lo..hi /\ [Next]_vars
           => RangeInv(lo, hi, m)'
<1> SUFFICES ASSUME TypeOK, RangeInv(lo, hi, m), clock \in lo..hi, [Next]_vars
             PROVE  RangeInv(lo, hi, m)'
  OBVIOUS
<1>T. /\ Timers \in Seq(Slot) /\ DOMAIN Timers = 1..Len(Timers)
      /\ now \in Int /\ clock \in Int
      /\ lo <= clock /\ clock <= hi
      /\ \A i \in DOMAIN Timers : Timers[i] \in Slot /\ Timers[i].when \in Int
                                  /\ Timers[i].interval \in Nat
  BY RangeFacts
<1>C. pc = "callback" => timer \in DOMAIN Timers
  BY <1>T DEF TypeOK
<1>1. CASE Client
  <2>1. /\ UNCHANGED loop
        /\ DOMAIN Timers \subseteq DOMAIN Timers'
        /\ \A i \in DOMAIN Timers' :
             \/ /\ i \in DOMAIN Timers
                /\ Timers'[i].when = Timers[i].when
             \/ /\ Timers'[i].interval \in Intervals
                /\ \/ Timers'[i].when = clock
                   \/ Timers'[i].when = clock + Timers'[i].interval
    BY <1>1, ClientProperty
  <2>2. \A j \in Intervals : j \in Nat /\ j <= m
    BY TimerAssumption DEF ClockFits
  <2>3. \A i \in DOMAIN Timers' :
          \/ /\ i \in DOMAIN Timers
             /\ Timers'[i].when = Timers[i].when
          \/ /\ lo <= Timers'[i].when
             /\ Timers'[i].when <= hi + m
    BY <1>T, <2>1, <2>2
  <2>4. \A i \in DOMAIN Timers' :
          lo <= Timers'[i].when /\ Timers'[i].when <= hi + 2 * m
    <3> SUFFICES ASSUME NEW i \in DOMAIN Timers'
                 PROVE  /\ lo <= Timers'[i].when
                        /\ Timers'[i].when <= hi + 2 * m
      OBVIOUS
    <3>1. CASE i \in DOMAIN Timers /\ Timers'[i].when = Timers[i].when
      BY <3>1 DEF RangeInv
    <3>2. CASE lo <= Timers'[i].when /\ Timers'[i].when <= hi + m
      <4>1. Timers'[i].when \in Int
        <5>1. Timers' \in Seq(Slot)
          BY TypeNext DEF TypeOK
        <5>2. Timers'[i] \in Slot
          BY <5>1
        <5> QED
          BY <5>2, SlotFields
      <4> QED
        BY <3>2, <4>1
    <3> QED
      BY <2>3, <3>1, <3>2
  <2>5. pc = "callback" => Timers'[timer].when <= hi + m
    BY <1>C, <2>1, <2>3 DEF RangeInv
  <2> QED
    BY <2>1, <2>4, <2>5 DEF RangeInv, loop
<1>2. CASE Begin
  BY <1>2, <1>T DEF Begin, RangeInv
<1>3. CASE Fire
  <2>1. timer \in DOMAIN Timers
    BY <1>3, <1>T DEF Fire, TypeOK
  <2>2. Timers[timer].when <= hi + m
    BY <1>3, <1>T, <2>1 DEF Fire, Due, RangeInv
  <2> QED
    BY <1>3, <2>2 DEF Fire, RangeInv
<1>4. CASE Return
  <2>1. timer \in DOMAIN Timers
    BY <1>4, <1>C DEF Return
  <2>2. CASE Timers[timer].one_shot
    <3>1. Timers' =
            [Timers EXCEPT ![timer] = [Timers[timer] EXCEPT !.active = FALSE]]
      BY <1>4, <2>2 DEF Return, Rearm
    <3> DEFINE u == [Timers[timer] EXCEPT !.active = FALSE]
    <3>2. u.when = Timers[timer].when
      BY <1>T, <2>1 DEF Slot
    <3> HIDE DEF u
    <3>3. Timers' = [Timers EXCEPT ![timer] = u]
      BY <3>1 DEF u
    <3>4. /\ DOMAIN Timers' = DOMAIN Timers
          /\ \A i \in DOMAIN Timers : Timers'[i].when = Timers[i].when
      BY <1>T, <2>1, <3>2, <3>3
    <3> QED
      BY <1>4, <3>4 DEF Return, RangeInv
  <2>3. CASE ~Timers[timer].one_shot
    <3>1. PICK w \in Int :
            /\ Timers' = [Timers EXCEPT ![timer] =
                                          [Timers[timer] EXCEPT !.when = w]]
            /\ lo <= w /\ w <= hi + 2 * m
      BY <1>4, <2>3, RangeReturn
    <3>2. /\ DOMAIN Timers' = DOMAIN Timers
          /\ \A i \in DOMAIN Timers : i # timer => Timers'[i] = Timers[i]
      BY <3>1
    <3>3. Timers'[timer].when = w
      BY <1>T, <2>1, <3>1 DEF Slot
    <3> QED
      BY <1>4, <3>1, <3>2, <3>3 DEF Return, RangeInv
  <2> QED
    BY <2>2, <2>3
<1>5. CASE Finish
  <2>1. CASE ActiveSlots(Timers) = {}
    BY <1>5, <2>1 DEF Finish, TimerExit, RangeInv
  <2>2. CASE ActiveSlots(Timers) # {}
    <3>1. DOMAIN Timers' = DOMAIN Timers
      BY <1>5, <2>2, RangeFinish
    <3>2. PICK n \in ActiveSlots(Timers) :
            /\ IsNextTimer(Timers, n)
            /\ \/ Timers' = Timers
               \/ \E skew \in Nat :
                    /\ skew = Timers[n].when - clock - Timers[n].interval
                    /\ \A j \in DOMAIN Timers :
                         Timers'[j].when = IF Timers[j].active
                                           THEN Timers[j].when - skew
                                           ELSE Timers[j].when
      BY <1>5, <2>2, RangeFinish
    <3>3. n \in DOMAIN Timers
      BY DEF ActiveSlots
    <3>4. UNCHANGED now /\ pc' = "poll"
      BY <1>5, <2>2 DEF Finish
    <3>5. \A j \in DOMAIN Timers :
            lo <= Timers'[j].when /\ Timers'[j].when <= hi + 2 * m
      <4>1. CASE Timers' = Timers
        BY <4>1 DEF RangeInv
      <4>2. CASE \E skew \in Nat :
                   /\ skew = Timers[n].when - clock - Timers[n].interval
                   /\ \A j \in DOMAIN Timers :
                        Timers'[j].when = IF Timers[j].active
                                          THEN Timers[j].when - skew
                                          ELSE Timers[j].when
        <5>1. PICK skew \in Nat :
                /\ skew = Timers[n].when - clock - Timers[n].interval
                /\ \A j \in DOMAIN Timers :
                     Timers'[j].when = IF Timers[j].active
                                       THEN Timers[j].when - skew
                                       ELSE Timers[j].when
          BY <4>2
        <5> SUFFICES ASSUME NEW j \in DOMAIN Timers
                     PROVE  /\ lo <= Timers'[j].when
                            /\ Timers'[j].when <= hi + 2 * m
          OBVIOUS
        <5>2. lo <= Timers[j].when /\ Timers[j].when <= hi + 2 * m
          BY DEF RangeInv
        <5>3. CASE Timers[j].active
          <6>1. Timers[n].when <= Timers[j].when
            BY <1>T, <3>2, <3>3, <5>3 DEF IsNextTimer, ActiveSlots
          <6>2. Timers'[j].when = Timers[j].when - skew
            BY <5>1, <5>3
          <6>3. /\ Timers[n].when \in Int /\ Timers[j].when \in Int
                /\ Timers[n].interval \in Nat
            BY <1>T, <3>3
          <6>4. /\ skew = Timers[n].when - clock - Timers[n].interval
                /\ clock \in Int /\ lo <= clock
            BY <1>T, <5>1
          <6> QED
            BY <5>2, <6>1, <6>2, <6>3, <6>4
        <5>4. CASE ~Timers[j].active
          BY <5>1, <5>2, <5>4
        <5> QED
          BY <5>3, <5>4
      <4> QED
        BY <3>2, <4>1, <4>2
    <3> QED
      BY <3>1, <3>4, <3>5 DEF RangeInv
  <2> QED
    BY <2>1, <2>2
<1>6. CASE Skip \/ Timeout \/ EventReady \/ Signal
  BY <1>6 DEF Skip, Timeout, EventReady, Signal, TimerExit, RangeInv
<1>7. CASE Tick \/ SetClock
  BY <1>7 DEF Tick, SetClock, RangeInv
<1>8. CASE UNCHANGED vars
  BY <1>8 DEF vars, RangeInv
<1> QED
  BY <1>1, <1>2, <1>3, <1>4, <1>5, <1>6, <1>7, <1>8 DEF Next, TimerProcess

LEMMA RangeInvariant ==
  ASSUME NEW lo \in Int, NEW hi \in Int, NEW m \in Nat, ClockFits(lo, hi, m)
  PROVE  Spec /\ [](clock \in lo..hi) => [](TypeOK /\ RangeInv(lo, hi, m))
<1> DEFINE I == RangeInv(lo, hi, m)
           C == clock \in lo..hi
<1>1. Init /\ C => I
  BY DEF Init, RangeInv
<1>2. TypeOK /\ I /\ C /\ [Next]_vars => I'
  BY RangeNext
<1> HIDE DEF I, C
<1>3. Spec /\ []C => [](TypeOK /\ I)
  BY <1>1, <1>2, TypeCorrect, PTL DEF Spec
<1> QED
  BY <1>3 DEF I, C

\* While the clock is set within a range that an int covers, the main loop
\* never sleeps longer than the interval of the timer it waits for plus the
\* threshold, whatever the clients add and remove.
THEOREM SleepsBounded ==
  ASSUME NEW lo \in Int, NEW hi \in Int, NEW m \in Nat, ClockFits(lo, hi, m)
  PROVE  Spec /\ [](clock \in lo..hi) => SleepBound
<1> DEFINE I == RangeInv(lo, hi, m)
           C == clock \in lo..hi
           A == EntersPoll =>
                  \E i \in ActiveSlots(Timers) :
                    /\ IsNextTimer(Timers, i)
                    /\ delay' <= Timers[i].interval + SkewDetect
<1>1. TypeOK /\ I /\ C /\ [Next]_vars => [A]_vars
  BY EntersPollByFinish, RangeFinish
<1>2. Spec /\ []C => [](TypeOK /\ I)
  BY RangeInvariant
<1> HIDE DEF I, C, A
<1>3. Spec /\ []C => [][A]_vars
  BY <1>1, <1>2, PTL DEF Spec
<1> QED
  BY <1>3 DEF C, A, SleepBound

\* In the same range timer_inc() always leaves the present pass behind, also when
\* the clock was set in the middle of it.
THEOREM NoTimerStacksUp ==
  ASSUME NEW lo \in Int, NEW hi \in Int, NEW m \in Nat, ClockFits(lo, hi, m)
  PROVE  Spec /\ [](clock \in lo..hi) => NoBacklog
<1> DEFINE I == RangeInv(lo, hi, m)
           C == clock \in lo..hi
           B == pc = "callback" /\ pc' = "timers" /\ ~Timers[timer].one_shot
                /\ Timers[timer].interval > 0
           A == B => Timers'[timer].when > now
<1>1. ASSUME TypeOK, I, C, [Next]_vars, B
      PROVE  Timers'[timer].when > now
  <2>1. Return
    BY <1>1 DEF Next, vars, Client, TimerProcess, Add, AddLate, Remove, loop,
         Begin, Skip, Fire, Return, Finish, Timeout, EventReady, Signal, Tick,
         SetClock
  <2>2. timer \in DOMAIN Timers /\ Timers[timer] \in Slot
    BY <1>1, <2>1 DEF Return, TypeOK
  <2>3. PICK w \in Int :
          /\ Timers' = [Timers EXCEPT ![timer] =
                                        [Timers[timer] EXCEPT !.when = w]]
          /\ w > now
    BY <1>1, <2>1, RangeReturn
  <2> QED
    BY <2>2, <2>3 DEF Slot
<1>2. TypeOK /\ I /\ C /\ [Next]_vars => [A]_vars
  BY <1>1
<1>3. Spec /\ []C => [](TypeOK /\ I)
  BY RangeInvariant
<1> HIDE DEF I, C, A
<1>4. Spec /\ []C => [][A]_vars
  BY <1>2, <1>3, PTL DEF Spec
<1> QED
  BY <1>4 DEF C, A, B, NoBacklog

-----------------------------------------------------------------------------
(***************************************************************************)
(* How far the timers that are not the next one may drift                  *)
(***************************************************************************)

\* All timers are added while the program initialises, with the clock nobody
\* has set yet, and none of them asks for a zero interval.
OneClock == Dynamic = {} /\ "init" \notin JumpAt /\ 0 \notin Intervals

\* Inductive: no two triggers are further apart than the longest interval.
\* In a pass that is still wrong of the triggers the pass has not yet reached,
\* and right of those it has moved past its time.
Together(m) ==
  \A i, k \in ActiveSlots(Timers) : Timers[i].when <= Timers[k].when + m

TogetherSoon(m) ==
  \A i, k \in ActiveSlots(Timers) :
    \/ Timers[i].when <= Timers[k].when + m
    \/ Timers[i].when <= now + m

PassedAhead ==
  \A k \in ActiveSlots(Timers) : k < timer => Timers[k].when > now

StallInv(m) ==
  /\ pc = "init" =>
       \A i \in ActiveSlots(Timers) : Timers[i].when <= clock + m
  /\ pc \in {"timers", "callback"} => TogetherSoon(m) /\ PassedAhead
  /\ pc = "callback" =>
       timer \in ActiveSlots(Timers) /\ Timers[timer].when <= now
  /\ pc \in {"poll", "event"} => Together(m)

LEMMA ActiveFacts ==
  ASSUME NEW lo \in Int, NEW hi \in Int, NEW m \in Nat, ClockFits(lo, hi, m),
         TypeOK, RangeInv(lo, hi, m), clock \in lo..hi, OneClock
  PROVE  \A i \in ActiveSlots(Timers) :
           /\ i \in DOMAIN Timers /\ i \in Nat
           /\ Timers[i].when \in Int
           /\ Timers[i].interval \in Nat
           /\ 0 < Timers[i].interval /\ Timers[i].interval <= m
<1> SUFFICES ASSUME NEW i \in ActiveSlots(Timers)
             PROVE  /\ i \in DOMAIN Timers /\ i \in Nat
                    /\ Timers[i].when \in Int
                    /\ Timers[i].interval \in Nat
                    /\ 0 < Timers[i].interval /\ Timers[i].interval <= m
  OBVIOUS
<1>1. i \in DOMAIN Timers
  BY DEF ActiveSlots
<1>2. /\ i \in Nat /\ Timers[i] \in Slot
      /\ Timers[i].when \in Int
      /\ Timers[i].interval \in Nat
      /\ Timers[i].interval <= m
  BY <1>1, RangeFacts
<1>3. Timers[i].interval # 0
  BY <1>2, SlotFields DEF OneClock
<1> QED
  BY <1>1, <1>2, <1>3

\* At the end of a pass all triggers are within one interval of each other.
LEMMA TogetherAtLast ==
  ASSUME NEW lo \in Int, NEW hi \in Int, NEW m \in Nat, ClockFits(lo, hi, m),
         TypeOK, RangeInv(lo, hi, m), clock \in lo..hi, OneClock,
         StallInv(m), Finish
  PROVE  Together(m)
<1> SUFFICES ASSUME NEW i \in ActiveSlots(Timers), NEW k \in ActiveSlots(Timers)
             PROVE  Timers[i].when <= Timers[k].when + m
  BY DEF Together
<1>1. /\ Timers[i].when \in Int /\ Timers[k].when \in Int
      /\ k \in DOMAIN Timers /\ k \in Nat
  BY ActiveFacts
<1>2. /\ DOMAIN Timers = 1..Len(Timers) /\ Len(Timers) \in Nat
      /\ now \in Int /\ timer \in Nat
  BY RangeFacts DEF TypeOK
<1>3. k < timer
  BY <1>1, <1>2 DEF Finish
<1>4. Timers[k].when > now
  BY <1>3 DEF Finish, StallInv, PassedAhead
<1>5. Timers[i].when <= Timers[k].when + m \/ Timers[i].when <= now + m
  BY DEF Finish, StallInv, TogetherSoon
<1> QED
  BY <1>1, <1>2, <1>4, <1>5

\* The correction moves all active triggers alike.
LEMMA StallFinish ==
  ASSUME NEW lo \in Int, NEW hi \in Int, NEW m \in Nat, ClockFits(lo, hi, m),
         TypeOK, RangeInv(lo, hi, m), clock \in lo..hi, OneClock,
         StallInv(m), Finish, ActiveSlots(Timers) # {}
  PROVE  /\ Together(m)'
         /\ \A i \in ActiveSlots(Timers') :
              Timers'[i].when <= clock + SkewDetect + 2 * m
<1>1. ActiveSlots(Timers') = ActiveSlots(Timers)
  BY RangeFinish DEF ActiveSlots
<1>2. Together(m)
  BY TogetherAtLast
<1>3. PICK n \in ActiveSlots(Timers) :
        \/ /\ Timers[n].when <= clock + Timers[n].interval + SkewDetect
           /\ Timers' = Timers
        \/ \E skew \in Nat :
             /\ skew = Timers[n].when - clock - Timers[n].interval
             /\ \A j \in DOMAIN Timers :
                  Timers'[j].when = IF Timers[j].active
                                    THEN Timers[j].when - skew
                                    ELSE Timers[j].when
  BY RangeFinish
<1>4. /\ clock \in Int /\ SkewDetect \in Nat
      /\ \A i \in ActiveSlots(Timers) :
           /\ i \in DOMAIN Timers
           /\ Timers[i].when \in Int
           /\ Timers[i].interval \in Nat
           /\ Timers[i].interval <= m
           /\ Timers[i].when <= Timers[n].when + m
  BY <1>2, RangeFacts, ActiveFacts DEF Together
<1>5. CASE /\ Timers[n].when <= clock + Timers[n].interval + SkewDetect
           /\ Timers' = Timers
  <2>1. Together(m)'
    BY <1>1, <1>2, <1>5 DEF Together
  <2>2. ASSUME NEW i \in ActiveSlots(Timers')
        PROVE  Timers'[i].when <= clock + SkewDetect + 2 * m
    <3>1. /\ Timers[i].when \in Int /\ Timers[n].when \in Int
          /\ Timers[n].interval \in Nat /\ Timers[n].interval <= m
          /\ Timers[i].when <= Timers[n].when + m
      BY <1>1, <1>4, <2>2
    <3>2. Timers'[i].when = Timers[i].when
      BY <1>5
    <3> QED
      BY <1>4, <1>5, <3>1, <3>2
  <2> QED
    BY <2>1, <2>2
<1>6. CASE \E skew \in Nat :
             /\ skew = Timers[n].when - clock - Timers[n].interval
             /\ \A j \in DOMAIN Timers :
                  Timers'[j].when = IF Timers[j].active
                                    THEN Timers[j].when - skew
                                    ELSE Timers[j].when
  <2>1. PICK skew \in Nat :
          /\ skew = Timers[n].when - clock - Timers[n].interval
          /\ \A j \in ActiveSlots(Timers) :
               Timers'[j].when = Timers[j].when - skew
    BY <1>6 DEF ActiveSlots
  <2>2. ASSUME NEW i \in ActiveSlots(Timers'), NEW k \in ActiveSlots(Timers')
        PROVE  Timers'[i].when <= Timers'[k].when + m
    <3>1. Timers[i].when \in Int /\ Timers[k].when \in Int
      BY <1>1, <1>4, <2>2
    <3>2. Timers[i].when <= Timers[k].when + m
      BY <1>1, <1>2, <2>2 DEF Together
    <3>3. /\ Timers'[i].when = Timers[i].when - skew
          /\ Timers'[k].when = Timers[k].when - skew
      BY <1>1, <2>1, <2>2
    <3> QED
      BY <3>1, <3>2, <3>3
  <2>3. ASSUME NEW i \in ActiveSlots(Timers')
        PROVE  Timers'[i].when <= clock + SkewDetect + 2 * m
    <3>1. /\ Timers[i].when \in Int /\ Timers[n].when \in Int
          /\ Timers[n].interval \in Nat /\ Timers[n].interval <= m
          /\ Timers[i].when <= Timers[n].when + m
      BY <1>1, <1>4, <2>3
    <3>2. Timers'[i].when = Timers[i].when - skew
      BY <1>1, <2>1, <2>3
    <3>3. skew = Timers[n].when - clock - Timers[n].interval
      BY <2>1
    <3> QED
      BY <1>4, <3>1, <3>2, <3>3
  <2> QED
    BY <2>2, <2>3 DEF Together
<1> QED
  BY <1>3, <1>5, <1>6

LEMMA StallNext ==
  ASSUME NEW lo \in Int, NEW hi \in Int, NEW m \in Nat, ClockFits(lo, hi, m),
         OneClock
  PROVE  TypeOK /\ RangeInv(lo, hi, m) /\ clock \in lo..hi /\ StallInv(m)
           /\ [Next]_vars => StallInv(m)'
<1> SUFFICES ASSUME TypeOK, RangeInv(lo, hi, m), clock \in lo..hi, StallInv(m),
                    [Next]_vars
             PROVE  StallInv(m)'
  OBVIOUS
<1>T. /\ Timers \in Seq(Slot) /\ DOMAIN Timers = 1..Len(Timers)
      /\ now \in Int /\ clock \in Int /\ timer \in Nat
      /\ \A i \in DOMAIN Timers : Timers[i] \in Slot /\ Timers[i].when \in Int
  BY RangeFacts DEF TypeOK
<1>A. \A i \in ActiveSlots(Timers) :
        /\ i \in DOMAIN Timers /\ i \in Nat
        /\ Timers[i].when \in Int
        /\ Timers[i].interval \in Nat
        /\ 0 < Timers[i].interval /\ Timers[i].interval <= m
  BY ActiveFacts
<1>1. CASE Client
  <2>1. pc = "init" /\ UNCHANGED loop
    BY <1>1, ClientProperty DEF Client, Add, AddLate, Remove, ClientRuns, OneClock
  <2>2. \A i \in DOMAIN Timers' :
          \/ /\ i \in DOMAIN Timers
             /\ Timers'[i].when = Timers[i].when
             /\ Timers'[i].active => Timers[i].active
          \/ /\ Timers'[i].interval \in Intervals
             /\ \/ Timers'[i].when = clock
                \/ Timers'[i].when = clock + Timers'[i].interval
    BY <1>1, ClientProperty
  <2>3. \A j \in Intervals : j \in Nat /\ j <= m
    BY TimerAssumption DEF ClockFits
  <2>4. ASSUME NEW i \in ActiveSlots(Timers')
        PROVE  Timers'[i].when <= clock + m
    <3>1. i \in DOMAIN Timers' /\ Timers'[i].active
      BY <2>4 DEF ActiveSlots
    <3>2. CASE i \in DOMAIN Timers /\ Timers'[i].when = Timers[i].when
               /\ Timers[i].active
      BY <2>1, <3>2 DEF StallInv, ActiveSlots
    <3>3. CASE /\ Timers'[i].interval \in Intervals
               /\ \/ Timers'[i].when = clock
                  \/ Timers'[i].when = clock + Timers'[i].interval
      <4>1. Timers'[i].interval \in Nat /\ Timers'[i].interval <= m
        BY <2>3, <3>3
      <4> QED
        BY <1>T, <3>3, <4>1
    <3> QED
      BY <2>2, <3>1, <3>2, <3>3
  <2> QED
    BY <2>1, <2>4 DEF StallInv, loop
<1>2. CASE Begin
  <2>1. now' = clock /\ timer' = 1 /\ Timers' = Timers /\ pc' \in {"exit", "timers"}
    BY <1>2 DEF Begin
  <2>2. TogetherSoon(m)'
    <3>1. CASE pc = "init"
      BY <2>1, <3>1 DEF StallInv, TogetherSoon
    <3>2. CASE pc = "event"
      BY <2>1, <3>2 DEF StallInv, Together, TogetherSoon
    <3> QED
      BY <1>2, <3>1, <3>2 DEF Begin
  <2>3. PassedAhead'
    BY <1>T, <2>1 DEF PassedAhead, ActiveSlots
  <2> QED
    BY <2>1, <2>2, <2>3 DEF StallInv
<1>3. CASE Skip
  <2>1. /\ UNCHANGED <<Timers, now, pc>> /\ pc = "timers"
        /\ timer' = timer + 1 /\ ~Due(timer)
    BY <1>3 DEF Skip
  <2>2. TogetherSoon(m)'
    BY <2>1 DEF StallInv, TogetherSoon
  <2>3. PassedAhead'
    <3> SUFFICES ASSUME NEW k \in ActiveSlots(Timers), k < timer + 1
                 PROVE  Timers[k].when > now
      BY <2>1 DEF PassedAhead
    <3>1. CASE k < timer
      BY <2>1, <3>1 DEF StallInv, PassedAhead
    <3>2. CASE k = timer
      BY <1>A, <1>T, <2>1, <3>2 DEF Due, ActiveSlots
    <3> QED
      BY <1>A, <1>T, <3>1, <3>2
  <2> QED
    BY <2>1, <2>2, <2>3 DEF StallInv
<1>4. CASE Fire
  <2>1. /\ UNCHANGED <<Timers, now, timer>> /\ pc = "timers" /\ pc' = "callback"
        /\ timer <= Len(Timers) /\ Due(timer)
    BY <1>4 DEF Fire
  <2>2. timer \in ActiveSlots(Timers) /\ Timers[timer].when <= now
    BY <1>T, <2>1 DEF Due, ActiveSlots, TypeOK
  <2> QED
    BY <2>1, <2>2 DEF StallInv, TogetherSoon, PassedAhead
<1>5. CASE Return
  <2>1. /\ timer \in ActiveSlots(Timers) /\ Timers[timer].when <= now
        /\ TogetherSoon(m) /\ PassedAhead
        /\ UNCHANGED now /\ timer' = timer + 1 /\ pc' = "timers"
    BY <1>5 DEF Return, StallInv
  <2>2. timer \in DOMAIN Timers /\ Timers[timer] \in Slot
    BY <1>A, <1>T, <2>1
  <2>3. CASE Timers[timer].one_shot
    <3>1. Timers' =
            [Timers EXCEPT ![timer] = [Timers[timer] EXCEPT !.active = FALSE]]
      BY <1>5, <2>3 DEF Return, Rearm
    <3> DEFINE u == [Timers[timer] EXCEPT !.active = FALSE]
    <3>2. u.active = FALSE
      BY <2>2 DEF Slot
    <3> HIDE DEF u
    <3>3. Timers' = [Timers EXCEPT ![timer] = u]
      BY <3>1 DEF u
    <3>4. \A k \in ActiveSlots(Timers') :
            k # timer /\ k \in ActiveSlots(Timers) /\ Timers'[k] = Timers[k]
      BY <2>2, <3>2, <3>3 DEF ActiveSlots
    <3>5. TogetherSoon(m)'
      BY <2>1, <3>4 DEF TogetherSoon
    <3>6. PassedAhead'
      <4> SUFFICES ASSUME NEW k \in ActiveSlots(Timers'), k < timer + 1
                   PROVE  Timers'[k].when > now
        BY <2>1 DEF PassedAhead
      <4>1. k \in Nat /\ k < timer
        BY <1>A, <1>T, <3>4
      <4> QED
        BY <2>1, <3>4, <4>1 DEF PassedAhead
    <3> QED
      BY <2>1, <3>5, <3>6 DEF StallInv
  <2>4. CASE ~Timers[timer].one_shot
    <3>1. PICK w \in Int :
            /\ Timers' = [Timers EXCEPT ![timer] =
                                          [Timers[timer] EXCEPT !.when = w]]
            /\ w <= now + Timers[timer].interval
            /\ w > now
      BY <1>5, <1>A, <2>1, <2>4, RangeReturn
    <3> DEFINE u == [Timers[timer] EXCEPT !.when = w]
    <3>2. u.when = w /\ u.active = Timers[timer].active
      BY <2>2 DEF Slot
    <3> HIDE DEF u
    <3>3. Timers' = [Timers EXCEPT ![timer] = u]
      BY <3>1 DEF u
    <3>4. /\ ActiveSlots(Timers') = ActiveSlots(Timers)
          /\ Timers'[timer].when = w
          /\ \A k \in ActiveSlots(Timers) : k # timer => Timers'[k] = Timers[k]
      BY <1>A, <2>2, <3>2, <3>3 DEF ActiveSlots
    <3>5. w <= now + m
      BY <1>A, <1>T, <2>1, <3>1
    <3>6. ASSUME NEW i \in ActiveSlots(Timers), NEW k \in ActiveSlots(Timers)
          PROVE  \/ Timers'[i].when <= Timers'[k].when + m
                 \/ Timers'[i].when <= now + m
      <4>1. CASE i = timer
        BY <3>4, <3>5, <4>1
      <4>2. CASE i # timer /\ k # timer
        BY <2>1, <3>4, <4>2 DEF TogetherSoon
      <4>3. CASE i # timer /\ k = timer
        <5>1. \/ Timers[i].when <= Timers[timer].when + m
              \/ Timers[i].when <= now + m
          BY <2>1 DEF TogetherSoon
        <5>2. Timers[i].when \in Int /\ Timers[timer].when \in Int
          BY <1>A, <2>1
        <5>3. Timers[i].when <= now + m
          BY <1>T, <2>1, <5>1, <5>2
        <5> QED
          BY <3>4, <4>3, <5>3
      <4> QED
        BY <4>1, <4>2, <4>3
    <3>7. ASSUME NEW k \in ActiveSlots(Timers), k < timer + 1
          PROVE  Timers'[k].when > now
      <4>1. CASE k = timer
        BY <3>1, <3>4, <4>1
      <4>2. CASE k < timer
        BY <2>1, <3>4, <4>2, <1>A, <1>T DEF PassedAhead
      <4> QED
        BY <1>A, <1>T, <3>7, <4>1, <4>2
    <3>8. TogetherSoon(m)'
      BY <2>1, <3>4, <3>6 DEF TogetherSoon
    <3>9. PassedAhead'
      BY <2>1, <3>4, <3>7 DEF PassedAhead
    <3> QED
      BY <2>1, <3>8, <3>9 DEF StallInv
  <2> QED
    BY <2>3, <2>4
<1>6. CASE Finish
  <2>1. CASE ActiveSlots(Timers) = {}
    BY <1>6, <2>1 DEF Finish, StallInv
  <2>2. CASE ActiveSlots(Timers) # {}
    <3>1. pc' = "poll"
      BY <1>6, <2>2 DEF Finish
    <3>2. Together(m)'
      BY <1>6, <2>2, StallFinish
    <3> QED
      BY <3>1, <3>2 DEF StallInv
  <2> QED
    BY <2>1, <2>2
<1>7. CASE Timeout \/ EventReady
  BY <1>7 DEF Timeout, EventReady, StallInv, Together
<1>8. CASE Signal
  BY <1>8 DEF Signal, StallInv
<1>9. CASE Tick
  <2>1. clock' = clock + 1 /\ UNCHANGED <<Timers, pc, timer, now>>
    BY <1>9 DEF Tick
  <2>2. pc = "init" =>
          \A i \in ActiveSlots(Timers) : Timers[i].when <= clock + 1 + m
    BY <1>A, <1>T DEF StallInv
  <2> QED
    BY <2>1, <2>2 DEF StallInv, Together, TogetherSoon, PassedAhead
<1>10. CASE SetClock
  <2>1. pc # "init" /\ UNCHANGED <<Timers, pc, timer, now>>
    BY <1>10 DEF SetClock, OneClock
  <2> QED
    BY <2>1 DEF StallInv, Together, TogetherSoon, PassedAhead
<1>11. CASE UNCHANGED vars
  BY <1>11 DEF vars, StallInv, Together, TogetherSoon, PassedAhead
<1> QED
  BY <1>1, <1>2, <1>3, <1>4, <1>5, <1>6, <1>7, <1>8, <1>9, <1>10, <1>11
     DEF Next, TimerProcess

\* A clock that is set within a range that an int covers costs every timer, the
\* next one or not, at most two intervals and the threshold, if all of them
\* took their first trigger from the same clock and none has a zero interval.
\* The m of the range is the longest interval.
THEOREM JumpsCost ==
  ASSUME NEW lo \in Int, NEW hi \in Int, NEW m \in Nat, ClockFits(lo, hi, m),
         m \in Intervals, OneClock
  PROVE  Spec /\ [](clock \in lo..hi) => JumpBounds
<1> DEFINE I == RangeInv(lo, hi, m)
           J == StallInv(m)
           C == clock \in lo..hi
           A == EntersPoll =>
                  \A i \in ActiveSlots(Timers') :
                    Timers'[i].when <= clock + SkewDetect + 2 * Max(Intervals)
<1>1. m = Max(Intervals)
  <2>1. \A i \in Intervals : i <= m /\ i \in Nat
    BY TimerAssumption DEF ClockFits
  <2>2. Max(Intervals) \in Intervals /\ \A i \in Intervals : Max(Intervals) >= i
    BY <2>1 DEF Max
  <2> DEFINE M == Max(Intervals)
  <2>3. M \in Nat /\ M <= m /\ M >= m
    BY <2>1, <2>2
  <2> HIDE DEF M
  <2>4. m = M
    BY <2>3
  <2> QED
    BY <2>4 DEF M
<1>2. Init => J
  BY DEF Init, StallInv, ActiveSlots
<1>3. TypeOK /\ I /\ C /\ J /\ [Next]_vars => J'
  BY StallNext
<1>4. TypeOK /\ I /\ C /\ J /\ [Next]_vars => [A]_vars
  BY <1>1, EntersPollByFinish, StallFinish
<1>5. Spec /\ []C => [](TypeOK /\ I)
  BY RangeInvariant
<1> HIDE DEF I, J, C, A
<1>6. Spec /\ []C => [][A]_vars
  BY <1>2, <1>3, <1>4, <1>5, PTL DEF Spec
<1>7. Spec /\ []C => StallBound
  BY <1>6 DEF A, StallBound
<1>8. Spec /\ []C => SleepBound
  BY SleepsBounded DEF C
<1> QED
  BY <1>7, <1>8 DEF C, JumpBounds

----------------------------------------------------------------------------
(***************************************************************************)
(* The slot tables of groups and widgets                                   *)
(***************************************************************************)

\* The slot that timer_add_group() and timer_add_widget() fill is the first
\* one that is not active.
LEMMA FirstFreeProperty ==
  ASSUME NEW R, NEW S \in Seq(R)
  PROVE  /\ FirstFree(S) \in 1..(Len(S) + 1)
         /\ FirstFree(S) \in DOMAIN S => ~S[FirstFree(S)].active
         /\ \A k \in DOMAIN S : ~S[k].active => FirstFree(S) <= k
<1> DEFINE F == {k \in 1..(Len(S) + 1) : k \in DOMAIN S => ~S[k].active}
<1>1. Len(S) \in Nat /\ DOMAIN S = 1..Len(S)
  OBVIOUS
<1>2. F \in SUBSET Nat /\ Len(S) + 1 \in F
  BY <1>1
<1>3. Min(F) \in F /\ \A k \in F : Min(F) <= k
  BY <1>2, MinProperty
<1>4. \A k \in DOMAIN S : ~S[k].active => k \in F
  BY <1>1
<1>5. FirstFree(S) = Min(F)
  BY DEF FirstFree
<1> HIDE DEF F
<1>6. \A k \in DOMAIN S : ~S[k].active => FirstFree(S) <= k
  BY <1>3, <1>4, <1>5
<1> QED
  BY <1>3, <1>5, <1>6 DEF F

\* Filling a slot changes no other one.
LEMMA FillGroup ==
  ASSUME NEW S \in Seq(GroupSlot), NEW s \in GroupSlot, NEW k \in 1..(Len(S) + 1)
  PROVE  /\ Fill(S, k, s) \in Seq(GroupSlot)
         /\ Len(Fill(S, k, s)) \in {Len(S), k}
         /\ Len(S) <= Len(Fill(S, k, s))
         /\ DOMAIN Fill(S, k, s) = DOMAIN S \cup {k}
         /\ Fill(S, k, s)[k] = s
         /\ \A j \in DOMAIN S : j # k => Fill(S, k, s)[j] = S[j]
<1>1. Len(S) \in Nat /\ DOMAIN S = 1..Len(S)
  OBVIOUS
<1>2. CASE k > Len(S)
  <2>1. Fill(S, k, s) = Append(S, s) /\ k = Len(S) + 1
    BY <1>1, <1>2 DEF Fill
  <2> QED
    BY <1>1, <2>1
<1>3. CASE ~(k > Len(S))
  <2>1. Fill(S, k, s) = [S EXCEPT ![k] = s] /\ k \in DOMAIN S
    BY <1>1, <1>3 DEF Fill
  <2> QED
    BY <1>1, <2>1
<1> QED
  BY <1>2, <1>3

LEMMA FillWidget ==
  ASSUME NEW S \in Seq(WidgetSlot), NEW s \in WidgetSlot, NEW k \in 1..(Len(S) + 1)
  PROVE  /\ Fill(S, k, s) \in Seq(WidgetSlot)
         /\ Len(Fill(S, k, s)) \in {Len(S), k}
         /\ Len(S) <= Len(Fill(S, k, s))
         /\ DOMAIN Fill(S, k, s) = DOMAIN S \cup {k}
         /\ Fill(S, k, s)[k] = s
         /\ \A j \in DOMAIN S : j # k => Fill(S, k, s)[j] = S[j]
<1>1. Len(S) \in Nat /\ DOMAIN S = 1..Len(S)
  OBVIOUS
<1>2. CASE k > Len(S)
  <2>1. Fill(S, k, s) = Append(S, s) /\ k = Len(S) + 1
    BY <1>1, <1>2 DEF Fill
  <2> QED
    BY <1>1, <2>1
<1>3. CASE ~(k > Len(S))
  <2>1. Fill(S, k, s) = [S EXCEPT ![k] = s] /\ k \in DOMAIN S
    BY <1>1, <1>3 DEF Fill
  <2> QED
    BY <1>1, <2>1
<1> QED
  BY <1>2, <1>3

\* Releasing a slot changes nothing else.
LEMMA ReleaseWidget ==
  ASSUME NEW W \in Seq(WidgetSlot), NEW k \in DOMAIN W
  PROVE  LET V == [W EXCEPT ![k].active = FALSE] IN
         /\ V \in Seq(WidgetSlot)
         /\ Len(V) = Len(W) /\ DOMAIN V = DOMAIN W
         /\ \A j \in DOMAIN W :
              /\ V[j].owner = W[j].owner
              /\ V[j].interval = W[j].interval
              /\ V[j].one_shot = W[j].one_shot
              /\ V[j].active <=> W[j].active /\ j # k
<1> DEFINE s == [W[k] EXCEPT !.active = FALSE]
           V == [W EXCEPT ![k] = s]
<1>1. W[k] \in WidgetSlot
  OBVIOUS
<1>2. /\ s \in WidgetSlot /\ s.owner = W[k].owner /\ s.interval = W[k].interval
      /\ s.one_shot = W[k].one_shot /\ s.active = FALSE
  BY <1>1 DEF WidgetSlot
<1> HIDE DEF s
<1>3. V \in Seq(WidgetSlot) /\ Len(V) = Len(W) /\ DOMAIN V = DOMAIN W
  BY <1>2
<1>4. V[k] = s /\ \A j \in DOMAIN W : j # k => V[j] = W[j]
  OBVIOUS
<1>5. \A j \in DOMAIN W :
        /\ V[j].owner = W[j].owner
        /\ V[j].interval = W[j].interval
        /\ V[j].one_shot = W[j].one_shot
        /\ V[j].active <=> W[j].active /\ j # k
  BY <1>2, <1>4
<1> QED
  BY <1>3, <1>5 DEF s

LEMMA ReleaseGroup ==
  ASSUME NEW G \in Seq(GroupSlot), NEW k \in DOMAIN G
  PROVE  LET V == [G EXCEPT ![k].active = FALSE] IN
         /\ V \in Seq(GroupSlot)
         /\ Len(V) = Len(G) /\ DOMAIN V = DOMAIN G
         /\ \A j \in DOMAIN G :
              /\ V[j].interval = G[j].interval
              /\ V[j].active <=> G[j].active /\ j # k
<1> DEFINE s == [G[k] EXCEPT !.active = FALSE]
           V == [G EXCEPT ![k] = s]
<1>1. G[k] \in GroupSlot
  OBVIOUS
<1>2. s \in GroupSlot /\ s.interval = G[k].interval /\ s.active = FALSE
  BY <1>1 DEF GroupSlot
<1> HIDE DEF s
<1>3. V \in Seq(GroupSlot) /\ Len(V) = Len(G) /\ DOMAIN V = DOMAIN G
  BY <1>2
<1>4. V[k] = s /\ \A j \in DOMAIN G : j # k => V[j] = G[j]
  OBVIOUS
<1>5. \A j \in DOMAIN G :
        /\ V[j].interval = G[j].interval
        /\ V[j].active <=> G[j].active /\ j # k
  BY <1>2, <1>4
<1> QED
  BY <1>3, <1>5 DEF s

LEMMA GroupTimerApart ==
  ASSUME NEW g, NEW h
  PROVE  /\ GroupTimer(g) # TimerOfRemovedGroup(h)
         /\ GroupTimer(g)[2] = g
         /\ GroupTimer(g) = GroupTimer(h) => g = h
  BY DEF GroupTimer, TimerOfRemovedGroup

-----------------------------------------------------------------------------
(***************************************************************************)
(* The tables and the place of timer_process_group()                       *)
(***************************************************************************)

\* Every generic timer is a driver's or calls a group slot that exists.
ClientsKnown(T, G) ==
  \A t \in DOMAIN T :
    T[t].client \in Drivers \/ \E g \in DOMAIN G : T[t].client = GroupTimer(g)

\* Inductive.  The slot of a callback that runs is not released, hence it is
\* still the group's slot when timer_process_group() goes on; and the widget
\* that is called stays a member of the group until its call is over.
GroupTables ==
  /\ TypeOK
  /\ TimerGroups \in Seq(GroupSlot) /\ Len(TimerGroups) <= GroupLimit
  /\ TimerGroupWidgets \in Seq(WidgetSlot) /\ Len(TimerGroupWidgets) <= WidgetLimit
  /\ step \in {"none", "loop", "callback"}
  /\ widget \in 1..(WidgetLimit + 1)
  /\ interval \in Intervals \cup {-1}
  /\ calls \in [Widgets -> Nat]
  /\ ClientsKnown(Timers, TimerGroups)
  /\ pc = "callback" => Timers[timer].active
  /\ step # "none" => InGroup /\ widget <= Len(TimerGroupWidgets) + 1
  /\ step = "callback" => widget <= Len(TimerGroupWidgets) /\ Member(widget)

\* What the calls of timer_add_widget() and timer_remove_widget() do to the
\* tables: no active timer moves, and the tables stay well formed.
TablesMove ==
  /\ Timers' \in Seq(Slot) /\ Len(Timers') <= SlotLimit
  /\ Len(Timers) <= Len(Timers')
  /\ called' \in SUBSET (1..SlotLimit)
  /\ \A t \in ActiveSlots(Timers) : \A g \in 1..GroupLimit :
       Timers[t].client = GroupTimer(g) => Timers'[t] = Timers[t]
  /\ TimerGroups' \in Seq(GroupSlot) /\ Len(TimerGroups') <= GroupLimit
  /\ ClientsKnown(Timers', TimerGroups')

LEMMA AddGroupMoves ==
  ASSUME GroupTables, NEW i \in Intervals, AddGroup(i)
  PROVE  TablesMove
<1> DEFINE g == FirstFree(TimerGroups)
           slot == [interval |-> i, active |-> TRUE]
           G == Fill(TimerGroups, g, slot)
<1>T. /\ TypeOK /\ Timers \in Seq(Slot) /\ Len(Timers) \in Nat
      /\ DOMAIN Timers = 1..Len(Timers) /\ Len(Timers) <= SlotLimit
      /\ called \in SUBSET (1..SlotLimit)
      /\ TimerGroups \in Seq(GroupSlot) /\ Len(TimerGroups) <= GroupLimit
      /\ Len(TimerGroups) \in Nat /\ GroupLimit \in Nat
      /\ ClientsKnown(Timers, TimerGroups)
  BY TimerGroupAssumption DEF GroupTables, TypeOK
<1>1. CASE g > GroupLimit
  <2>1. UNCHANGED <<TimerGroups, Timers, called>>
    BY <1>1 DEF AddGroup
  <2> QED
    BY <1>T, <2>1 DEF TablesMove
<1>2. CASE ~(g > GroupLimit)
  <2>0. TimerGroups' = G
    BY <1>2 DEF AddGroup
  <2>1. /\ IF CanAdd(Timers)
           THEN /\ Timers' = TimerAdd(Timers, NewTimer(GroupTimer(g), i, FALSE, clock))
                /\ called' = called \ {FreeSlot(Timers)}
           ELSE UNCHANGED <<Timers, called>>
    BY <1>2 DEF AddGroup
  <2>2. slot \in GroupSlot
    BY DEF GroupSlot
  <2> HIDE DEF slot
  <2>3. g \in 1..(Len(TimerGroups) + 1)
    BY <1>T, FirstFreeProperty
  <2>4. g \in 1..GroupLimit
    BY <1>2, <1>T, <2>3
  <2> HIDE DEF g
  <2>5. /\ G \in Seq(GroupSlot) /\ Len(G) \in {Len(TimerGroups), g}
        /\ DOMAIN G = DOMAIN TimerGroups \cup {g}
    BY <1>T, <2>2, <2>3, FillGroup
  <2> HIDE DEF G
  <2>6. TimerGroups' \in Seq(GroupSlot) /\ Len(TimerGroups') <= GroupLimit
    BY <1>T, <2>0, <2>4, <2>5
  <2>7. CASE ~CanAdd(Timers)
    <3>1. UNCHANGED <<Timers, called>>
      BY <2>1, <2>7
    <3> QED
      BY <1>T, <2>0, <2>5, <2>6, <3>1 DEF TablesMove, ClientsKnown
  <2>8. CASE CanAdd(Timers)
    <3>1. GroupTimer(g) \in Clients
      BY <2>4, TimerGroupAssumption
    <3>2. /\ Timers' \in Seq(Slot)
          /\ Len(Timers') <= SlotLimit
          /\ Len(Timers) <= Len(Timers')
          /\ called' \in SUBSET (1..SlotLimit)
      BY <1>T, <2>1, <2>8, <3>1, AddType
    <3>3. \A t \in ActiveSlots(Timers) : Timers'[t] = Timers[t]
      BY <1>T, <2>1, <2>8, <3>1, AddKeeps
    <3>4. ClientsKnown(Timers', TimerGroups')
      <4> DEFINE s == NewTimer(GroupTimer(g), i, FALSE, clock)
      <4>1. s \in Slot /\ s.client = GroupTimer(g)
        BY <1>T, <3>1, NewTimerType DEF TypeOK, NewTimer
      <4> HIDE DEF s
      <4>2. /\ TimerAdd(Timers, s)[FreeSlot(Timers)] = s
            /\ \A t \in DOMAIN TimerAdd(Timers, s) :
                 t # FreeSlot(Timers) =>
                   t \in DOMAIN Timers /\ TimerAdd(Timers, s)[t] = Timers[t]
        BY <1>T, <4>1, TimerAddProperty
      <4>3. Timers' = TimerAdd(Timers, s)
        BY <2>1, <2>8 DEF s
      <4> QED
        BY <1>T, <2>0, <2>5, <4>1, <4>2, <4>3 DEF ClientsKnown
    <3> QED
      BY <2>6, <3>2, <3>3, <3>4 DEF TablesMove
  <2> QED
    BY <2>7, <2>8
<1> QED
  BY <1>1, <1>2

LEMMA RemoveEmptyGroupMoves ==
  ASSUME GroupTables, NEW W, NEW i, RemoveEmptyGroup(W, i), UNCHANGED called
  PROVE  TablesMove
<1>T. /\ TypeOK /\ Timers \in Seq(Slot) /\ Len(Timers) \in Nat
      /\ DOMAIN Timers = 1..Len(Timers) /\ Len(Timers) <= SlotLimit
      /\ called \in SUBSET (1..SlotLimit)
      /\ TimerGroups \in Seq(GroupSlot) /\ Len(TimerGroups) <= GroupLimit
      /\ ClientsKnown(Timers, TimerGroups)
  BY DEF GroupTables, TypeOK
<1>1. CASE UNCHANGED <<TimerGroups, Timers>>
  BY <1>1, <1>T DEF TablesMove
<1>2. CASE ~UNCHANGED <<TimerGroups, Timers>>
  <2> DEFINE g == Min(GroupsOf(TimerGroups, i))
             c == TimerOfRemovedGroup(g)
  <2>1. /\ GroupsOf(TimerGroups, i) # {}
        /\ TimerGroups' = [TimerGroups EXCEPT ![g].active = FALSE]
        /\ Timers' = TimerRemove(Timers, c)
    BY <1>2 DEF RemoveEmptyGroup
  <2>2. g \in DOMAIN TimerGroups
    <3>1. GroupsOf(TimerGroups, i) \in SUBSET Nat
      BY <1>T DEF GroupsOf, ActiveGroups
    <3>2. g \in GroupsOf(TimerGroups, i)
      BY <2>1, <3>1, MinProperty
    <3> QED
      BY <3>2 DEF GroupsOf, ActiveGroups
  <2> HIDE DEF g
  <2>3. /\ TimerGroups' \in Seq(GroupSlot) /\ Len(TimerGroups') = Len(TimerGroups)
        /\ DOMAIN TimerGroups' = DOMAIN TimerGroups
    BY <1>T, <2>1, <2>2, ReleaseGroup
  <2>4. \A h : GroupTimer(h) # c
    BY GroupTimerApart
  <2> HIDE DEF c
  <2>5. /\ Timers' \in Seq(Slot)
        /\ Len(Timers') = Len(Timers)
        /\ \A t \in DOMAIN Timers :
             \/ Timers'[t] = Timers[t]
             \/ Timers[t].client = c /\ Timers'[t].client = c
    BY <1>T, <2>1, TimerRemoveProperty
  <2>6. \A t \in ActiveSlots(Timers) : \A h \in 1..GroupLimit :
          Timers[t].client = GroupTimer(h) => Timers'[t] = Timers[t]
    BY <2>4, <2>5 DEF ActiveSlots
  <2>7. DOMAIN Timers' = DOMAIN Timers
    BY <1>T, <2>5
  <2>8. ClientsKnown(Timers', TimerGroups')
    BY <1>T, <2>3, <2>5, <2>7 DEF ClientsKnown
  <2> QED
    BY <1>T, <2>3, <2>5, <2>6, <2>8 DEF TablesMove
<1> QED
  BY <1>1, <1>2

\* A call of timer_add_widget() leaves the widget table alone or fills one slot.
WidgetAdded(w, i, o) ==
  LET k == FirstFree(TimerGroupWidgets) IN
  /\ k <= WidgetLimit
  /\ TimerGroupWidgets' = Fill(TimerGroupWidgets, k,
                               [owner |-> w, interval |-> i, one_shot |-> o,
                                active |-> TRUE])

LEMMA WidgetAddedProperty ==
  ASSUME GroupTables, NEW w \in Widgets, NEW i \in Intervals, NEW o \in BOOLEAN,
         WidgetAdded(w, i, o)
  PROVE  LET k == FirstFree(TimerGroupWidgets) IN
         /\ TimerGroupWidgets' \in Seq(WidgetSlot)
         /\ Len(TimerGroupWidgets) <= Len(TimerGroupWidgets')
         /\ Len(TimerGroupWidgets') <= WidgetLimit
         /\ DOMAIN TimerGroupWidgets' = DOMAIN TimerGroupWidgets \cup {k}
         /\ k \in 1..(Len(TimerGroupWidgets) + 1)
         /\ k \in DOMAIN TimerGroupWidgets => ~TimerGroupWidgets[k].active
         /\ \A x \in DOMAIN TimerGroupWidgets : ~TimerGroupWidgets[x].active => k <= x
         /\ TimerGroupWidgets'[k].owner = w
         /\ TimerGroupWidgets'[k].interval = i
         /\ TimerGroupWidgets'[k].one_shot = o
         /\ TimerGroupWidgets'[k].active
         /\ \A x \in DOMAIN TimerGroupWidgets :
              x # k => TimerGroupWidgets'[x] = TimerGroupWidgets[x]
<1> DEFINE W == TimerGroupWidgets
           k == FirstFree(W)
           s == [owner |-> w, interval |-> i, one_shot |-> o, active |-> TRUE]
<1>1. W \in Seq(WidgetSlot) /\ Len(W) <= WidgetLimit /\ WidgetLimit \in Nat
  BY TimerGroupAssumption DEF GroupTables
<1>2. /\ s \in WidgetSlot
      /\ s.owner = w /\ s.interval = i /\ s.one_shot = o /\ s.active
  BY DEF WidgetSlot
<1>3. k <= WidgetLimit /\ W' = Fill(W, k, s)
  BY DEF WidgetAdded
<1>4. /\ k \in 1..(Len(W) + 1)
      /\ k \in DOMAIN W => ~W[k].active
      /\ \A x \in DOMAIN W : ~W[x].active => k <= x
  BY <1>1, FirstFreeProperty
<1> HIDE DEF k, s, W
<1>5. /\ Fill(W, k, s) \in Seq(WidgetSlot)
      /\ Len(Fill(W, k, s)) \in {Len(W), k}
      /\ Len(W) <= Len(Fill(W, k, s))
      /\ DOMAIN Fill(W, k, s) = DOMAIN W \cup {k}
      /\ Fill(W, k, s)[k] = s
      /\ \A j \in DOMAIN W : j # k => Fill(W, k, s)[j] = W[j]
  <2>1. W \in Seq(WidgetSlot) /\ s \in WidgetSlot /\ k \in 1..(Len(W) + 1)
    BY <1>1, <1>2, <1>4
  <2> QED
    BY <2>1, FillWidget
<1>6. Len(W') <= WidgetLimit
  BY <1>1, <1>3, <1>5
<1> QED
  BY <1>2, <1>3, <1>4, <1>5, <1>6 DEF W, k

LEMMA AddWidgetMoves ==
  ASSUME GroupTables, NEW w \in Widgets, NEW i \in Intervals, NEW o \in BOOLEAN,
         AddWidget(w, i, o)
  PROVE  /\ TablesMove
         /\ ret' \in {0, -1}
         /\ WidgetAdded(w, i, o) \/ UNCHANGED TimerGroupWidgets
<1>1. TablesMove
  <2>1. CASE GroupsOf(TimerGroups, i) = {}
    BY <2>1, AddGroupMoves DEF AddWidget
  <2>2. CASE GroupsOf(TimerGroups, i) # {}
    <3>1. UNCHANGED <<TimerGroups, Timers, called>>
      BY <2>2 DEF AddWidget
    <3> QED
      BY <3>1 DEF TablesMove, GroupTables, TypeOK
  <2> QED
    BY <2>1, <2>2
<1>2. ret' \in {0, -1}
  BY DEF AddWidget
<1>3. WidgetAdded(w, i, o) \/ UNCHANGED TimerGroupWidgets
  BY DEF AddWidget, WidgetAdded
<1> QED
  BY <1>1, <1>2, <1>3

\* timer_remove_widget() releases one slot of the widget.
LEMMA RemoveWidgetMoves ==
  ASSUME GroupTables, NEW w, RemoveWidget(w)
  PROVE  /\ TablesMove
         /\ ret' \in {0, -1}
         /\ \E k \in ActiveWidgets(TimerGroupWidgets) :
              /\ TimerGroupWidgets[k].owner = w
              /\ TimerGroupWidgets' = [TimerGroupWidgets EXCEPT ![k].active = FALSE]
              /\ RemoveEmptyGroup(TimerGroupWidgets', TimerGroupWidgets[k].interval)
<1> DEFINE found == {x \in ActiveWidgets(TimerGroupWidgets) :
                       TimerGroupWidgets[x].owner = w}
<1>1. found # {} /\ found \in SUBSET Nat
  BY DEF RemoveWidget, ActiveWidgets, GroupTables
<1>2. Min(found) \in found
  BY <1>1, MinProperty
<1>3. /\ TimerGroupWidgets' = [TimerGroupWidgets EXCEPT ![Min(found)].active = FALSE]
      /\ RemoveEmptyGroup(TimerGroupWidgets', TimerGroupWidgets[Min(found)].interval)
      /\ ret' = 0 /\ UNCHANGED called
  BY DEF RemoveWidget
<1>4. TablesMove
  BY <1>3, RemoveEmptyGroupMoves
<1> QED
  BY <1>2, <1>3, <1>4

LEMMA MoveKeepsType ==
  ASSUME TypeOK, TablesMove, ret' \in {0, -1}, UNCHANGED loop
  PROVE  TypeOK'
<1>1. Len(Timers') \in Nat /\ Len(Timers) \in Nat
  BY DEF TablesMove, TypeOK
<1> QED
  BY <1>1 DEF TablesMove, TypeOK, loop

\* While a group's callback runs its generic timer stays in its slot.
LEMMA MoveKeepsCallback ==
  ASSUME GroupTables, TablesMove, UNCHANGED loop, step = "callback"
  PROVE  Timers'[timer] = Timers[timer] /\ Timers'[timer].active /\ InGroup'
<1>1. /\ InGroup /\ pc = "callback" /\ Timers[timer].active
      /\ timer \in DOMAIN Timers /\ Timers \in Seq(Slot)
  BY DEF GroupTables, InGroup, TypeOK
<1>2. PICK g \in DOMAIN TimerGroups : Timers[timer].client = GroupTimer(g)
  BY <1>1 DEF GroupTables, ClientsKnown, InGroup
<1>3. g \in 1..GroupLimit
  BY TimerGroupAssumption DEF GroupTables
<1>4. timer \in ActiveSlots(Timers)
  BY <1>1 DEF ActiveSlots
<1>5. Timers'[timer] = Timers[timer]
  BY <1>2, <1>3, <1>4 DEF TablesMove
<1> QED
  BY <1>1, <1>5 DEF InGroup, loop

LEMMA GroupTablesInit == GroupInit => GroupTables
<1> SUFFICES ASSUME GroupInit PROVE GroupTables
  OBVIOUS
<1>1. TypeOK
  BY TypeInit DEF GroupInit
<1>2. WidgetLimit \in Nat /\ GroupLimit \in Nat
  BY TimerGroupAssumption
<1>3. Timers = <<>> /\ pc = "init"
  BY DEF GroupInit, Init
<1>4. calls \in [Widgets -> Nat]
  BY DEF GroupInit, NoCalls
<1> QED
  BY <1>1, <1>2, <1>3, <1>4 DEF GroupInit, GroupTables, ClientsKnown

\* The calls that fill and release widget slots.
LEMMA AddWidgetTables ==
  ASSUME GroupTables, NEW w \in Widgets, NEW i \in Intervals, NEW o \in BOOLEAN,
         AddWidget(w, i, o), UNCHANGED running,
         pc = "init" \/ step = "callback"
  PROVE  GroupTables'
<1>1. /\ TablesMove
      /\ ret' \in {0, -1}
      /\ WidgetAdded(w, i, o) \/ UNCHANGED TimerGroupWidgets
  BY AddWidgetMoves
<1>2. UNCHANGED <<loop, step, widget, interval, calls>>
  BY DEF running
<1>3. TypeOK'
  BY <1>1, <1>2, MoveKeepsType DEF GroupTables
<1>4. /\ TimerGroupWidgets' \in Seq(WidgetSlot)
      /\ Len(TimerGroupWidgets') <= WidgetLimit
      /\ Len(TimerGroupWidgets) <= Len(TimerGroupWidgets')
      /\ \A x \in ActiveWidgets(TimerGroupWidgets) :
           x \in DOMAIN TimerGroupWidgets' /\ TimerGroupWidgets'[x] = TimerGroupWidgets[x]
  <2>1. CASE UNCHANGED TimerGroupWidgets
    BY <2>1 DEF GroupTables, ActiveWidgets
  <2>2. CASE WidgetAdded(w, i, o)
    BY <2>2, WidgetAddedProperty DEF ActiveWidgets
  <2> QED
    BY <1>1, <2>1, <2>2
<1>5. step' = "callback" => Len(TimerGroupWidgets) \in Nat /\ widget \in Nat
                            /\ Len(TimerGroupWidgets') \in Nat
  BY <1>4 DEF GroupTables
<1>6. step' = "callback" => widget \in ActiveWidgets(TimerGroupWidgets) /\ Member(widget)
  BY <1>2 DEF GroupTables, Member, ActiveWidgets
<1>7. step' = "callback" => widget' <= Len(TimerGroupWidgets') /\ Member(widget)'
  BY <1>2, <1>4, <1>5, <1>6 DEF Member
<1>8. step' # "none" => step = "callback"
  BY <1>2 DEF GroupTables, InGroup
<1>9. step' = "callback" => Timers'[timer].active /\ InGroup'
  BY <1>1, <1>2, MoveKeepsCallback
<1>10. pc' = "callback" => step = "callback"
  BY <1>2 DEF loop
<1>11. widget' <= Len(TimerGroupWidgets') => widget' <= Len(TimerGroupWidgets') + 1
  BY <1>2, <1>4 DEF GroupTables
<1> QED
  BY <1>1, <1>2, <1>3, <1>4, <1>7, <1>8, <1>9, <1>10, <1>11
     DEF GroupTables, TablesMove, loop

LEMMA RetireWidgetTables ==
  ASSUME GroupTables, NEW w, RetireWidget(w)
  PROVE  GroupTables'
<1>1. /\ TablesMove
      /\ ret' \in {0, -1}
  BY RemoveWidgetMoves DEF RetireWidget
<1>2. PICK k \in ActiveWidgets(TimerGroupWidgets) :
              /\ TimerGroupWidgets[k].owner = w
              /\ TimerGroupWidgets' = [TimerGroupWidgets EXCEPT ![k].active = FALSE]
  BY RemoveWidgetMoves DEF RetireWidget
<1>3. UNCHANGED <<loop, step, widget, interval, calls>>
  BY DEF RetireWidget, running
<1>4. TypeOK'
  BY <1>1, <1>3, MoveKeepsType DEF GroupTables
<1>5. /\ TimerGroupWidgets' \in Seq(WidgetSlot)
      /\ Len(TimerGroupWidgets') = Len(TimerGroupWidgets)
      /\ \A x \in DOMAIN TimerGroupWidgets :
              /\ TimerGroupWidgets'[x].interval = TimerGroupWidgets[x].interval
              /\ TimerGroupWidgets'[x].active <=> TimerGroupWidgets[x].active /\ x # k
  BY <1>2, ReleaseWidget DEF GroupTables, ActiveWidgets
<1>6. step = "callback" => widget \in DOMAIN TimerGroupWidgets /\ widget # k
  BY <1>2 DEF GroupTables, RetireWidget, Rearmed, InGroup
<1>7. step' = "callback" => widget' <= Len(TimerGroupWidgets') /\ Member(widget)'
  BY <1>3, <1>5, <1>6 DEF GroupTables, Member
<1>8. step' # "none" => step = "callback"
  BY <1>3 DEF GroupTables, InGroup, RetireWidget
<1>9. step' = "callback" => Timers'[timer].active /\ InGroup'
  BY <1>1, <1>3, MoveKeepsCallback
<1>10. pc' = "callback" => step = "callback"
  BY <1>3 DEF loop, RetireWidget
<1>11. widget' <= Len(TimerGroupWidgets') => widget' <= Len(TimerGroupWidgets') + 1
  BY <1>3, <1>5 DEF GroupTables
<1> QED
  BY <1>1, <1>3, <1>4, <1>5, <1>7, <1>8, <1>9, <1>10, <1>11
     DEF GroupTables, TablesMove, loop

LEMMA ReturnWidgetTables ==
  ASSUME GroupTables, ReturnWidget
  PROVE  GroupTables'
<1>1. /\ step = "callback" /\ step' = "loop" /\ widget' = widget + 1
      /\ UNCHANGED <<called, ret, loop, interval, calls>>
  BY DEF ReturnWidget
<1>2. widget \in 1..Len(TimerGroupWidgets) /\ TimerGroupWidgets \in Seq(WidgetSlot)
  BY <1>1 DEF GroupTables
<1>3. /\ TablesMove
      /\ TimerGroupWidgets' \in Seq(WidgetSlot)
      /\ Len(TimerGroupWidgets') = Len(TimerGroupWidgets)
  <2>1. CASE TimerGroupWidgets[widget].one_shot
    <3>1. /\ TimerGroupWidgets' = [TimerGroupWidgets EXCEPT ![widget].active = FALSE]
          /\ RemoveEmptyGroup(TimerGroupWidgets', interval)
      BY <2>1 DEF ReturnWidget
    <3>2. TablesMove
      BY <1>1, <3>1, RemoveEmptyGroupMoves
    <3> QED
      BY <1>2, <3>1, <3>2, ReleaseWidget
  <2>2. CASE ~TimerGroupWidgets[widget].one_shot
    <3>1. UNCHANGED <<TimerGroupWidgets, TimerGroups, Timers>>
      BY <2>2 DEF ReturnWidget
    <3> QED
      BY <1>1, <3>1 DEF TablesMove, GroupTables, TypeOK
  <2> QED
    BY <2>1, <2>2
<1>4. ret' \in {0, -1} /\ UNCHANGED loop
  BY <1>1 DEF GroupTables, TypeOK
<1>5. TypeOK'
  BY <1>3, <1>4, MoveKeepsType DEF GroupTables
<1>6. Timers'[timer].active /\ InGroup' /\ UNCHANGED timer
  BY <1>1, <1>3, MoveKeepsCallback DEF loop
<1>7. widget' <= Len(TimerGroupWidgets') + 1 /\ widget' \in 1..(WidgetLimit + 1)
  BY <1>1, <1>2, <1>3, TimerGroupAssumption DEF GroupTables
<1> QED
  BY <1>1, <1>3, <1>5, <1>6, <1>7 DEF GroupTables, TablesMove

\* What the main loop itself does to a generic timer: it moves its trigger, and
\* releases it after its call if it is a one-shot timer.
SameTimer(t) ==
  /\ Timers'[t].client = Timers[t].client
  /\ Timers'[t].interval = Timers[t].interval
  /\ Timers'[t].one_shot = Timers[t].one_shot

LEMMA ReturnKeeps ==
  ASSUME TypeOK, Return
  PROVE  /\ DOMAIN Timers' = DOMAIN Timers
         /\ \A t \in DOMAIN Timers :
              /\ SameTimer(t)
              /\ ~Timers[t].one_shot => (Timers'[t].active <=> Timers[t].active)
         /\ pc' = "timers"
<1>1. /\ timer \in DOMAIN Timers /\ Timers \in Seq(Slot) /\ Timers[timer] \in Slot
      /\ pc' = "timers"
  BY DEF Return, TypeOK
<1>2. PICK s : /\ Timers' = [Timers EXCEPT ![timer] = s]
               /\ s.client = Timers[timer].client
               /\ s.interval = Timers[timer].interval
               /\ s.one_shot = Timers[timer].one_shot
               /\ ~Timers[timer].one_shot => s.active = Timers[timer].active
  <2>1. CASE Timers[timer].one_shot
    <3> DEFINE s == [Timers[timer] EXCEPT !.active = FALSE]
    <3>1. Timers' = [Timers EXCEPT ![timer] = s]
      BY <2>1 DEF Return, Rearm
    <3>2. /\ s.client = Timers[timer].client /\ s.interval = Timers[timer].interval
          /\ s.one_shot = Timers[timer].one_shot
      BY <1>1 DEF Slot
    <3> HIDE DEF s
    <3> QED
      BY <2>1, <3>1, <3>2
  <2>2. CASE ~Timers[timer].one_shot
    <3>1. PICK w : Timers' =
            [Timers EXCEPT ![timer] = [Timers[timer] EXCEPT !.when = w]]
      BY <2>2 DEF Return, Rearm
    <3> DEFINE s == [Timers[timer] EXCEPT !.when = w]
    <3>2. /\ s.client = Timers[timer].client /\ s.interval = Timers[timer].interval
          /\ s.one_shot = Timers[timer].one_shot /\ s.active = Timers[timer].active
      BY <1>1 DEF Slot
    <3>3. Timers' = [Timers EXCEPT ![timer] = s]
      BY <3>1
    <3> HIDE DEF s
    <3> QED
      BY <3>2, <3>3
  <2> QED
    BY <2>1, <2>2
<1>3. Timers'[timer] = s /\ \A t \in DOMAIN Timers : t # timer => Timers'[t] = Timers[t]
  BY <1>1, <1>2
<1> QED
  BY <1>1, <1>2, <1>3 DEF SameTimer

LEMMA MainLoopKeeps ==
  ASSUME TypeOK, MainLoop
  PROVE  /\ pc # "callback"
         /\ pc' = "exit" => Timers' = <<>>
         /\ pc' # "exit" =>
              /\ DOMAIN Timers' = DOMAIN Timers
              /\ \A t \in DOMAIN Timers :
                   SameTimer(t) /\ Timers'[t].active = Timers[t].active
         /\ pc' = "callback" => Timers'[timer'].active
<1>1. CASE Begin \/ Skip \/ Timeout \/ EventReady \/ Signal
  BY <1>1 DEF Begin, Skip, Timeout, EventReady, Signal, TimerExit, SameTimer
<1>2. CASE Fire
  BY <1>2 DEF Fire, Due, SameTimer
<1>3. CASE Finish
  <2>1. CASE ActiveSlots(Timers) = {}
    BY <1>3, <2>1 DEF Finish, TimerExit
  <2>2. CASE ActiveSlots(Timers) # {}
    <3>1. PICK n \in ActiveSlots(Timers) :
            Timers' = IF SkewDetected(Timers, n, clock)
                      THEN CorrectSkew(Timers, n, clock) ELSE Timers
      BY <1>3, <2>2 DEF Finish
    <3>2. n \in DOMAIN Timers /\ clock \in Int /\ Timers \in Seq(Slot)
      BY DEF ActiveSlots, TypeOK
    <3>3. /\ Timers' \in Seq(Slot) /\ Len(Timers') = Len(Timers)
          /\ \A i \in DOMAIN Timers :
               /\ Timers'[i].client = Timers[i].client
               /\ Timers'[i].interval = Timers[i].interval
               /\ Timers'[i].one_shot = Timers[i].one_shot
               /\ Timers'[i].active = Timers[i].active
      BY <3>1, <3>2, CorrectSkewProperty
    <3>4. pc' = "poll" /\ pc = "timers"
      BY <1>3, <2>2 DEF Finish
    <3> QED
      BY <3>2, <3>3, <3>4 DEF SameTimer
  <2> QED
    BY <2>1, <2>2
<1> QED
  BY <1>1, <1>2, <1>3 DEF MainLoop

LEMMA MainLoopType ==
  ASSUME TypeOK, MainLoop \/ GroupTick \/ Return
  PROVE  TypeOK'
<1>1. Next
  BY DEF MainLoop, GroupTick, Next, TimerProcess
<1> QED
  BY <1>1, TypeNext

LEMMA InitDriverTables ==
  ASSUME GroupTables, NEW d \in Drivers, InitDriver(d)
  PROVE  GroupTables'
<1>1. PICK i \in Intervals : Add(d, i, FALSE)
  BY DEF InitDriver
<1>2. d \in Clients
  BY TimerGroupAssumption
<1>3. TypeOK'
  <2>1. Next
    BY <1>1, <1>2 DEF Next, Client
  <2> QED
    BY <2>1, TypeNext DEF GroupTables
<1>4. /\ UNCHANGED groupVars /\ pc = "init" /\ pc' = "init"
  BY <1>1 DEF InitDriver, Add, loop
<1>5. ClientsKnown(Timers', TimerGroups)
  <2>1. CASE CanAdd(Timers)
    <3> DEFINE s == NewTimer(d, i, FALSE, clock)
    <3>1. Timers' = TimerAdd(Timers, s)
      BY <1>1, <2>1 DEF Add
    <3>2. s \in Slot /\ s.client = d
      BY <1>2, NewTimerType DEF GroupTables, TypeOK, NewTimer
    <3> HIDE DEF s
    <3>3. Timers \in Seq(Slot)
      BY DEF GroupTables, TypeOK
    <3>4. /\ TimerAdd(Timers, s)[FreeSlot(Timers)] = s
          /\ \A t \in DOMAIN TimerAdd(Timers, s) :
               t # FreeSlot(Timers) =>
                 t \in DOMAIN Timers /\ TimerAdd(Timers, s)[t] = Timers[t]
      BY <3>2, <3>3, TimerAddProperty
    <3> QED
      BY <3>1, <3>2, <3>4 DEF GroupTables, ClientsKnown
  <2>2. CASE ~CanAdd(Timers)
    BY <1>1, <2>2 DEF Add, GroupTables
  <2> QED
    BY <2>1, <2>2
<1> QED
  BY <1>3, <1>4, <1>5 DEF GroupTables, groupVars, InGroup

LEMMA ProcessTables ==
  ASSUME GroupTables, EnterGroup \/ SkipWidget \/ CallWidget
  PROVE  GroupTables'
<1>1. CASE EnterGroup
  <2>1. /\ InGroup /\ UNCHANGED <<vars, TimerGroups, TimerGroupWidgets>>
        /\ interval' = TimerGroups[Timers[timer].client[2]].interval
        /\ widget' = 1 /\ step' = "loop" /\ calls' = NoCalls
    BY <1>1 DEF EnterGroup
  <2>2. timer \in DOMAIN Timers
    BY <2>1 DEF GroupTables, TypeOK, InGroup
  <2>3. PICK g \in DOMAIN TimerGroups : Timers[timer].client = GroupTimer(g)
    BY <2>1, <2>2 DEF GroupTables, ClientsKnown, InGroup
  <2>4. Timers[timer].client[2] = g
    BY <2>3, GroupTimerApart
  <2>5. TimerGroups[g] \in GroupSlot
    BY DEF GroupTables
  <2>6. interval' \in Intervals
    BY <2>1, <2>4, <2>5 DEF GroupSlot
  <2>7. calls' \in [Widgets -> Nat]
    BY <2>1 DEF NoCalls
  <2>8. Len(TimerGroupWidgets) \in Nat /\ WidgetLimit \in Nat
    BY TimerGroupAssumption DEF GroupTables
  <2> QED
    BY <2>1, <2>6, <2>7, <2>8 DEF GroupTables, vars, InGroup, TypeOK
<1>2. CASE SkipWidget
  <2>1. Len(TimerGroupWidgets) \in Nat /\ WidgetLimit \in Nat
    BY TimerGroupAssumption DEF GroupTables
  <2> QED
    BY <1>2, <2>1 DEF SkipWidget, GroupTables, vars, InGroup, TypeOK
<1>3. CASE CallWidget
  <2>1. /\ step = "loop" /\ step' = "callback" /\ widget <= Len(TimerGroupWidgets)
        /\ Member(widget)
        /\ calls' = [calls EXCEPT ![TimerGroupWidgets[widget].owner] =
                       calls[TimerGroupWidgets[widget].owner] + 1]
        /\ UNCHANGED <<vars, TimerGroups, TimerGroupWidgets, widget, interval>>
    BY <1>3 DEF CallWidget
  <2>2. TimerGroupWidgets[widget] \in WidgetSlot
    BY <2>1 DEF GroupTables
  <2>3. TimerGroupWidgets[widget].owner \in Widgets
    BY <2>2 DEF WidgetSlot
  <2>4. calls' \in [Widgets -> Nat]
    BY <2>1, <2>3 DEF GroupTables
  <2>5. Member(widget)' /\ InGroup'
    BY <2>1 DEF Member, GroupTables, vars, InGroup
  <2> QED
    BY <2>1, <2>4, <2>5 DEF GroupTables, vars, TypeOK
<1> QED
  BY <1>1, <1>2, <1>3

LEMMA LeaveTables ==
  ASSUME GroupTables, LeaveGroup \/ DriverReturn
  PROVE  GroupTables'
<1>1. Return /\ UNCHANGED <<TimerGroups, TimerGroupWidgets>>
  BY DEF LeaveGroup, DriverReturn, groupVars
<1>2. TypeOK'
  BY <1>1, MainLoopType DEF GroupTables
<1>3. /\ DOMAIN Timers' = DOMAIN Timers
      /\ \A t \in DOMAIN Timers : Timers'[t].client = Timers[t].client
      /\ pc' = "timers"
  BY <1>1, ReturnKeeps DEF GroupTables, SameTimer
<1>4. ClientsKnown(Timers', TimerGroups')
  BY <1>1, <1>3 DEF GroupTables, ClientsKnown
<1>5. /\ step' = "none" /\ widget' \in 1..(WidgetLimit + 1)
      /\ interval' \in Intervals \cup {-1} /\ calls' \in [Widgets -> Nat]
  <2>1. CASE LeaveGroup
    BY <2>1, TimerGroupAssumption DEF LeaveGroup, NoCalls
  <2>2. CASE DriverReturn
    BY <2>2 DEF DriverReturn, groupVars, GroupTables
  <2> QED
    BY <2>1, <2>2
<1> QED
  BY <1>1, <1>2, <1>3, <1>4, <1>5 DEF GroupTables

LEMMA MainLoopTables ==
  ASSUME GroupTables, MainLoop
  PROVE  GroupTables'
<1>1. TypeOK' /\ pc # "callback" /\ (pc' = "callback" => Timers'[timer'].active)
  BY MainLoopType, MainLoopKeeps DEF GroupTables
<1>2. UNCHANGED <<step, widget, interval, calls>> /\ step = "none"
  BY <1>1 DEF MainLoop, GroupTables, InGroup
<1>3. /\ TimerGroups' \in Seq(GroupSlot) /\ Len(TimerGroups') <= GroupLimit
      /\ TimerGroupWidgets' \in Seq(WidgetSlot) /\ Len(TimerGroupWidgets') <= WidgetLimit
      /\ ClientsKnown(Timers', TimerGroups')
  <2>1. CASE pc' = "exit"
    <3>1. Timers' = <<>> /\ TimerGroups' = <<>> /\ TimerGroupWidgets' = <<>>
      BY <2>1, MainLoopKeeps DEF MainLoop, TimerExitGroup, GroupTables
    <3> QED
      BY <3>1, TimerGroupAssumption DEF ClientsKnown
  <2>2. CASE pc' # "exit"
    <3>1. UNCHANGED <<TimerGroups, TimerGroupWidgets>>
      BY <2>2 DEF MainLoop
    <3>2. /\ DOMAIN Timers' = DOMAIN Timers
          /\ \A t \in DOMAIN Timers : Timers'[t].client = Timers[t].client
      BY <2>2, MainLoopKeeps DEF GroupTables, SameTimer
    <3> QED
      BY <3>1, <3>2 DEF GroupTables, ClientsKnown
  <2> QED
    BY <2>1, <2>2
<1> QED
  BY <1>1, <1>2, <1>3 DEF GroupTables

LEMMA GroupTablesNext == GroupTables /\ [GroupNext]_allVars => GroupTables'
<1> SUFFICES ASSUME GroupTables, [GroupNext]_allVars PROVE GroupTables'
  OBVIOUS
<1>1. ASSUME NEW w \in Widgets, InitWidget(w) PROVE GroupTables'
  <2>1. PICK i \in Intervals : AddWidget(w, i, w \in Rearming \/ i = 0)
    BY <1>1 DEF InitWidget
  <2> QED
    BY <1>1, <2>1, AddWidgetTables DEF InitWidget
<1>2. ASSUME NEW w \in Widgets, RetireWidget(w) PROVE GroupTables'
  BY <1>2, RetireWidgetTables
<1>3. ASSUME NEW d \in Drivers, InitDriver(d) PROVE GroupTables'
  BY <1>3, InitDriverTables
<1>4. CASE RearmWidget
  <2>1. PICK i \in Intervals : AddWidget(Rearmed, i, TRUE)
    BY <1>4 DEF RearmWidget
  <2>2. Rearmed \in Widgets
    BY <1>4, TimerGroupAssumption DEF RearmWidget
  <2> QED
    BY <1>4, <2>1, <2>2, AddWidgetTables DEF RearmWidget
<1>5. CASE ProcessGroup \/ DriverReturn
  BY <1>5, ProcessTables, ReturnWidgetTables, LeaveTables DEF ProcessGroup
<1>6. CASE MainLoop
  BY <1>6, MainLoopTables
<1>7. CASE GroupTick
  <2>1. TypeOK' /\ UNCHANGED <<Timers, pc, timer>> /\ UNCHANGED groupVars
    BY <1>7, MainLoopType DEF GroupTick, Tick, GroupTables
  <2> QED
    BY <2>1 DEF GroupTables, groupVars, InGroup, Member
<1>8. CASE UNCHANGED allVars
  BY <1>8 DEF allVars, vars, groupVars, GroupTables, TypeOK, InGroup, Member
<1> QED
  BY <1>1, <1>2, <1>3, <1>4, <1>5, <1>6, <1>7, <1>8 DEF GroupNext

-----------------------------------------------------------------------------
(***************************************************************************)
(* A pass over a group                                                     *)
(***************************************************************************)
OwnerOf(x) == TimerGroupWidgets[x].owner

Passed(x) == x < widget \/ (step = "callback" /\ x = widget)

\* A released slot before slot k: timer_add_widget() reuses it, so that a widget
\* that adds itself is not met again in this pass.
FreeBelow(k) ==
  \E x \in DOMAIN TimerGroupWidgets : x < k /\ ~TimerGroupWidgets[x].active

RearmedAlready ==
  \E x \in ActiveWidgets(TimerGroupWidgets) \ {widget} : OwnerOf(x) = Rearmed

\* A widget owns one slot at a time, and a second one only between its own call
\* and the return from it.
OwnersApart ==
  /\ \A x \in DOMAIN TimerGroupWidgets :
       OwnerOf(x) \in Rearming => TimerGroupWidgets[x].one_shot
  /\ \A x, y \in DOMAIN TimerGroupWidgets :
       OwnerOf(x) = OwnerOf(y) /\ OwnerOf(x) \notin Rearming => x = y
  /\ \A x, y \in ActiveWidgets(TimerGroupWidgets) :
       OwnerOf(x) = OwnerOf(y) => x = y \/ (step = "callback" /\ widget \in {x, y})

\* A widget that does not add itself again has been called iff its slot has been
\* passed.
RecurringPart ==
  step # "none" =>
  /\ \A w \in Widgets \ Rearming : calls[w] <= 1
  /\ \A x \in DOMAIN TimerGroupWidgets : OwnerOf(x) \notin Rearming =>
       /\ ~Passed(x) => calls[OwnerOf(x)] = 0
       /\ Passed(x) /\ Member(x) => calls[OwnerOf(x)] = 1

\* A widget that adds itself again is called twice at most: after the first such
\* call of a pass a released slot lies behind the loop index.
RearmingPart ==
  step # "none" =>
  /\ \A w \in Rearming : calls[w] <= 2
  /\ \A x \in ActiveWidgets(TimerGroupWidgets) :
       OwnerOf(x) \in Rearming /\ calls[OwnerOf(x)] = 2 => Passed(x)
  /\ step = "loop" /\ (\E w \in Rearming : calls[w] > 0) => FreeBelow(widget)
  /\ step = "callback" /\ ~RearmedAlready
     /\ (\E w \in Rearming : calls[w] > 1 \/ (calls[w] = 1 /\ w # Rearmed))
       => FreeBelow(widget)

PassInv ==
  /\ GroupTables
  /\ OwnersApart
  /\ RecurringPart
  /\ RearmingPart
  /\ step = "none" => calls = NoCalls

\* Types of the table and the loop index, as the arithmetic below needs them.
LEMMA PassFacts ==
  ASSUME PassInv
  PROVE  /\ TimerGroupWidgets \in Seq(WidgetSlot)
         /\ Len(TimerGroupWidgets) \in Nat
         /\ DOMAIN TimerGroupWidgets = 1..Len(TimerGroupWidgets)
         /\ widget \in Nat \ {0}
         /\ \A x \in DOMAIN TimerGroupWidgets :
              OwnerOf(x) \in Widgets /\ calls[OwnerOf(x)] \in Nat
         /\ \A w \in Widgets : calls[w] \in Nat
         /\ step \in {"none", "loop", "callback"}
<1>1. /\ TimerGroupWidgets \in Seq(WidgetSlot) /\ calls \in [Widgets -> Nat]
      /\ widget \in 1..(WidgetLimit + 1) /\ WidgetLimit \in Nat
      /\ step \in {"none", "loop", "callback"}
  BY TimerGroupAssumption DEF PassInv, GroupTables
<1>2. \A x \in DOMAIN TimerGroupWidgets : OwnerOf(x) \in Widgets
  <2> SUFFICES ASSUME NEW x \in DOMAIN TimerGroupWidgets PROVE OwnerOf(x) \in Widgets
    OBVIOUS
  <2>1. TimerGroupWidgets[x] \in WidgetSlot
    BY <1>1
  <2> QED
    BY <2>1 DEF WidgetSlot, OwnerOf
<1> QED
  BY <1>1, <1>2

\* What a slot that is filled or released means for the owners and the members.
LEMMA InitWidgetPass ==
  ASSUME PassInv, NEW w \in Widgets, InitWidget(w)
  PROVE  OwnersApart'
<1>1. PICK i \in Intervals : /\ w \in Rearming => i > 0
                             /\ AddWidget(w, i, w \in Rearming \/ i = 0)
  BY DEF InitWidget
<1> DEFINE o == w \in Rearming \/ i = 0
<1>2. /\ \A x \in DOMAIN TimerGroupWidgets : OwnerOf(x) # w
      /\ UNCHANGED <<step, widget>>
  BY DEF InitWidget, running, OwnerOf
<1>3. o \in BOOLEAN /\ (w \in Rearming => o)
  OBVIOUS
<1>4. WidgetAdded(w, i, o) \/ UNCHANGED TimerGroupWidgets
  BY <1>1, <1>3, AddWidgetMoves DEF PassInv
<1> HIDE DEF o
<1>5. CASE UNCHANGED TimerGroupWidgets
  BY <1>2, <1>5 DEF PassInv, OwnersApart, OwnerOf, ActiveWidgets
<1>6. CASE WidgetAdded(w, i, o)
  <2> DEFINE k == FirstFree(TimerGroupWidgets)
  <2>1. /\ DOMAIN TimerGroupWidgets' = DOMAIN TimerGroupWidgets \cup {k}
        /\ TimerGroupWidgets'[k].owner = w
        /\ TimerGroupWidgets'[k].one_shot = o
        /\ \A x \in DOMAIN TimerGroupWidgets :
              x # k => TimerGroupWidgets'[x] = TimerGroupWidgets[x]
    BY <1>3, <1>6, WidgetAddedProperty DEF PassInv
  <2> HIDE DEF k
  <2>2. \A x \in DOMAIN TimerGroupWidgets' :
          OwnerOf(x)' \in Rearming => TimerGroupWidgets'[x].one_shot
    BY <1>3, <2>1 DEF PassInv, OwnersApart, OwnerOf
  <2>3. \A x, y \in DOMAIN TimerGroupWidgets' :
          OwnerOf(x)' = OwnerOf(y)' /\ OwnerOf(x)' \notin Rearming => x = y
    BY <1>2, <2>1 DEF PassInv, OwnersApart, OwnerOf
  <2>4. \A x, y \in ActiveWidgets(TimerGroupWidgets)' :
          OwnerOf(x)' = OwnerOf(y)' => x = y \/ (step' = "callback" /\ widget' \in {x, y})
    BY <1>2, <2>1 DEF PassInv, OwnersApart, OwnerOf, ActiveWidgets
  <2> QED
    BY <2>2, <2>3, <2>4 DEF OwnersApart
<1> QED
  BY <1>4, <1>5, <1>6

LEMMA RearmWidgetPass ==
  ASSUME PassInv, RearmWidget
  PROVE  OwnersApart' /\ RecurringPart' /\ RearmingPart'
<1>1. /\ step = "callback" /\ Rearmed \in Rearming /\ ~RearmedAlready
      /\ UNCHANGED <<step, widget, interval, calls>>
  BY DEF RearmWidget, RearmedAlready, OwnerOf, running
<1>2. PICK i \in Intervals : AddWidget(Rearmed, i, TRUE)
  BY DEF RearmWidget
<1>3. Rearmed \in Widgets
  BY <1>1, TimerGroupAssumption
<1>4. WidgetAdded(Rearmed, i, TRUE) \/ UNCHANGED TimerGroupWidgets
  BY <1>2, <1>3, AddWidgetMoves DEF PassInv
<1>5. CASE UNCHANGED TimerGroupWidgets
  BY <1>1, <1>5 DEF PassInv, OwnersApart, RecurringPart, RearmingPart, OwnerOf,
                    ActiveWidgets, Passed, Member, FreeBelow, RearmedAlready, Rearmed
<1>6. CASE WidgetAdded(Rearmed, i, TRUE)
  <2> DEFINE k == FirstFree(TimerGroupWidgets)
  <2>1. /\ DOMAIN TimerGroupWidgets' = DOMAIN TimerGroupWidgets \cup {k}
        /\ k \in 1..(Len(TimerGroupWidgets) + 1)
        /\ k \in DOMAIN TimerGroupWidgets => ~TimerGroupWidgets[k].active
        /\ \A x \in DOMAIN TimerGroupWidgets : ~TimerGroupWidgets[x].active => k <= x
        /\ TimerGroupWidgets'[k].owner = Rearmed
        /\ TimerGroupWidgets'[k].one_shot = TRUE
        /\ TimerGroupWidgets'[k].active
        /\ \A x \in DOMAIN TimerGroupWidgets :
              x # k => TimerGroupWidgets'[x] = TimerGroupWidgets[x]
    BY <1>3, <1>6, WidgetAddedProperty DEF PassInv
  <2> HIDE DEF k
  <2>0. k \in Nat
    BY <2>1, PassFacts
  <2>2. /\ widget \in ActiveWidgets(TimerGroupWidgets) /\ widget # k
        /\ OwnerOf(widget) = Rearmed
    <3>1. widget \in DOMAIN TimerGroupWidgets /\ TimerGroupWidgets[widget].active
      BY <1>1, PassFacts DEF PassInv, GroupTables, Member
    <3> QED
      BY <2>1, <3>1 DEF ActiveWidgets, OwnerOf, Rearmed
  <2>3. OwnersApart'
    <3>1. \A x \in DOMAIN TimerGroupWidgets' :
            OwnerOf(x)' \in Rearming => TimerGroupWidgets'[x].one_shot
      BY <2>1 DEF PassInv, OwnersApart, OwnerOf
    <3>2. \A x, y \in DOMAIN TimerGroupWidgets' :
            OwnerOf(x)' = OwnerOf(y)' /\ OwnerOf(x)' \notin Rearming => x = y
      BY <1>1, <2>1 DEF PassInv, OwnersApart, OwnerOf
    <3>3. \A x, y \in ActiveWidgets(TimerGroupWidgets)' :
            OwnerOf(x)' = OwnerOf(y)' => x = y \/ (step' = "callback" /\ widget' \in {x, y})
      BY <1>1, <2>1 DEF PassInv, OwnersApart, OwnerOf, ActiveWidgets, RearmedAlready
    <3> QED
      BY <3>1, <3>2, <3>3 DEF OwnersApart
  <2>4. RecurringPart'
    <3>1. \A x \in DOMAIN TimerGroupWidgets' : OwnerOf(x)' \notin Rearming =>
            x \in DOMAIN TimerGroupWidgets /\ TimerGroupWidgets'[x] = TimerGroupWidgets[x]
      BY <1>1, <2>1 DEF OwnerOf
    <3> QED
      BY <1>1, <3>1 DEF PassInv, RecurringPart, OwnerOf, Passed, Member
  <2>5. RearmingPart'
    <3>1. RearmedAlready'
      <4>1. Rearmed' = Rearmed
        BY <1>1, <2>1, <2>2 DEF Rearmed, ActiveWidgets
      <4> QED
        BY <1>1, <2>1, <2>2, <4>1 DEF RearmedAlready, OwnerOf, ActiveWidgets
    <3>2. calls[Rearmed] = 2 => k < widget
      <4> SUFFICES ASSUME calls[Rearmed] = 2 PROVE k < widget
        OBVIOUS
      <4>1. FreeBelow(widget)
        BY <1>1 DEF PassInv, RearmingPart
      <4> QED
        BY <2>0, <2>1, <4>1, PassFacts DEF FreeBelow
    <3>3. \A x \in ActiveWidgets(TimerGroupWidgets)' :
            OwnerOf(x)' \in Rearming /\ calls[OwnerOf(x)'] = 2 => Passed(x)'
      BY <1>1, <2>1, <3>2 DEF PassInv, RearmingPart, OwnerOf, ActiveWidgets, Passed
    <3>4. \A w \in Rearming : calls[w] <= 2
      BY <1>1 DEF PassInv, RearmingPart
    <3> QED
      BY <1>1, <3>1, <3>3, <3>4 DEF RearmingPart
  <2> QED
    BY <2>3, <2>4, <2>5
<1> QED
  BY <1>4, <1>5, <1>6

LEMMA RetireWidgetPass ==
  ASSUME PassInv, NEW w, RetireWidget(w)
  PROVE  OwnersApart' /\ RecurringPart' /\ RearmingPart'
<1>1. PICK k \in ActiveWidgets(TimerGroupWidgets) :
              /\ OwnerOf(k) = w
              /\ TimerGroupWidgets' = [TimerGroupWidgets EXCEPT ![k].active = FALSE]
  BY RemoveWidgetMoves DEF RetireWidget, OwnerOf, PassInv
<1>2. /\ UNCHANGED <<step, widget, interval, calls>>
      /\ step # "none" => step = "callback" /\ w # Rearmed
  BY DEF RetireWidget, running, PassInv, GroupTables, InGroup
<1>3. /\ DOMAIN TimerGroupWidgets' = DOMAIN TimerGroupWidgets
      /\ \A x \in DOMAIN TimerGroupWidgets :
              /\ TimerGroupWidgets'[x].owner = TimerGroupWidgets[x].owner
              /\ TimerGroupWidgets'[x].interval = TimerGroupWidgets[x].interval
              /\ TimerGroupWidgets'[x].one_shot = TimerGroupWidgets[x].one_shot
              /\ TimerGroupWidgets'[x].active <=> TimerGroupWidgets[x].active /\ x # k
  BY <1>1, ReleaseWidget DEF PassInv, GroupTables, ActiveWidgets
<1>4. OwnersApart'
  BY <1>2, <1>3 DEF PassInv, OwnersApart, OwnerOf, ActiveWidgets
<1>5. RecurringPart'
  BY <1>2, <1>3 DEF PassInv, RecurringPart, OwnerOf, Passed, Member
<1>6. RearmingPart'
  <2>1. step = "callback" => Rearmed' = Rearmed
    BY <1>2, <1>3, PassFacts DEF PassInv, GroupTables, Rearmed
  <2>2. step = "callback" /\ RearmedAlready => RearmedAlready'
    BY <1>1, <1>2, <1>3, <2>1 DEF RearmedAlready, ActiveWidgets, OwnerOf
  <2>3. FreeBelow(widget) => FreeBelow(widget)'
    BY <1>2, <1>3 DEF FreeBelow
  <2>4. \A x \in ActiveWidgets(TimerGroupWidgets)' :
          x \in ActiveWidgets(TimerGroupWidgets) /\ OwnerOf(x)' = OwnerOf(x)
    BY <1>3 DEF ActiveWidgets, OwnerOf
  <2>5. CASE step = "none"
    BY <1>2, <2>5 DEF RearmingPart
  <2>6. CASE step = "callback"
    <3>1. \A x \in ActiveWidgets(TimerGroupWidgets)' :
            OwnerOf(x)' \in Rearming /\ calls'[OwnerOf(x)'] = 2 => Passed(x)'
      BY <1>2, <2>4, <2>6 DEF PassInv, RearmingPart, Passed
    <3>2. /\ \A v \in Rearming : calls[v] <= 2
          /\ ~RearmedAlready
             /\ (\E v \in Rearming : calls[v] > 1 \/ (calls[v] = 1 /\ v # Rearmed))
               => FreeBelow(widget)
      BY <2>6 DEF PassInv, RearmingPart
    <3> QED
      BY <1>2, <2>1, <2>2, <2>3, <2>6, <3>1, <3>2 DEF RearmingPart
  <2> QED
    BY <1>2, <2>5, <2>6
<1> QED
  BY <1>4, <1>5, <1>6

LEMMA EnterGroupPass ==
  ASSUME PassInv, EnterGroup
  PROVE  OwnersApart' /\ RecurringPart' /\ RearmingPart'
<1>1. /\ step = "none" /\ step' = "loop" /\ widget' = 1 /\ calls' = NoCalls
      /\ UNCHANGED TimerGroupWidgets
  BY DEF EnterGroup
<1>2. /\ \A x \in DOMAIN TimerGroupWidgets : ~(x < 1) /\ OwnerOf(x) \in Widgets
      /\ \A w \in Widgets : NoCalls[w] = 0
  BY PassFacts DEF NoCalls
<1>3. OwnersApart'
  BY <1>1 DEF PassInv, OwnersApart, OwnerOf, ActiveWidgets
<1>4. RecurringPart'
  BY <1>1, <1>2 DEF RecurringPart, OwnerOf, Passed
<1>5. RearmingPart'
  BY <1>1, <1>2, TimerGroupAssumption DEF RearmingPart, OwnerOf, ActiveWidgets
<1> QED
  BY <1>3, <1>4, <1>5

LEMMA SkipWidgetPass ==
  ASSUME PassInv, SkipWidget
  PROVE  OwnersApart' /\ RecurringPart' /\ RearmingPart'
<1>1. /\ step = "loop" /\ step' = "loop" /\ widget' = widget + 1 /\ ~Member(widget)
      /\ UNCHANGED <<TimerGroupWidgets, interval, calls>>
  BY DEF SkipWidget
<1>2. /\ \A x \in DOMAIN TimerGroupWidgets : x < widget' <=> x < widget \/ x = widget
      /\ \A x \in DOMAIN TimerGroupWidgets : Passed(x) => Passed(x)'
  BY <1>1, PassFacts DEF Passed
<1>3. OwnersApart'
  BY <1>1 DEF PassInv, OwnersApart, OwnerOf, ActiveWidgets
<1>4. RecurringPart'
  BY <1>1, <1>2 DEF PassInv, RecurringPart, OwnerOf, Passed, Member
<1>5. RearmingPart'
  <2>1. FreeBelow(widget) => FreeBelow(widget)'
    BY <1>1, <1>2 DEF FreeBelow
  <2> QED
    BY <1>1, <1>2, <2>1 DEF PassInv, RearmingPart, OwnerOf, ActiveWidgets
<1> QED
  BY <1>3, <1>4, <1>5

LEMMA CallWidgetPass ==
  ASSUME PassInv, CallWidget
  PROVE  OwnersApart' /\ RecurringPart' /\ RearmingPart'
<1> DEFINE o == OwnerOf(widget)
<1>1. /\ step = "loop" /\ step' = "callback" /\ Member(widget)
      /\ widget <= Len(TimerGroupWidgets)
      /\ calls' = [calls EXCEPT ![o] = calls[o] + 1]
      /\ UNCHANGED <<TimerGroupWidgets, interval, widget>>
  BY DEF CallWidget, OwnerOf
<1>2. /\ widget \in ActiveWidgets(TimerGroupWidgets) /\ widget \in DOMAIN TimerGroupWidgets
      /\ o \in Widgets /\ calls[o] \in Nat
  BY <1>1, PassFacts DEF Member, ActiveWidgets
<1>3. /\ \A x \in DOMAIN TimerGroupWidgets : Passed(x)' <=> Passed(x) \/ x = widget
      /\ ~Passed(widget)
      /\ calls \in [Widgets -> Nat]
      /\ o' = o /\ Rearmed' = o
  BY <1>1, PassFacts DEF Passed, PassInv, GroupTables, OwnerOf, Rearmed
<1>4. /\ calls'[o] = calls[o] + 1
      /\ \A w \in Widgets : w # o => calls'[w] = calls[w]
  BY <1>1, <1>2, <1>3
<1>5. OwnersApart'
  BY <1>1 DEF PassInv, OwnersApart, OwnerOf, ActiveWidgets
<1>6. /\ \A x \in DOMAIN TimerGroupWidgets : OwnerOf(x) = o /\ o \notin Rearming => x = widget
      /\ \A x \in ActiveWidgets(TimerGroupWidgets) : OwnerOf(x) = o => x = widget
  BY <1>1, <1>2 DEF PassInv, OwnersApart
<1>7. \A x \in DOMAIN TimerGroupWidgets : OwnerOf(x)' = OwnerOf(x) /\ OwnerOf(x) \in Widgets
  BY <1>1, PassFacts DEF OwnerOf
<1> HIDE DEF o
<1>8. RecurringPart'
  <2>1. \A w \in Widgets \ Rearming : calls[w] <= 1
    BY <1>1 DEF PassInv, RecurringPart
  <2>2. o \notin Rearming => calls[o] = 0
    BY <1>1, <1>2, <1>3 DEF PassInv, RecurringPart, o
  <2>3. \A w \in Widgets \ Rearming : calls'[w] <= 1
    BY <1>4, <2>1, <2>2
  <2>4. ASSUME NEW x \in DOMAIN TimerGroupWidgets, OwnerOf(x) \notin Rearming
        PROVE  /\ ~Passed(x)' => calls'[OwnerOf(x)] = 0
               /\ Passed(x)' /\ Member(x)' => calls'[OwnerOf(x)] = 1
    <3>1. Member(x)' = Member(x)
      BY <1>1 DEF Member
    <3>2. CASE OwnerOf(x) = o
      BY <1>3, <1>4, <1>6, <2>2, <2>4, <3>2
    <3>3. CASE OwnerOf(x) # o
      <4>1. calls'[OwnerOf(x)] = calls[OwnerOf(x)] /\ x # widget
        BY <1>4, <1>7, <3>3 DEF o
      <4> QED
        BY <1>1, <1>3, <2>4, <3>1, <4>1 DEF PassInv, RecurringPart
    <3> QED
      BY <3>2, <3>3
  <2> QED
    BY <1>1, <1>7, <2>3, <2>4 DEF RecurringPart
<1>9. RearmingPart'
  <2>1. /\ \A w \in Rearming : calls[w] <= 2
        /\ \A x \in ActiveWidgets(TimerGroupWidgets) :
             OwnerOf(x) \in Rearming /\ calls[OwnerOf(x)] = 2 => Passed(x)
        /\ (\E w \in Rearming : calls[w] > 0) => FreeBelow(widget)
    BY <1>1 DEF PassInv, RearmingPart
  <2>2. o \in Rearming => calls[o] # 2
    BY <1>2, <1>3, <2>1 DEF o
  <2>3. \A w \in Rearming : w \in Widgets /\ calls[w] \in Nat
    BY PassFacts, TimerGroupAssumption
  <2>4. \A w \in Rearming : calls'[w] <= 2
    BY <1>2, <1>4, <2>1, <2>2, <2>3
  <2>5. \A x \in ActiveWidgets(TimerGroupWidgets) :
          OwnerOf(x) \in Rearming /\ calls'[OwnerOf(x)] = 2 => Passed(x)'
    <3>1. \A x \in ActiveWidgets(TimerGroupWidgets) :
            x = widget \/ calls'[OwnerOf(x)] = calls[OwnerOf(x)]
      BY <1>4, <1>6, <1>7 DEF ActiveWidgets
    <3> QED
      BY <1>3, <2>1, <3>1 DEF ActiveWidgets
  <2>6. (\E w \in Rearming : calls'[w] > 1 \/ (calls'[w] = 1 /\ w # o)) => FreeBelow(widget)
    BY <1>2, <1>4, <2>1, <2>3
  <2>7. FreeBelow(widget)' = FreeBelow(widget)
        /\ ActiveWidgets(TimerGroupWidgets)' = ActiveWidgets(TimerGroupWidgets)
    BY <1>1 DEF FreeBelow, ActiveWidgets
  <2>8. \A x \in ActiveWidgets(TimerGroupWidgets) : OwnerOf(x)' = OwnerOf(x)
    BY <1>7 DEF ActiveWidgets
  <2> QED
    BY <1>1, <1>3, <2>4, <2>5, <2>6, <2>7, <2>8 DEF RearmingPart
<1> QED
  BY <1>5, <1>8, <1>9

LEMMA ReturnWidgetPass ==
  ASSUME PassInv, ReturnWidget
  PROVE  OwnersApart' /\ RecurringPart' /\ RearmingPart'
<1>1. /\ step = "callback" /\ step' = "loop" /\ widget' = widget + 1
      /\ UNCHANGED <<interval, calls>>
      /\ IF TimerGroupWidgets[widget].one_shot
         THEN TimerGroupWidgets' = [TimerGroupWidgets EXCEPT ![widget].active = FALSE]
         ELSE TimerGroupWidgets' = TimerGroupWidgets
  BY DEF ReturnWidget
<1> DEFINE o == OwnerOf(widget)
           once == TimerGroupWidgets[widget].one_shot
<1>2. /\ widget \in DOMAIN TimerGroupWidgets /\ widget \in ActiveWidgets(TimerGroupWidgets)
      /\ TimerGroupWidgets \in Seq(WidgetSlot)
  BY <1>1, PassFacts DEF PassInv, GroupTables, Member, ActiveWidgets
<1>3. once \in BOOLEAN
  <2>1. TimerGroupWidgets[widget] \in WidgetSlot
    BY <1>2
  <2> QED
    BY <2>1 DEF WidgetSlot
<1>4. /\ DOMAIN TimerGroupWidgets' = DOMAIN TimerGroupWidgets
      /\ \A x \in DOMAIN TimerGroupWidgets :
              /\ TimerGroupWidgets'[x].owner = TimerGroupWidgets[x].owner
              /\ TimerGroupWidgets'[x].interval = TimerGroupWidgets[x].interval
              /\ TimerGroupWidgets'[x].one_shot = TimerGroupWidgets[x].one_shot
              /\ TimerGroupWidgets'[x].active <=>
                   TimerGroupWidgets[x].active /\ ~(once /\ x = widget)
  <2>1. CASE once
    <3>1. TimerGroupWidgets' = [TimerGroupWidgets EXCEPT ![widget].active = FALSE]
      BY <1>1, <2>1
    <3> QED
      BY <1>2, <2>1, <3>1, ReleaseWidget
  <2>2. CASE ~once
    BY <1>1, <2>2
  <2> QED
    BY <2>1, <2>2
<1>5. /\ \A x \in DOMAIN TimerGroupWidgets : Passed(x)' <=> Passed(x)
      /\ widget < widget'
      /\ \A x \in DOMAIN TimerGroupWidgets : x < widget => x < widget'
  BY <1>1, PassFacts DEF Passed
<1>6. /\ \A x \in DOMAIN TimerGroupWidgets : OwnerOf(x)' = OwnerOf(x)
      /\ \A x \in ActiveWidgets(TimerGroupWidgets)' :
           x \in ActiveWidgets(TimerGroupWidgets) /\ ~(once /\ x = widget)
      /\ DOMAIN TimerGroupWidgets' = DOMAIN TimerGroupWidgets
      /\ \A x \in DOMAIN TimerGroupWidgets : Member(x)' => Member(x)
  BY <1>1, <1>4 DEF OwnerOf, ActiveWidgets, Member
<1>7. o \in Rearming => once
  BY <1>2 DEF PassInv, OwnersApart
<1> HIDE DEF o, once
<1>8. OwnersApart'
  <2>1. \A x \in DOMAIN TimerGroupWidgets' :
          OwnerOf(x)' \in Rearming => TimerGroupWidgets'[x].one_shot
    BY <1>4, <1>6 DEF PassInv, OwnersApart
  <2>2. \A x, y \in DOMAIN TimerGroupWidgets' :
          OwnerOf(x)' = OwnerOf(y)' /\ OwnerOf(x)' \notin Rearming => x = y
    BY <1>6 DEF PassInv, OwnersApart
  <2>3. ASSUME NEW x \in ActiveWidgets(TimerGroupWidgets)',
               NEW y \in ActiveWidgets(TimerGroupWidgets)',
               OwnerOf(x)' = OwnerOf(y)'
        PROVE  x = y
    <3>1. /\ x \in ActiveWidgets(TimerGroupWidgets) /\ x \in DOMAIN TimerGroupWidgets
          /\ y \in ActiveWidgets(TimerGroupWidgets) /\ y \in DOMAIN TimerGroupWidgets
          /\ OwnerOf(x) = OwnerOf(y)
          /\ once => x # widget /\ y # widget
      BY <1>6, <2>3 DEF ActiveWidgets
    <3>2. CASE once
      BY <3>1, <3>2 DEF PassInv, OwnersApart
    <3>3. CASE ~once
      <4>1. x = y \/ widget \in {x, y}
        BY <3>1 DEF PassInv, OwnersApart
      <4>2. o \notin Rearming
        BY <1>7, <3>3
      <4> QED
        BY <3>1, <4>1, <4>2 DEF PassInv, OwnersApart, o
    <3> QED
      BY <3>2, <3>3
  <2> QED
    BY <2>1, <2>2, <2>3 DEF OwnersApart
<1>9. RecurringPart'
  BY <1>1, <1>5, <1>6 DEF PassInv, RecurringPart
<1>10. RearmingPart'
  <2>1. \A x \in ActiveWidgets(TimerGroupWidgets)' :
          OwnerOf(x)' \in Rearming /\ calls'[OwnerOf(x)'] = 2 => Passed(x)'
    <3>1. \A x \in ActiveWidgets(TimerGroupWidgets) :
            OwnerOf(x) \in Rearming /\ calls[OwnerOf(x)] = 2 => Passed(x)
      BY <1>1 DEF PassInv, RearmingPart
    <3>2. \A x \in ActiveWidgets(TimerGroupWidgets)' :
            /\ x \in ActiveWidgets(TimerGroupWidgets)
            /\ OwnerOf(x)' = OwnerOf(x) /\ (Passed(x)' <=> Passed(x))
      BY <1>5, <1>6 DEF ActiveWidgets
    <3> QED
      BY <1>1, <3>1, <3>2
  <2>2. (\E w \in Rearming : calls[w] > 0) => FreeBelow(widget)'
    <3>1. CASE once
      BY <1>2, <1>4, <1>5, <3>1 DEF FreeBelow
    <3>2. CASE ~once
      <4>1. o \notin Rearming /\ o = Rearmed
        BY <1>7, <3>2 DEF o, OwnerOf, Rearmed
      <4>2. ~RearmedAlready
        BY <1>2, <4>1 DEF PassInv, OwnersApart, RearmedAlready, ActiveWidgets, o
      <4>3. (\E w \in Rearming : calls[w] > 0) => FreeBelow(widget)
        <5>1. \A w \in Rearming : w # Rearmed /\ calls[w] \in Nat
          BY <4>1, PassFacts, TimerGroupAssumption
        <5>2. \A w \in Rearming : calls[w] > 0 => calls[w] > 1 \/ calls[w] = 1
          BY <5>1
        <5> QED
          BY <1>1, <4>2, <5>1, <5>2 DEF PassInv, RearmingPart
      <4> QED
        BY <1>4, <1>5, <4>3 DEF FreeBelow
    <3> QED
      BY <3>1, <3>2
  <2>3. \A w \in Rearming : calls[w] <= 2
    BY <1>1 DEF PassInv, RearmingPart
  <2> QED
    BY <1>1, <2>1, <2>2, <2>3 DEF RearmingPart
<1> QED
  BY <1>8, <1>9, <1>10

\* Between two passes nothing is asked of the calls.
LEMMA IdlePass ==
  ASSUME PassInv, step' = "none",
         \/ step \in {"none", "loop"} /\ UNCHANGED TimerGroupWidgets
         \/ TimerGroupWidgets' = <<>>
  PROVE  OwnersApart' /\ RecurringPart' /\ RearmingPart'
<1>1. OwnersApart'
  <2>1. CASE TimerGroupWidgets' = <<>>
    BY <2>1 DEF OwnersApart, ActiveWidgets
  <2>2. CASE step \in {"none", "loop"} /\ UNCHANGED TimerGroupWidgets
    BY <2>2 DEF PassInv, OwnersApart, OwnerOf, ActiveWidgets
  <2> QED
    BY <2>1, <2>2
<1>2. RecurringPart' /\ RearmingPart'
  BY DEF RecurringPart, RearmingPart
<1> QED
  BY <1>1, <1>2

LEMMA PassNext == PassInv /\ [GroupNext]_allVars => PassInv'
<1> SUFFICES ASSUME PassInv, [GroupNext]_allVars PROVE PassInv'
  OBVIOUS
<1>1. GroupTables'
  BY GroupTablesNext DEF PassInv
<1>2. OwnersApart' /\ RecurringPart' /\ RearmingPart'
  <2>1. ASSUME NEW w \in Widgets, InitWidget(w)
        PROVE  OwnersApart' /\ RecurringPart' /\ RearmingPart'
    <3>1. step' = "none"
      BY <2>1 DEF InitWidget, running, PassInv, GroupTables, InGroup
    <3> QED
      BY <2>1, <3>1, InitWidgetPass DEF RecurringPart, RearmingPart
  <2>2. ASSUME NEW d \in Drivers, InitDriver(d)
        PROVE  OwnersApart' /\ RecurringPart' /\ RearmingPart'
    <3>1. step' = "none" /\ step = "none" /\ UNCHANGED TimerGroupWidgets
      BY <2>2 DEF InitDriver, groupVars, PassInv, GroupTables, InGroup
    <3> QED
      BY <3>1, IdlePass
  <2>3. CASE LeaveGroup \/ DriverReturn \/ MainLoop
    <3>1. LeaveGroup => step = "loop" /\ step' = "none" /\ UNCHANGED TimerGroupWidgets
      BY DEF LeaveGroup
    <3>2. DriverReturn => step = "none" /\ step' = "none" /\ UNCHANGED TimerGroupWidgets
      BY DEF DriverReturn, groupVars, PassInv, GroupTables
    <3>3. MainLoop => /\ step = "none" /\ step' = "none"
                      /\ UNCHANGED TimerGroupWidgets \/ TimerGroupWidgets' = <<>>
      <4> SUFFICES ASSUME MainLoop
                   PROVE  /\ step = "none" /\ step' = "none"
                          /\ UNCHANGED TimerGroupWidgets \/ TimerGroupWidgets' = <<>>
        OBVIOUS
      <4>1. pc # "callback"
        BY MainLoopKeeps DEF PassInv, GroupTables
      <4> QED
        BY <4>1 DEF MainLoop, TimerExitGroup, PassInv, GroupTables, InGroup
    <3> QED
      BY <2>3, <3>1, <3>2, <3>3, IdlePass
  <2>4. CASE GroupTick \/ UNCHANGED allVars
    BY <2>4 DEF GroupTick, allVars, groupVars, PassInv, OwnersApart, RecurringPart,
                RearmingPart, OwnerOf, ActiveWidgets, Passed, Member, FreeBelow,
                RearmedAlready, Rearmed
  <2> QED
    BY <2>1, <2>2, <2>3, <2>4, RearmWidgetPass, RetireWidgetPass, EnterGroupPass,
       SkipWidgetPass, CallWidgetPass, ReturnWidgetPass DEF GroupNext, ProcessGroup
<1>3. step' = "none" => calls' = NoCalls
  <2>1. UNCHANGED <<step, calls>> \/ ProcessGroup
    BY DEF GroupNext, InitWidget, RetireWidget, InitDriver, RearmWidget, running,
           groupVars, DriverReturn, MainLoop, GroupTick, allVars
  <2> QED
    BY <2>1 DEF PassInv, ProcessGroup, EnterGroup, SkipWidget, CallWidget, ReturnWidget,
                LeaveGroup
<1> QED
  BY <1>1, <1>2, <1>3 DEF PassInv

LEMMA PassInit == GroupInit => PassInv
<1> SUFFICES ASSUME GroupInit PROVE PassInv
  OBVIOUS
<1>1. TimerGroupWidgets = <<>> /\ step = "none" /\ calls = NoCalls
  BY DEF GroupInit
<1> QED
  BY <1>1, GroupTablesInit DEF PassInv, OwnersApart, RecurringPart, RearmingPart,
                               ActiveWidgets

LEMMA PassInvariant == GroupSpec => []PassInv
  BY PassInit, PassNext, PTL DEF GroupSpec

\* timer_group.c keeps its tables well formed whatever widgets add and remove from
\* inside a pass, and it never calls a widget more than twice in one pass.
THEOREM GroupTypeCorrect == GroupSpec => []GroupTypeOK
<1>1. PassInv => GroupTypeOK
  <2> SUFFICES ASSUME PassInv PROVE GroupTypeOK
    OBVIOUS
  <2>1. \A w \in Widgets : calls[w] \in 0..2
    <3>1. CASE step = "none"
      BY <3>1 DEF PassInv, NoCalls
    <3>2. CASE step # "none"
      BY <3>2, PassFacts DEF PassInv, RecurringPart, RearmingPart
    <3> QED
      BY <3>1, <3>2
  <2> QED
    BY <2>1 DEF PassInv, GroupTables, GroupTypeOK
<1> QED
  BY <1>1, PassInvariant, PTL

\* A pass of timer_process_group() has called every recurring member of the group
\* exactly once, although the callbacks release, reuse and append slots.
THEOREM PassesComplete == GroupSpec => PassComplete
<1>1. ASSUME PassInv, [GroupNext]_allVars, step = "loop", step' = "none",
             NEW x \in MembersOf(TimerGroupWidgets, interval),
             ~TimerGroupWidgets[x].one_shot
      PROVE  calls[TimerGroupWidgets[x].owner] = 1
  <2>1. LeaveGroup
    <3>1. UNCHANGED step \/ ProcessGroup
      BY <1>1 DEF GroupNext, InitWidget, RetireWidget, InitDriver, RearmWidget, running,
             groupVars, DriverReturn, MainLoop, GroupTick, allVars
    <3> QED
      BY <1>1, <3>1 DEF ProcessGroup, EnterGroup, SkipWidget, CallWidget, ReturnWidget
  <2>2. x \in DOMAIN TimerGroupWidgets /\ Member(x)
    BY <1>1 DEF MembersOf, ActiveWidgets, Member
  <2>3. Passed(x)
    BY <1>1, <2>1, <2>2, PassFacts DEF LeaveGroup, Passed
  <2>4. OwnerOf(x) \notin Rearming
    BY <1>1, <2>2 DEF PassInv, OwnersApart
  <2> QED
    BY <1>1, <2>2, <2>3, <2>4 DEF PassInv, RecurringPart, OwnerOf
<1>2. PassInv /\ [GroupNext]_allVars =>
        [(step = "loop" /\ step' = "none") =>
           \A x \in MembersOf(TimerGroupWidgets, interval) :
             ~TimerGroupWidgets[x].one_shot
               => calls[TimerGroupWidgets[x].owner] = 1]_allVars
  BY <1>1
<1> QED
  BY <1>2, PassInvariant, PTL DEF GroupSpec, PassComplete

-----------------------------------------------------------------------------
(***************************************************************************)
(* Every waiting widget has a timer                                        *)
(***************************************************************************)
RecurringTimers(T, g, i) ==
  {t \in ActiveSlots(T) :
     T[t].client = GroupTimer(g) /\ T[t].interval = i /\ ~T[t].one_shot}

\* Inductive while timer_add() finds room for the timer of a new group: without
\* room timer_add_group() leaves an active group without a timer.
Served ==
  /\ \A g, h \in ActiveGroups(TimerGroups) :
       TimerGroups[g].interval = TimerGroups[h].interval => g = h
  /\ \A g \in ActiveGroups(TimerGroups) :
       RecurringTimers(Timers, g, TimerGroups[g].interval) # {}
  /\ \A x \in ActiveWidgets(TimerGroupWidgets) :
       GroupsOf(TimerGroups, TimerGroupWidgets[x].interval) # {}

TimersStay ==
  \A g \in 1..GroupLimit : \A i :
    RecurringTimers(Timers, g, i) \subseteq RecurringTimers(Timers', g, i)

LEMMA MoveStays ==
  ASSUME GroupTables, TablesMove
  PROVE  TimersStay
<1>1. \A t \in DOMAIN Timers : t \in DOMAIN Timers'
  <2>1. /\ Timers \in Seq(Slot) /\ Timers' \in Seq(Slot)
        /\ Len(Timers) <= Len(Timers')
    BY DEF GroupTables, TypeOK, TablesMove
  <2> QED
    BY <2>1
<1>2. ASSUME NEW g \in 1..GroupLimit, NEW i, NEW t \in RecurringTimers(Timers, g, i)
      PROVE  t \in RecurringTimers(Timers', g, i)
  <2>1. t \in ActiveSlots(Timers) /\ Timers[t].client = GroupTimer(g)
    BY <1>2 DEF RecurringTimers
  <2>2. Timers'[t] = Timers[t]
    BY <2>1 DEF TablesMove
  <2> QED
    BY <1>1, <1>2, <2>2 DEF RecurringTimers, ActiveSlots
<1> QED
  BY <1>2 DEF TimersStay

LEMMA SameTimersStay ==
  ASSUME DOMAIN Timers' = DOMAIN Timers,
         \A t \in DOMAIN Timers :
           /\ SameTimer(t)
           /\ ~Timers[t].one_shot => (Timers'[t].active <=> Timers[t].active)
  PROVE  TimersStay
  BY DEF TimersStay, RecurringTimers, ActiveSlots, SameTimer

LEMMA ServedKept ==
  ASSUME GroupTables, Served, TimersStay, UNCHANGED <<TimerGroups, TimerGroupWidgets>>
  PROVE  Served'
<1>1. \A g \in ActiveGroups(TimerGroups) : g \in 1..GroupLimit
  BY TimerGroupAssumption DEF GroupTables, ActiveGroups
<1>2. \A g \in ActiveGroups(TimerGroups) :
        RecurringTimers(Timers', g, TimerGroups[g].interval) # {}
  BY <1>1 DEF Served, TimersStay
<1> QED
  BY <1>2 DEF Served, ActiveGroups, ActiveWidgets, GroupsOf

\* timer_add_group() yields a group with its timer.
LEMMA AddGroupServed ==
  ASSUME GroupTables, Served, CanAdd(Timers), NEW i \in Intervals, AddGroup(i),
         GroupsOf(TimerGroups, i) = {}
  PROVE  /\ \A g, h \in ActiveGroups(TimerGroups') :
              TimerGroups'[g].interval = TimerGroups'[h].interval => g = h
         /\ \A g \in ActiveGroups(TimerGroups') :
              RecurringTimers(Timers', g, TimerGroups'[g].interval) # {}
         /\ \A j : GroupsOf(TimerGroups, j) # {} => GroupsOf(TimerGroups', j) # {}
         /\ GroupReady(i) => GroupsOf(TimerGroups', i) # {}
<1> DEFINE g == FirstFree(TimerGroups)
           s == [interval |-> i, active |-> TRUE]
           n == NewTimer(GroupTimer(g), i, FALSE, clock)
<1>1. CASE g > GroupLimit
  <2>1. UNCHANGED <<TimerGroups, Timers>> /\ ~GroupReady(i)
    <3>1. UNCHANGED <<TimerGroups, Timers>>
      BY <1>1 DEF AddGroup
    <3>2. FirstFree(TimerGroups) \in Nat /\ GroupLimit \in Nat
      <4>1. TimerGroups \in Seq(GroupSlot) /\ Len(TimerGroups) \in Nat
        BY DEF GroupTables
      <4> QED
        BY <4>1, FirstFreeProperty, TimerGroupAssumption
    <3> QED
      BY <1>1, <3>1, <3>2 DEF GroupReady
  <2> QED
    BY <2>1 DEF Served
<1>2. CASE ~(g > GroupLimit)
  <2>1. /\ TimerGroups' = Fill(TimerGroups, g, s)
        /\ Timers' = TimerAdd(Timers, n)
    BY <1>2 DEF AddGroup
  <2>2. /\ TimerGroups \in Seq(GroupSlot) /\ Len(TimerGroups) \in Nat
        /\ Timers \in Seq(Slot) /\ clock \in Int /\ GroupLimit \in Nat
        /\ s \in GroupSlot /\ s.interval = i /\ s.active
    BY TimerGroupAssumption DEF GroupTables, TypeOK, GroupSlot
  <2> HIDE DEF s
  <2>3. /\ g \in 1..(Len(TimerGroups) + 1)
        /\ g \in DOMAIN TimerGroups => ~TimerGroups[g].active
    BY <2>2, FirstFreeProperty
  <2>4. g \in 1..GroupLimit
    BY <1>2, <2>2, <2>3
  <2>5. n \in Slot /\ n.client = GroupTimer(g) /\ n.interval = i /\ ~n.one_shot /\ n.active
    BY <2>2, <2>4, NewTimerType, TimerGroupAssumption DEF NewTimer
  <2> HIDE DEF g, n
  <2>6. /\ DOMAIN TimerGroups' = DOMAIN TimerGroups \cup {g}
        /\ TimerGroups'[g] = s
        /\ \A h \in DOMAIN TimerGroups : h # g => TimerGroups'[h] = TimerGroups[h]
    <3>1. TimerGroups \in Seq(GroupSlot) /\ s \in GroupSlot /\ g \in 1..(Len(TimerGroups) + 1)
      BY <2>2, <2>3
    <3>2. /\ DOMAIN Fill(TimerGroups, g, s) = DOMAIN TimerGroups \cup {g}
          /\ Fill(TimerGroups, g, s)[g] = s
          /\ \A h \in DOMAIN TimerGroups : h # g => Fill(TimerGroups, g, s)[h] = TimerGroups[h]
      BY <3>1, FillGroup
    <3> QED
      BY <2>1, <3>2
  <2>7. TimersStay
    BY AddGroupMoves, MoveStays
  <2>8. FreeSlot(Timers) \in RecurringTimers(Timers', g, i)
    <3>1. /\ TimerAdd(Timers, n)[FreeSlot(Timers)] = n
          /\ TimerAdd(Timers, n) \in Seq(Slot)
          /\ FreeSlot(Timers) \in DOMAIN TimerAdd(Timers, n)
      <4>1. /\ FreeSlot(Timers) \in 1..(Len(Timers) + 1)
            /\ TimerAdd(Timers, n) \in Seq(Slot)
            /\ Len(TimerAdd(Timers, n)) \in {Len(Timers), FreeSlot(Timers)}
            /\ Len(Timers) <= Len(TimerAdd(Timers, n))
            /\ TimerAdd(Timers, n)[FreeSlot(Timers)] = n
        BY <2>2, <2>5, FreeSlotProperty, TimerAddProperty
      <4>2. Len(Timers) \in Nat /\ Len(TimerAdd(Timers, n)) \in Nat
        BY <2>2, <4>1
      <4>3. FreeSlot(Timers) \in 1..Len(TimerAdd(Timers, n))
        <5>1. CASE FreeSlot(Timers) > Len(Timers)
          <6>1. TimerAdd(Timers, n) = Append(Timers, n)
            BY <5>1 DEF TimerAdd
          <6>2. Len(TimerAdd(Timers, n)) = Len(Timers) + 1
            BY <2>2, <2>5, <6>1
          <6> QED
            BY <4>1, <4>2, <6>2
        <5>2. CASE ~(FreeSlot(Timers) > Len(Timers))
          BY <4>1, <4>2, <5>2
        <5> QED
          BY <5>1, <5>2
      <4> QED
        BY <4>1, <4>3
    <3> QED
      BY <2>1, <2>5, <3>1 DEF RecurringTimers, ActiveSlots
  <2>9. /\ ActiveGroups(TimerGroups') = ActiveGroups(TimerGroups) \cup {g}
        /\ \A h \in ActiveGroups(TimerGroups) :
             /\ TimerGroups'[h] = TimerGroups[h] /\ h # g
             /\ TimerGroups[h].interval # i
             /\ h \in 1..GroupLimit
    BY <2>2, <2>3, <2>6, TimerGroupAssumption DEF ActiveGroups, GroupTables, GroupsOf
  <2>10. \A h \in ActiveGroups(TimerGroups') :
           RecurringTimers(Timers', h, TimerGroups'[h].interval) # {}
    BY <2>2, <2>6, <2>7, <2>8, <2>9 DEF Served, TimersStay
  <2>11. /\ \A j : GroupsOf(TimerGroups, j) # {} => GroupsOf(TimerGroups', j) # {}
         /\ GroupsOf(TimerGroups', i) # {}
    BY <2>2, <2>6, <2>9 DEF GroupsOf
  <2>12. \A h, j \in ActiveGroups(TimerGroups') :
           TimerGroups'[h].interval = TimerGroups'[j].interval => h = j
    BY <2>2, <2>6, <2>9 DEF Served
  <2> QED
    BY <2>10, <2>11, <2>12
<1> QED
  BY <1>1, <1>2

LEMMA AddWidgetServed ==
  ASSUME GroupTables, Served, CanAdd(Timers),
         NEW w \in Widgets, NEW i \in Intervals, NEW o \in BOOLEAN, AddWidget(w, i, o)
  PROVE  Served'
<1>1. /\ \A g, h \in ActiveGroups(TimerGroups') :
           TimerGroups'[g].interval = TimerGroups'[h].interval => g = h
      /\ \A g \in ActiveGroups(TimerGroups') :
           RecurringTimers(Timers', g, TimerGroups'[g].interval) # {}
      /\ \A j : GroupsOf(TimerGroups, j) # {} => GroupsOf(TimerGroups', j) # {}
      /\ GroupReady(i) => GroupsOf(TimerGroups', i) # {}
  <2>1. CASE GroupsOf(TimerGroups, i) = {}
    BY <2>1, AddGroupServed DEF AddWidget
  <2>2. CASE GroupsOf(TimerGroups, i) # {}
    <3>1. UNCHANGED <<TimerGroups, Timers>>
      BY <2>2 DEF AddWidget
    <3> QED
      BY <2>2, <3>1 DEF Served
  <2> QED
    BY <2>1, <2>2
<1>2. \A x \in ActiveWidgets(TimerGroupWidgets') :
        GroupsOf(TimerGroups', TimerGroupWidgets'[x].interval) # {}
  <2>1. CASE UNCHANGED TimerGroupWidgets
    BY <1>1, <2>1 DEF Served, ActiveWidgets
  <2>2. CASE WidgetAdded(w, i, o) /\ GroupReady(i)
    <3> DEFINE k == FirstFree(TimerGroupWidgets)
    <3>1. /\ DOMAIN TimerGroupWidgets' = DOMAIN TimerGroupWidgets \cup {k}
          /\ TimerGroupWidgets'[k].interval = i
          /\ \A x \in DOMAIN TimerGroupWidgets :
                x # k => TimerGroupWidgets'[x] = TimerGroupWidgets[x]
      BY <2>2, WidgetAddedProperty
    <3> HIDE DEF k
    <3> QED
      BY <1>1, <2>2, <3>1 DEF Served, ActiveWidgets
  <2>3. UNCHANGED TimerGroupWidgets \/ (WidgetAdded(w, i, o) /\ GroupReady(i))
    BY DEF AddWidget, WidgetAdded
  <2> QED
    BY <2>1, <2>2, <2>3
<1> QED
  BY <1>1, <1>2 DEF Served

\* A released widget slot, and its group if it was the last member.
LEMMA ReleaseServed ==
  ASSUME GroupTables, Served, NEW k \in ActiveWidgets(TimerGroupWidgets),
         TimerGroupWidgets' = [TimerGroupWidgets EXCEPT ![k].active = FALSE],
         RemoveEmptyGroup(TimerGroupWidgets', TimerGroupWidgets[k].interval),
         UNCHANGED called
  PROVE  Served'
<1> DEFINE i == TimerGroupWidgets[k].interval
<1>1. /\ DOMAIN TimerGroupWidgets' = DOMAIN TimerGroupWidgets
      /\ \A x \in DOMAIN TimerGroupWidgets :
              /\ TimerGroupWidgets'[x].interval = TimerGroupWidgets[x].interval
              /\ TimerGroupWidgets'[x].active <=> TimerGroupWidgets[x].active /\ x # k
  BY ReleaseWidget DEF GroupTables, ActiveWidgets
<1>2. TimersStay
  BY RemoveEmptyGroupMoves, MoveStays
<1>3. \A x \in ActiveWidgets(TimerGroupWidgets') :
        /\ x \in ActiveWidgets(TimerGroupWidgets)
        /\ TimerGroupWidgets'[x].interval = TimerGroupWidgets[x].interval
  BY <1>1 DEF ActiveWidgets
<1>4. \A g \in ActiveGroups(TimerGroups) : g \in 1..GroupLimit
  BY TimerGroupAssumption DEF GroupTables, ActiveGroups
<1>5. CASE UNCHANGED <<TimerGroups, Timers>>
  BY <1>3, <1>5 DEF Served
<1>6. CASE ~UNCHANGED <<TimerGroups, Timers>>
  <2> DEFINE g == Min(GroupsOf(TimerGroups, i))
  <2>1. /\ MembersOf(TimerGroupWidgets', i) = {} /\ GroupsOf(TimerGroups, i) # {}
        /\ TimerGroups' = [TimerGroups EXCEPT ![g].active = FALSE]
    BY <1>6 DEF RemoveEmptyGroup
  <2>2. g \in GroupsOf(TimerGroups, i)
    <3>1. GroupsOf(TimerGroups, i) \in SUBSET Nat
      BY DEF GroupTables, GroupsOf, ActiveGroups
    <3> QED
      BY <2>1, <3>1, MinProperty
  <2> HIDE DEF g
  <2>3. g \in DOMAIN TimerGroups /\ TimerGroups[g].interval = i
    BY <2>2 DEF GroupsOf, ActiveGroups
  <2>4. /\ DOMAIN TimerGroups' = DOMAIN TimerGroups
        /\ \A h \in DOMAIN TimerGroups :
             /\ TimerGroups'[h].interval = TimerGroups[h].interval
             /\ TimerGroups'[h].active <=> TimerGroups[h].active /\ h # g
    BY <2>1, <2>3, ReleaseGroup DEF GroupTables
  <2>5. \A h : h \in ActiveGroups(TimerGroups') <=> h \in ActiveGroups(TimerGroups) /\ h # g
    BY <2>4 DEF ActiveGroups
  <2>6. \A h \in ActiveGroups(TimerGroups') :
          TimerGroups'[h].interval = TimerGroups[h].interval
    BY <2>4 DEF ActiveGroups
  <2>7. \A h, j \in ActiveGroups(TimerGroups') :
           TimerGroups'[h].interval = TimerGroups'[j].interval => h = j
    BY <2>5, <2>6 DEF Served
  <2>8. \A h \in ActiveGroups(TimerGroups') :
          RecurringTimers(Timers', h, TimerGroups'[h].interval) # {}
    BY <1>2, <1>4, <2>5, <2>6 DEF Served, TimersStay
  <2>9. \A x \in ActiveWidgets(TimerGroupWidgets') :
          GroupsOf(TimerGroups', TimerGroupWidgets'[x].interval) # {}
    <3> SUFFICES ASSUME NEW x \in ActiveWidgets(TimerGroupWidgets')
                 PROVE  GroupsOf(TimerGroups', TimerGroupWidgets'[x].interval) # {}
      OBVIOUS
    <3>1. TimerGroupWidgets'[x].interval # i
      BY <2>1 DEF MembersOf
    <3>2. PICK h \in GroupsOf(TimerGroups, TimerGroupWidgets'[x].interval) : TRUE
      BY <1>3 DEF Served
    <3>3. h \in ActiveGroups(TimerGroups) /\ h # g
          /\ TimerGroups[h].interval = TimerGroupWidgets'[x].interval
      BY <2>3, <3>1, <3>2 DEF GroupsOf
    <3> QED
      BY <2>5, <2>6, <3>3 DEF GroupsOf
  <2> QED
    BY <2>7, <2>8, <2>9 DEF Served
<1> QED
  BY <1>5, <1>6

LEMMA ServedNext ==
  GroupTables /\ Served /\ CanAdd(Timers) /\ [GroupNext]_allVars => Served'
<1> SUFFICES ASSUME GroupTables, Served, CanAdd(Timers), [GroupNext]_allVars
             PROVE  Served'
  OBVIOUS
<1>1. ASSUME NEW w \in Widgets, InitWidget(w) PROVE Served'
  <2>1. PICK i \in Intervals : AddWidget(w, i, w \in Rearming \/ i = 0)
    BY <1>1 DEF InitWidget
  <2> QED
    BY <2>1, AddWidgetServed
<1>2. ASSUME NEW w \in Widgets, RetireWidget(w) PROVE Served'
  <2>1. PICK k \in ActiveWidgets(TimerGroupWidgets) :
              /\ TimerGroupWidgets' = [TimerGroupWidgets EXCEPT ![k].active = FALSE]
              /\ RemoveEmptyGroup(TimerGroupWidgets', TimerGroupWidgets[k].interval)
    BY <1>2, RemoveWidgetMoves DEF RetireWidget
  <2>2. UNCHANGED called
    BY <1>2 DEF RetireWidget, RemoveWidget
  <2> QED
    BY <2>1, <2>2, ReleaseServed
<1>3. ASSUME NEW d \in Drivers, InitDriver(d) PROVE Served'
  <2>1. PICK i \in Intervals : Add(d, i, FALSE)
    BY <1>3 DEF InitDriver
  <2>2. d \in Clients /\ Timers \in Seq(Slot) /\ clock \in Int
    BY TimerGroupAssumption DEF GroupTables, TypeOK
  <2>3. Timers' = TimerAdd(Timers, NewTimer(d, i, FALSE, clock))
    BY <2>1 DEF Add
  <2>4. /\ Timers' \in Seq(Slot) /\ Len(Timers) <= Len(Timers')
        /\ \A t \in ActiveSlots(Timers) : Timers'[t] = Timers[t]
    <3>1. Timers' \in Seq(Slot) /\ Len(Timers) <= Len(Timers')
      <4>1. NewTimer(d, i, FALSE, clock) \in Slot
        BY <2>2, NewTimerType
      <4> QED
        BY <2>2, <2>3, <4>1, TimerAddProperty
    <3>2. TypeOK
      BY DEF GroupTables
    <3>3. \A t \in ActiveSlots(Timers) : Timers'[t] = Timers[t]
      BY <2>2, <2>3, <3>2, AddKeeps
    <3> QED
      BY <3>1, <3>3
  <2>5. TimersStay
    <3>1. \A t \in DOMAIN Timers : t \in DOMAIN Timers'
      BY <2>2, <2>4
    <3> QED
      BY <2>4, <3>1 DEF TimersStay, RecurringTimers, ActiveSlots
  <2> QED
    BY <1>3, <2>5, ServedKept DEF InitDriver, groupVars
<1>4. CASE RearmWidget
  <2>1. PICK i \in Intervals : AddWidget(Rearmed, i, TRUE)
    BY <1>4 DEF RearmWidget
  <2>2. Rearmed \in Widgets
    BY <1>4, TimerGroupAssumption DEF RearmWidget
  <2> QED
    BY <2>1, <2>2, AddWidgetServed
<1>5. CASE ReturnWidget
  <2>1. /\ widget \in ActiveWidgets(TimerGroupWidgets)
        /\ TimerGroupWidgets[widget].interval = interval
    <3>1. step = "callback" /\ TimerGroupWidgets \in Seq(WidgetSlot)
          /\ widget \in Nat \ {0} /\ widget <= Len(TimerGroupWidgets) /\ Member(widget)
      BY <1>5, TimerGroupAssumption DEF ReturnWidget, GroupTables
    <3>2. widget \in DOMAIN TimerGroupWidgets
      BY <3>1
    <3> QED
      BY <3>1, <3>2 DEF Member, ActiveWidgets
  <2>2. CASE TimerGroupWidgets[widget].one_shot
    <3>1. /\ TimerGroupWidgets' = [TimerGroupWidgets EXCEPT ![widget].active = FALSE]
          /\ RemoveEmptyGroup(TimerGroupWidgets', interval)
          /\ UNCHANGED called
      BY <1>5, <2>2 DEF ReturnWidget
    <3> QED
      BY <2>1, <3>1, ReleaseServed
  <2>3. CASE ~TimerGroupWidgets[widget].one_shot
    BY <1>5, <2>3 DEF ReturnWidget, Served
  <2> QED
    BY <2>2, <2>3
<1>6. CASE EnterGroup \/ SkipWidget \/ CallWidget
  BY <1>6 DEF EnterGroup, SkipWidget, CallWidget, vars, Served
<1>7. CASE LeaveGroup \/ DriverReturn
  <2>1. Return /\ UNCHANGED <<TimerGroups, TimerGroupWidgets>>
    BY <1>7 DEF LeaveGroup, DriverReturn, groupVars
  <2> QED
    BY <2>1, ReturnKeeps, SameTimersStay, ServedKept DEF GroupTables
<1>8. CASE MainLoop
  <2>1. CASE pc' = "exit"
    <3>1. TimerGroups' = <<>> /\ TimerGroupWidgets' = <<>>
      BY <1>8, <2>1 DEF MainLoop, TimerExitGroup
    <3> QED
      BY <3>1 DEF Served, ActiveGroups, ActiveWidgets
  <2>2. CASE pc' # "exit"
    <3>1. UNCHANGED <<TimerGroups, TimerGroupWidgets>>
      BY <1>8, <2>2 DEF MainLoop
    <3>2. /\ DOMAIN Timers' = DOMAIN Timers
          /\ \A t \in DOMAIN Timers :
               SameTimer(t) /\ Timers'[t].active = Timers[t].active
      BY <1>8, <2>2, MainLoopKeeps DEF GroupTables
    <3> QED
      BY <3>1, <3>2, SameTimersStay, ServedKept
  <2> QED
    BY <2>1, <2>2
<1>9. CASE GroupTick \/ UNCHANGED allVars
  BY <1>9 DEF GroupTick, Tick, allVars, vars, groupVars, Served
<1> QED
  BY <1>1, <1>2, <1>3, <1>4, <1>5, <1>6, <1>7, <1>8, <1>9 DEF GroupNext, ProcessGroup

\* As long as timer_add() finds a slot or memory for one, every widget that waits
\* for its call has exactly one active group, with a recurring generic timer.
THEOREM WidgetsServed == GroupSpec /\ []CanAdd(Timers) => []WidgetServed
<1>1. GroupInit => Served
  BY DEF GroupInit, Init, Served, ActiveGroups, ActiveWidgets
<1>2. Served => WidgetServed
  <2> SUFFICES ASSUME Served, NEW x \in ActiveWidgets(TimerGroupWidgets)
               PROVE  \E g \in ActiveGroups(TimerGroups) :
                        /\ GroupsOf(TimerGroups, TimerGroupWidgets[x].interval) = {g}
                        /\ \E t \in TimersOf(g) :
                             /\ Timers[t].interval = TimerGroupWidgets[x].interval
                             /\ ~Timers[t].one_shot
    BY DEF WidgetServed
  <2>1. PICK g \in GroupsOf(TimerGroups, TimerGroupWidgets[x].interval) : TRUE
    BY DEF Served
  <2>2. /\ g \in ActiveGroups(TimerGroups)
        /\ TimerGroups[g].interval = TimerGroupWidgets[x].interval
    BY <2>1 DEF GroupsOf
  <2>3. GroupsOf(TimerGroups, TimerGroupWidgets[x].interval) = {g}
    BY <2>1, <2>2 DEF Served, GroupsOf
  <2>4. PICK t \in RecurringTimers(Timers, g, TimerGroups[g].interval) : TRUE
    BY <2>2 DEF Served
  <2> QED
    BY <2>2, <2>3, <2>4 DEF RecurringTimers, TimersOf
<1>3. GroupSpec => []GroupTables
  BY GroupTablesInit, GroupTablesNext, PTL DEF GroupSpec
<1> QED
  BY <1>1, <1>2, <1>3, ServedNext, PTL DEF GroupSpec

\* The invariant the run checks.
THEOREM GroupInvariant == GroupSpec /\ []CanAdd(Timers) => []GroupInv
  BY GroupTypeCorrect, WidgetsServed, PTL DEF GroupInv
=============================================================================
