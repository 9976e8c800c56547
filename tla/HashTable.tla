---------------------------- MODULE HashTable ----------------------------
(* The tables of hash.c, in which the plugins keep the lines they read.
   A value is the sequence of its columns.  A slot is a value and the time
   at which it was stored; time 0 is a slot that was never used.  The order of
   the items matters to bsearch() only, so sorting is the flag alone. *)
EXTENDS Integers, Sequences, FiniteSetsExt, SequencesExt

CONSTANTS
    DELTA_SLOTS,    \* slots of an item with delta processing
    Fold(_),        \* the class of the keys strcasecmp() takes for the same
    Scale           \* rates are given in 1/Scale: a multiple of every time span

\* An unused slot, and one that realloc() left uninitialised.
EmptySlot == [value |-> <<>>, timestamp |-> 0]
Uninitialised == [value |-> <<>>, timestamp |-> -1]

\* The table is empty, its time stamp zero.
hash_create == [items |-> <<>>, sorted |-> FALSE, timestamp |-> 0]

\* The items a lookup may return: bsearch() in a sorted table takes any that
\* matches without regard to case, else the first that matches exactly.
hash_lookup(tab, key) ==
    LET folded == {i \in DOMAIN tab.items : Fold(tab.items[i].key) = Fold(key)}
        exact == {i \in DOMAIN tab.items : tab.items[i].key = key}
    IN IF tab.sorted /\ folded # {} THEN folded
       ELSE {i \in exact : \A j \in exact : i <= j}

\* A lookup that sorts the table first.
Sorted(tab) == [tab EXCEPT !.sorted = TRUE]

Newest(item) == item.slot[item.index]

\* The age of a table (key "" is the NULL of the code) or an entry, -1 if there is none.
hash_age(tab, now) == now - tab.timestamp
hash_age_key(tab, key, now) ==
    LET found == hash_lookup(Sorted(tab), key)
    IN IF found = {} THEN -1
       ELSE now - Newest(tab.items[CHOOSE i \in found : TRUE]).timestamp

\* The n-th column of a value, counted from 0; a negative number is the whole value.
split(val, column) ==
    IF column < 0 THEN val
    ELSE IF column < Len(val) THEN <<val[column + 1]>> ELSE <<>>

\* What atof() makes of it.
atof(val) == IF val = <<>> THEN 0 ELSE val[1]

\* The newest value of an entry; <<>> where the code returns NULL.
hash_get(tab, key, column) ==
    LET found == hash_lookup(Sorted(tab), key)
    IN IF found = {} THEN <<>>
       ELSE split(Newest(tab.items[CHOOSE i \in found : TRUE]).value, column)

\* The slot that lies i stores back.
Back(item, i) == item.slot[(item.index + i) % item.nSlot]

DeltaSlot_First_Bug(item, end) ==
    LET stops == {i \in 1 .. item.nSlot - 1 :
                    Back(item, i).timestamp = 0 \/ Back(item, i).timestamp < end}
        first == Min(stops)
    IN IF stops = {} THEN item.nSlot - 1 ELSE first - 1

\* How many stores the search for the other end of the interval goes back: to
\* the first slot that is empty or older than "end", an empty one giving way to
\* the one before, else to the last slot.
DeltaSlot(item, end) ==
    LET stops == {i \in 1 .. item.nSlot - 1 :
                    Back(item, i).timestamp = 0 \/ Back(item, i).timestamp < end}
        first == Min(stops)
    IN IF stops = {} THEN item.nSlot - 1
       ELSE IF Back(item, first).timestamp = 0 THEN first - 1 ELSE first

\* The rate of change over the last "delay", or the newest value.
ItemDelta(item, column, delay) ==
    LET s1 == Newest(item)
        i == DeltaSlot(item, s1.timestamp - delay)
        s2 == Back(item, i)
        dv == atof(split(s1.value, column)) - atof(split(s2.value, column))
        dt == s1.timestamp - s2.timestamp
    IN IF delay = 0 THEN Scale * atof(split(s1.value, column))
       ELSE IF i # 0 /\ dt > 0 /\ dv >= 0 THEN (Scale * dv) \div dt ELSE 0

hash_get_delta(tab, key, column, delay) ==
    LET found == hash_lookup(Sorted(tab), key)
    IN IF found = {} THEN 0
       ELSE ItemDelta(tab.items[CHOOSE i \in found : TRUE], column, delay)

\* The sum over the entries a pattern matches; the pattern is the set of its keys.
hash_get_regex(tab, keys, column, delay) ==
    LET sum[n \in 0 .. Len(tab.items)] ==
          IF n = 0 THEN 0
          ELSE sum[n - 1] + (IF tab.items[n].key \notin keys THEN 0
                             ELSE hash_get_delta(tab, tab.items[n].key, column, delay))
    IN sum[Len(tab.items)]

\* A new item has "delta" empty slots.
NewItem(key, delta) ==
    [key |-> key, nSlot |-> delta, index |-> 0,
     slot |-> [i \in 0 .. delta - 1 |-> EmptySlot]]

\* An item with fewer slots gets more, which nobody initialises.
Enlarged(item, delta) ==
    IF item.nSlot >= delta THEN item
    ELSE [item EXCEPT !.nSlot = delta,
          !.slot = [i \in 0 .. delta - 1 |->
                      IF i < item.nSlot THEN item.slot[i] ELSE Uninitialised]]

\* Index of the slot that is overwritten next.
Previous(item) ==
    IF item.nSlot = 1 THEN item.index
    ELSE IF item.index = 0 THEN item.nSlot - 1 ELSE item.index - 1

Stored(item, value, now) ==
    LET k == Previous(item)
    IN [item EXCEPT !.index = k, !.slot[k] = [value |-> value, timestamp |-> now]]

hash_set_NoGrow_Bug(tab, key, value, delta, now) ==
    LET found == hash_lookup(tab, key)
        i == CHOOSE j \in found : TRUE
        n == Max({1, Len(tab.items)})
        new == Stored(NewItem(key, delta), value, now)
    IN IF found = {}
       THEN [tab EXCEPT !.sorted = FALSE, !.timestamp = now,
               !.items = IF @ = <<>> THEN <<new>> ELSE [@ EXCEPT ![n] = new]]
       ELSE [tab EXCEPT !.timestamp = now, !.items[i] = Stored(@, value, now)]

\* Insert or overwrite an entry; a new one is appended, and the table is unsorted.
hash_set(tab, key, value, delta, now) ==
    LET found == hash_lookup(tab, key)
        i == CHOOSE j \in found : TRUE
    IN IF found = {}
       THEN [tab EXCEPT !.sorted = FALSE, !.timestamp = now,
               !.items = Append(@, Stored(NewItem(key, delta), value, now))]
       ELSE [tab EXCEPT !.timestamp = now,
               !.items[i] = Stored(Enlarged(@, delta), value, now)]

hash_put(tab, key, value, now) == hash_set(tab, key, value, 1, now)
hash_put_delta(tab, key, value, now) == hash_set(tab, key, value, DELTA_SLOTS, now)
==========================================================================
