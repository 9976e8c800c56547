---------------------------- MODULE LineStore ----------------------------
(* What the table of a plugin promises: the last line read of every key.  A
   read takes the lines the source has at that moment for some of the keys; no
   line is ever lost, and none changes but by a read.  Only a forgetful plugin
   may lose what it has read, all of it, until the next read. *)

CONSTANTS KeySet, Lines

VARIABLES
    source,     \* the lines that can be read, <<>> for a key that has none
    store,      \* the last line of each key that was read
    forgetful,  \* may the lines be lost?
    lost        \* they are: nothing can be told

Init ==
    /\ source \in [KeySet -> Lines]
    /\ store = <<>>
    /\ forgetful \in BOOLEAN
    /\ lost = forgetful

Read(S) ==
    /\ \A k \in S : source[k] # <<>>
    /\ store' = [k \in S \union DOMAIN store |-> IF k \in S THEN source[k] ELSE store[k]]
    /\ lost' = FALSE
    /\ UNCHANGED <<source, forgetful>>

\* A read that fails.
Lose == forgetful /\ lost' = TRUE /\ UNCHANGED <<source, store, forgetful>>

\* The source changes on its own.
Change == source' \in [KeySet -> Lines] /\ UNCHANGED <<store, forgetful, lost>>

Next == Change \/ Lose \/ \E S \in SUBSET KeySet : Read(S)

Spec == Init /\ [][Next]_<<source, store, forgetful, lost>>
==========================================================================
