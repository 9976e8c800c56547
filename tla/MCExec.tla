------------------------------- MODULE MCExec -------------------------------
(***************************************************************************)
(* Small instances of Exec for TLC: no two commands have the same key.     *)
(***************************************************************************)
EXTENDS Exec

OwnKeys == [c \in Cmds |-> c]
=============================================================================
