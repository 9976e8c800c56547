----------------------------- MODULE MCTeakLCM -----------------------------
(* One column, an escape as the character that is written, and a key. *)
EXTENDS TeakLCM
MCCharacters == {27}
MCKeys == {49}
=============================================================================
