--------------------------- MODULE MCTextDisplay ----------------------------
(***************************************************************************)
(* Small instances of TextDisplay for TLC.                                 *)
(***************************************************************************)
EXTENDS TextDisplay

\* A display with a blank and a block, as most drivers add them.
BlankAndBlock == <<AddedSegment(0, 32), AddedSegment(255, 255)>>

MCTexts == [t \in {"text"} |-> [row |-> 1, col |-> 2]]
MCStrings == {<<65>>, <<66>>, <<65, 66>>}

\* A horizontal bar of one cell, which shows large values as full, and a
\* vertical one of two cells that is filled from below.
MCBars == [b \in {"a", "b"} |->
  IF b = "a" THEN [row |-> 0, col |-> 1, dir |-> {"east"}, style |-> 0, len |-> 1]
  ELSE [row |-> 0, col |-> 0, dir |-> {"north"}, style |-> 0, len |-> 2]]
MCBarValues == {<<1, 1>>, <<3, 3>>, <<2, 6>>}

MCIcons == [i \in {"icon"} |-> [cell |-> <<1, 1>>, copies |-> {<<0, 2>>}, maps |-> 2]]
MCFrames == {-1}
\* For the run that looks at packing only: three bars, no texts and icons.
MCNothing == [x \in {} |-> x]
MCThreeBars == [b \in {"a", "b", "c"} |->
  [row |-> 0, col |-> CASE b = "a" -> 0 [] b = "b" -> 1 [] b = "c" -> 2,
   dir |-> {"east"}, style |-> 0, len |-> 1]]
MCPackValues == {<<2, 2>>, <<3, 3>>, <<2, 3>>, <<2, 4>>}
=============================================================================
