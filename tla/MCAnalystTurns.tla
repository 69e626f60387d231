---------------------------- MODULE MCAnalystTurns ----------------------------
(***************************************************************************)
(* Two requests: two turns of one conversation or of two, under different  *)
(* request ids or one that is sent again.  There is room for two turns or, *)
(* when the second conversation has been used before, for one.             *)
(***************************************************************************)
EXTENDS AnalystTurns

CONSTANTS c1, c2

TwoCalls == {c1, c2}
Asks(v, id, k) == [conversation |-> v, id |-> id, capability |-> k]
TwoOfOne == {Asks("v", "p", "k"), Asks("v", "q", "k"), Asks("w", "q", "k")}
OtherUsed == {Asks("w", "o", "l")}
===============================================================================
