---------------------------- MODULE MCReflections ----------------------------
(***************************************************************************)
(* Reflections with one game that has a note.  With one question its       *)
(* cached result may depend on the game in any way, and the owner switches *)
(* it off or deletes everything; with two, the owner switches the second   *)
(* one off or on while a refresh is at work on the first.                  *)
(***************************************************************************)
EXTENDS Reflections

CONSTANT g1

OneGame == {g1}
OneQuestion == {1}
TwoQuestions == {1, 2}

AnyPrior == {NoDependency, FactsOnly, 1}
Endings == {r \in Request : r.kind # "enable"}
SwitchLast == [kind : {"disable", "enable"}, question : {2}]
EnableLast == {[kind |-> "enable", question |-> 2]}
=============================================================================
