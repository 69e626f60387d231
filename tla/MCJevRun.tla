------------------------------- MODULE MCJevRun -------------------------------
(* Owned games f, g and h and no wishlist; the scope is one pair or two. *)
EXTENDS JevRun, TLC

CONSTANTS f, g, h

MCGames == {f, g, h}
OnePair == {{g, h}}
TwoPairs == {{f, g}, {g, h}}

\* What may change: a text of one game, the permission for notes and the settings; or
\* something a run only sees in the source vector.
AnyMutation == {<<"sources", g, {"C"}>>, <<"sources", g, {"D"}>>,
                <<"revoke">>, <<"permit">>, <<"settings">>}
OtherMutations == {<<"other">>}

RunSymmetry == Permutations(Runs)
===============================================================================
