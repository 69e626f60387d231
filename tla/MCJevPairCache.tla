---------------------------- MODULE MCJevPairCache ----------------------------
(* Two owned games, one candidate, two runs: one pair of each domain. *)
EXTENDS JevPairCache

CONSTANTS a, b, c

MCGames == {a, b}
MCCandidates == {c}
MCPairs == {{a, b}, {b, c}}
===============================================================================
