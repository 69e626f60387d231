--------------------------- MODULE MCSnapshotCache ---------------------------
(* SnapshotCache with two requests; the collection may enable or disable semantic redundancy. *)
EXTENDS SnapshotCache

CONSTANTS r1, r2, d1, d2
==============================================================================
