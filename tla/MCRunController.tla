--------------------------- MODULE MCRunController ---------------------------
(* RunController with previews of the collection, and one of the wishlist. *)
EXTENDS RunController
==============================================================================
