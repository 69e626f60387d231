--------------------------- MODULE MCSourceStorage ---------------------------
(***************************************************************************)
(* SourceStorage with two files, the collection and one settings file.     *)
(* Saves and captures of old files meet an editor who writes twice, or one *)
(* who writes once and a call that fails: the same data at the revision of *)
(* the daemon's, or something that is no settings at all.  All four        *)
(* operations together meet one who puts back an old file, and a failing   *)
(* call, where the settings file is not one that is marked.                *)
(***************************************************************************)
EXTENDS SourceStorage

CONSTANTS collection, settings, d1, d2

Captures(writes, failures) ==
  [operations |-> {"save", "capture"}, unmarked |-> {}, found |-> "legacy",
   missing |-> Files, texts |-> {Text(d2, 1, "canonical"), Text(Broken, 0, "broken")},
   edits |-> writes, faults |-> failures]
Together ==
  [operations |-> {"load", "save", "capture", "authority"}, unmarked |-> {settings},
   found |-> "canonical", missing |-> {settings}, texts |-> {Text(d2, -1, "legacy")},
   edits |-> 1, faults |-> 1]
AnyCircumstances == {Captures(2, 0), Captures(1, 1), Together}
=============================================================================
