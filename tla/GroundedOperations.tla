-------------------------- MODULE GroundedOperations --------------------------
(***************************************************************************)
(* The registry of active model operations                                 *)
(* (packages/daemon/src/services/grounded-analysis/                        *)
(* active-operation-registry.ts).  Every model job of the daemon registers *)
(* one operation; its owner may cancel it, its transport may vanish, and   *)
(* the job itself terminalizes it.  A job about to publish first RESERVES  *)
(* the terminal outcome: until it commits or releases the reservation an   *)
(* interruption is refused, or, for a job that asked for it, deferred.     *)
(*                                                                         *)
(* This module has no state of its own: it is the registry's functions on  *)
(* one operation's record.  Reflections and AnalystTurns keep the    *)
(* records in their variables.                                             *)
(***************************************************************************)

None == "none"

\* What interrupts a job from outside, and how a job ends by itself.
Interruptions == {"cancelled", "transport-lost"}
OwnOutcomes == {"completed", "failed"}
Outcomes == OwnOutcomes \cup Interruptions

\* One record of the registry.  "absent": not in the map (not yet started, or
\* cleaned up).  "claimed" stays once a transport was attached; "attached" is
\* whether it still is.
Operation ==
  [state    : {"absent", "active", "terminal"},
   outcome  : Outcomes \cup {None},
   aborted  : BOOLEAN,
   claimed  : BOOLEAN,
   attached : BOOLEAN,
   reserved : BOOLEAN,
   defers   : BOOLEAN,
   pending  : Interruptions \cup {None}]

NoOperation ==
  [state |-> "absent", outcome |-> None, aborted |-> FALSE, claimed |-> FALSE,
   attached |-> FALSE, reserved |-> FALSE, defers |-> FALSE, pending |-> None]

\* start
Started == [NoOperation EXCEPT !.state = "active"]

\* commitOutcome: every outcome but "completed" aborts the job's signal.
CommittedOutcome(o, outcome) ==
  IF o.state # "active" THEN o
  ELSE [o EXCEPT !.state = "terminal", !.outcome = outcome,
                 !.aborted = @ \/ outcome # "completed"]

\* terminalize: refused while the outcome is reserved.
Terminalized(o, outcome) ==
  IF o.reserved THEN o ELSE CommittedOutcome(o, outcome)

\* claimTransport: once per operation, and never for a finished one.
MayClaim(o) == o.state = "active" /\ ~o.claimed
Claimed(o) == [o EXCEPT !.claimed = TRUE, !.attached = TRUE]

\* The claim's release, by the handler or by the disconnect signal: the loss is
\* kept for later only when the reservation defers interruptions; under a plain
\* reservation it is forgotten.
Detached(o) ==
  LET gone == [o EXCEPT !.attached = FALSE]
  IN  IF ~o.attached \/ o.state # "active" THEN gone
      ELSE IF o.reserved /\ o.defers
      THEN [gone EXCEPT !.pending = IF @ = None THEN "transport-lost" ELSE @]
      ELSE Terminalized(gone, "transport-lost")

\* cancel: whether the caller is told the operation was cancelled, and the record after.
CancelAccepted(o) ==
  /\ o.state = "active"
  /\ o.reserved => o.defers /\ o.pending = None
\* Mutant: a reservation does not stand in the way.
CancelledAtOnce(o) == IF o.state # "active" THEN o ELSE CommittedOutcome(o, "cancelled")
Cancelled(o) ==
  IF ~CancelAccepted(o) THEN o
  ELSE IF o.reserved THEN [o EXCEPT !.pending = "cancelled"]
  ELSE CommittedOutcome(o, "cancelled")

\* reserveTerminal
MayReserve(o) == o.state = "active" /\ ~o.reserved
Reserved(o, deferInterruption) ==
  [o EXCEPT !.reserved = TRUE, !.defers = deferInterruption]

\* releaseTerminal: an interruption that was deferred takes effect now.
Released(o) ==
  LET free == [o EXCEPT !.reserved = FALSE, !.defers = FALSE, !.pending = None]
  IN  IF o.state # "active" \/ ~o.reserved THEN o
      ELSE IF o.pending = None THEN free
      ELSE CommittedOutcome(free, o.pending)

\* commitTerminal: the reserved outcome stands, a deferred interruption is dropped.
Committed(o, outcome) ==
  IF o.state # "active" \/ ~o.reserved THEN o
  ELSE CommittedOutcome([o EXCEPT !.reserved = FALSE, !.defers = FALSE,
                                  !.pending = None], outcome)

\* cleanup: the record leaves the map only when it is terminal and detached.
CleanedUp(o) ==
  IF o.state = "terminal" /\ ~o.attached THEN NoOperation ELSE o

=============================================================================
