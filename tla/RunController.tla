---------------------------- MODULE RunController ----------------------------
(***************************************************************************)
(* Who may start a run of similarity judgments (jev-run-controller.ts).    *)
(*                                                                         *)
(* A preview discloses a run and issues one authorization, a request id    *)
(* and a precondition, which stand for each other here: authorizations are *)
(* numbered in the order they are issued.  A start names both.  It waits   *)
(* three times for sources to be read, then up to MaxAttempts times for    *)
(* the source coordinator, under which it admits the run.  At every wait   *)
(* time passes, sources, wishlist and judgments change, and other starts   *)
(* are served.  Receipts make a repeated start join the first one.         *)
(*                                                                         *)
(* The run service is kept to what the controller sees of it: the run it   *)
(* is executing and the batch that is stored for it (JevRun has the rest). *)
(***************************************************************************)
EXTENDS Integers, FiniteSets

CONSTANTS MaxPreviews,        \* bound: previews that are ever answered
          WishlistPreviews,   \* those of a wishlist run; the others are of the collection
          MaxAuthorizations,  \* MAX_RECEIPTS as trimAuthorizations uses it
          MaxReceipts,        \* maxReceipts()
          MaxAttempts,        \* MAX_PROVIDER_READINESS_ATTEMPTS
          MaxChanges,         \* bound: changes of sources, wishlist and judgments together
          None

Previews == 1..MaxPreviews

ASSUME ControllerAssumption ==
  /\ MaxPreviews \in Nat /\ WishlistPreviews \subseteq Previews
  /\ MaxAuthorizations \in Nat /\ MaxReceipts \in Nat /\ MaxAttempts \in Nat \ {0}
  /\ MaxChanges \in Nat
  /\ None \notin Previews

VARIABLES
  sources,         \* [version, notes]: what the source and policy identities hash
  wishlist,        \* wishlistMutationGeneration
  judgments,       \* the cache: [revision, complete]
  configured,      \* whether there is a provider key; read from the environment
  authorizations,  \* the records of `authorizations`, and those dropped from it
  receipts,
  starts,          \* the start that is being prepared under each request id
  activeHandle,    \* the authorization of the run the controller calls active
  running,         \* and of the run in the service's activeRuns
  batch            \* whether a batch is stored, active or sealed

world == <<sources, wishlist, judgments, configured>>
service == <<running, batch>>
vars == <<world, authorizations, receipts, starts, activeHandle, service>>

Authorization ==
  [state    : {"absent", "held", "dropped"},
   sources  : 0..MaxChanges,
   wishlist : 0..MaxChanges,
   expired  : BOOLEAN,      \* expiresAtMs has passed
   consumed : BOOLEAN,
   executed : BOOLEAN]      \* executionStarted of the frozen run
Unissued == [state |-> "absent", sources |-> 0, wishlist |-> 0,
             expired |-> FALSE, consumed |-> FALSE, executed |-> FALSE]

Receipt == [state : {"absent", "pending", "active", "replay"}, expired : BOOLEAN]
NoReceipt == [state |-> "absent", expired |-> FALSE]

Waiting == {"checking", "permission", "validating", "scanning", "admission"}
Readiness == [revision : 0..MaxChanges, requiresProvider : BOOLEAN]
Start ==
  [stage : {"idle"} \cup Waiting, notes : BOOLEAN, attempt : 0..MaxAttempts - 1, seen : Readiness]
Unseen == [revision |-> 0, requiresProvider |-> FALSE]
NoStart == [stage |-> "idle", notes |-> FALSE, attempt |-> 0, seen |-> Unseen]

TypeOK ==
  /\ sources \in [version : 0..MaxChanges, notes : BOOLEAN]
  /\ wishlist \in 0..MaxChanges
  /\ judgments \in [revision : 0..MaxChanges, complete : BOOLEAN]
  /\ configured \in BOOLEAN
  /\ authorizations \in [Previews -> Authorization]
  /\ receipts \in [Previews -> Receipt]
  /\ starts \in [Previews -> Start]
  /\ activeHandle \in Previews \cup {None}
  /\ running \in Previews \cup {None}
  /\ batch \in BOOLEAN

Init ==
  /\ sources \in [version : {0}, notes : BOOLEAN]
  /\ wishlist = 0
  /\ judgments \in [revision : {0}, complete : BOOLEAN]
  /\ configured \in BOOLEAN
  /\ authorizations = [p \in Previews |-> Unissued]
  /\ receipts = [p \in Previews |-> NoReceipt]
  /\ starts = [p \in Previews |-> NoStart]
  /\ activeHandle = None
  /\ running = None
  /\ batch = FALSE

(***************************************************************************)
(* What the disclosure froze.                                              *)
(***************************************************************************)
\* The vector and the policy an authorization records.
SourcesMatch(p) == authorizations[p].sources = sources.version
\* isSourceCurrent, isAuthorized and isCalculationCurrent of what was prepared
StillCurrent(p) == SourcesMatch(p) /\ authorizations[p].wishlist = wishlist

(***************************************************************************)
(* Previews.                                                               *)
(***************************************************************************)
Held(a) == {p \in Previews : a[p].state = "held"}
\* trimAuthorizations: the oldest goes.
Trimmed(a) ==
  [p \in Previews |->
    IF /\ Cardinality(Held(a)) > MaxAuthorizations
       /\ p \in Held(a) /\ \A q \in Held(a) : p <= q
    THEN [a[p] EXCEPT !.state = "dropped"] ELSE a[p]]

\* A preview that was refused leaves nothing.  One that is answered has just seen its
\* sources current, so what it waited for before is of no account.
Preview(p) ==
  /\ authorizations[p].state = "absent"
  /\ \A q \in Previews : q < p => authorizations[q].state # "absent"
  /\ authorizations' =
       Trimmed([authorizations EXCEPT ![p].state = "held",
                                      ![p].sources = sources.version,
                                      ![p].wishlist = wishlist])
  /\ UNCHANGED <<world, receipts, starts, activeHandle, service>>

(***************************************************************************)
(* Receiving a start.                                                      *)
(***************************************************************************)
\* expireRecords
KeptAuthorizations ==
  [p \in Previews |-> IF authorizations[p].state = "held" /\ authorizations[p].expired
                      THEN [authorizations[p] EXCEPT !.state = "dropped"]
                      ELSE authorizations[p]]
\* Mutant: whatever is old enough goes, the pending ones too.
KeptUnexpired ==
  [p \in Previews |-> IF receipts[p].expired THEN NoReceipt ELSE receipts[p]]
KeptReceipts ==
  [p \in Previews |-> IF receipts[p].state = "replay" /\ receipts[p].expired
                      THEN NoReceipt ELSE receipts[p]]

Kept(r) == {p \in Previews : r[p].state # "absent"}

\* A start that names a receipt is told to wait for its answer, is told that answer, or
\* conflicts with it; one whose authorization is not held, or is another request's, or that
\* finds no room for a receipt, is refused.  None of them changes more than what expires.
Answer(p) ==
  /\ authorizations[p].state # "absent"
  /\ authorizations' = KeptAuthorizations
  /\ receipts' = KeptReceipts
  /\ UNCHANGED <<world, starts, activeHandle, service>>

\* Notes are never part of a wishlist run, and such a start is refused before it waits.
Receive(p, notes) ==
  /\ KeptReceipts[p].state = "absent"
  /\ KeptAuthorizations[p].state = "held"
  /\ Cardinality(Kept(KeptReceipts)) < MaxReceipts
  /\ p \in WishlistPreviews => ~notes
  /\ authorizations' = KeptAuthorizations
  /\ receipts' = [KeptReceipts EXCEPT ![p] = [state |-> "pending", expired |-> FALSE]]
  /\ starts' = [starts EXCEPT ![p] = [NoStart EXCEPT !.stage = "checking", !.notes = notes]]
  /\ UNCHANGED <<world, activeHandle, service>>

(***************************************************************************)
(* Preparing the start.                                                    *)
(***************************************************************************)
Goes(p, stage) ==
  /\ starts' = [starts EXCEPT ![p].stage = stage]
  /\ UNCHANGED receipts

\* An answer other than "started" forgets the receipt.
Refuse(p) ==
  /\ starts' = [starts EXCEPT ![p] = NoStart]
  /\ receipts' = [receipts EXCEPT ![p] = NoReceipt]

\* isSourceCurrent; the notes are asked for where the scope has some.
Check(p) ==
  /\ starts[p].stage = "checking"
  /\ IF ~StillCurrent(p) THEN Refuse(p)
     ELSE Goes(p, IF starts[p].notes THEN "permission" ELSE "validating")
  /\ UNCHANGED <<world, authorizations, activeHandle, service>>

Permit(p) ==
  /\ starts[p].stage = "permission"
  /\ IF sources.notes THEN Goes(p, "validating") ELSE Refuse(p)
  /\ UNCHANGED <<world, authorizations, activeHandle, service>>

\* prepareValidatedPreparedRun
Validate(p) ==
  /\ starts[p].stage = "validating"
  /\ IF StillCurrent(p) THEN Goes(p, "scanning") ELSE Refuse(p)
  /\ UNCHANGED <<world, authorizations, activeHandle, service>>

\* scanUnifiedProviderReadiness; with a provider nothing is scanned.
Scan(p) ==
  /\ starts[p].stage = "scanning"
  /\ starts' = [starts EXCEPT
       ![p].stage = "admission",
       ![p].seen = IF configured THEN Unseen
                   ELSE [revision |-> judgments.revision,
                         requiresProvider |-> ~judgments.complete]]
  /\ UNCHANGED <<world, authorizations, receipts, activeHandle, service>>

(***************************************************************************)
(* The admission, under the source coordinator.                            *)
(***************************************************************************)
\* Mutant: the sources are not compared.
AdmissibleUncompared(p) ==
  /\ ~authorizations[p].expired /\ ~authorizations[p].consumed
  /\ starts[p].notes => sources.notes
  /\ activeHandle = None
Admissible(p) ==
  /\ ~authorizations[p].expired /\ ~authorizations[p].consumed
  /\ SourcesMatch(p)
  /\ starts[p].notes => sources.notes
  /\ activeHandle = None

\* Mutant: what the scan found is believed.
NeverOutdated(p) == FALSE
\* Judgments came or went since the scan.
Outdated(p) == ~configured /\ starts[p].seen.revision # judgments.revision
LacksProvider(p) == ~configured /\ starts[p].seen.requiresProvider
LastAttempt(p) == starts[p].attempt + 1 = MaxAttempts

Ready(p) == Admissible(p) /\ ~Outdated(p) /\ ~LacksProvider(p)

Decline(p) ==
  /\ starts[p].stage = "admission"
  /\ IF Admissible(p) /\ Outdated(p) THEN LastAttempt(p) ELSE ~Ready(p)
  /\ Refuse(p)
  /\ UNCHANGED <<world, authorizations, activeHandle, service>>

ScanAgain(p) ==
  /\ starts[p].stage = "admission"
  /\ Admissible(p) /\ Outdated(p) /\ ~LastAttempt(p)
  /\ starts' = [starts EXCEPT ![p].stage = "scanning", ![p].attempt = @ + 1]
  /\ UNCHANGED <<world, authorizations, receipts, activeHandle, service>>

\* The service is executing a run, or has a batch to resolve: it throws.
Conflict(p) ==
  /\ starts[p].stage = "admission" /\ Ready(p)
  /\ running # None \/ batch
  /\ Refuse(p)
  /\ UNCHANGED <<world, authorizations, activeHandle, service>>

\* beginExecution throws when the frozen run was begun before or is not current.
Begins(p) == StillCurrent(p) /\ ~authorizations[p].executed

\* reserveRun stores the batch and then begins the execution; acceptValidatedRun records it.
Reserve(p) ==
  /\ starts[p].stage = "admission" /\ Ready(p)
  /\ running = None /\ ~batch
  /\ batch' = TRUE
  /\ IF Begins(p)
     THEN /\ running' = p
          /\ activeHandle' = p
          /\ authorizations' = [authorizations EXCEPT ![p].consumed = TRUE, ![p].executed = TRUE]
          /\ receipts' = IF receipts[p].state = "absent" THEN receipts
                         ELSE [receipts EXCEPT ![p].state = "active", ![p].expired = FALSE]
          /\ starts' = [starts EXCEPT ![p] = NoStart]
     ELSE Refuse(p) /\ UNCHANGED <<running, activeHandle, authorizations>>
  /\ UNCHANGED world

(***************************************************************************)
(* The run ends.                                                           *)
(***************************************************************************)
\* settleRun; the batch is resolved, or it is still to be sealed, validated or published.
Settle ==
  /\ running # None
  /\ running' = None
  /\ batch' \in BOOLEAN
  /\ UNCHANGED <<world, authorizations, receipts, starts, activeHandle>>

\* completion's finally: the receipt may be replayed for its lifetime.
Release(p) ==
  /\ activeHandle = p /\ running # p
  /\ activeHandle' = None
  /\ receipts' = IF receipts[p].state = "absent" THEN receipts
                 ELSE [receipts EXCEPT ![p].state = "replay", ![p].expired = FALSE]
  /\ UNCHANGED <<world, authorizations, starts, service>>

\* retryPublication, and the publication that goes on after a termination: for a batch that
\* no run executes.
Resolve ==
  /\ running = None /\ batch
  /\ batch' = FALSE
  /\ UNCHANGED <<world, authorizations, receipts, starts, activeHandle, running>>

(***************************************************************************)
(* The rest of the daemon, and time.                                       *)
(***************************************************************************)
MayChange == sources.version + wishlist + judgments.revision < MaxChanges

ChangeSources ==
  /\ MayChange
  /\ sources' \in [version : {sources.version + 1}, notes : BOOLEAN]
  /\ UNCHANGED <<wishlist, judgments, configured, authorizations, receipts, starts,
                 activeHandle, service>>

ChangeWishlist ==
  /\ MayChange
  /\ wishlist' = wishlist + 1
  /\ UNCHANGED <<sources, judgments, configured, authorizations, receipts, starts,
                 activeHandle, service>>

\* With a provider the controller does not look at the judgments.
ChangeJudgments ==
  /\ ~configured
  /\ MayChange
  /\ judgments' \in [revision : {judgments.revision + 1}, complete : BOOLEAN]
  /\ UNCHANGED <<sources, wishlist, configured, authorizations, receipts, starts,
                 activeHandle, service>>

\* The two lifetimes are options of their own.  A receipt of a live run never expires.
AuthorizationExpires(p) ==
  /\ authorizations[p].state # "absent" /\ ~authorizations[p].expired
  /\ authorizations' = [authorizations EXCEPT ![p].expired = TRUE]
  /\ UNCHANGED <<world, receipts, starts, activeHandle, service>>

ReceiptExpires(p) ==
  /\ receipts[p].state \in {"pending", "replay"} /\ ~receipts[p].expired
  /\ receipts' = [receipts EXCEPT ![p].expired = TRUE]
  /\ UNCHANGED <<world, authorizations, starts, activeHandle, service>>

Prepare(p) == Check(p) \/ Permit(p) \/ Validate(p) \/ Scan(p)
Admit(p) == Decline(p) \/ ScanAgain(p) \/ Conflict(p) \/ Reserve(p)

Next ==
  \/ \E p \in Previews :
       \/ Preview(p) \/ Answer(p) \/ \E notes \in BOOLEAN : Receive(p, notes)
       \/ Prepare(p) \/ Admit(p) \/ Release(p)
       \/ AuthorizationExpires(p) \/ ReceiptExpires(p)
  \/ Settle \/ Resolve
  \/ ChangeSources \/ ChangeWishlist \/ ChangeJudgments

Spec == Init /\ [][Next]_vars

(***************************************************************************)
(* Properties.                                                             *)
(***************************************************************************)
\* The controller can reach every run that is executing: the owner can cancel it, and a
\* start that is repeated finds the receipt of that run, whatever expires meanwhile and
\* whichever other requests are received.
LiveRunIsReachable ==
  running # None => activeHandle = running /\ receipts[running].state = "active"

\* A run begins only as it was disclosed, whatever changes while its start waits: before its
\* authorization expires, once, with the sources, the policy and the wishlist of the preview,
\* with notes only where the owner permits them at that moment, and without a provider only
\* when every judgment it needs is there.
BeginsAsDisclosed ==
  [][\A p \in Previews : running # p /\ running' = p =>
       /\ ~authorizations[p].expired /\ ~authorizations[p].executed
       /\ StillCurrent(p)
       /\ starts[p].notes => sources.notes /\ p \notin WishlistPreviews
       /\ ~configured => judgments.complete]_vars

Refused(p) ==
  /\ starts[p].stage # "idle" /\ starts'[p].stage = "idle"
  /\ running' # p

\* A refused start leaves no batch behind, which would keep every later run from starting:
\* what was authorized and frozen is validated before the batch is reserved.
RefusedStartReservesNothing ==
  [][\A p \in Previews : Refused(p) => batch' = batch]_vars

\* And so it is, unless the wishlist changed since the preview.
OnlyWishlistStrandsBatch ==
  [][\A p \in Previews :
       Refused(p) /\ authorizations[p].wishlist = wishlist => batch' = batch]_vars
==============================================================================
