-------------------------------- MODULE JevRun --------------------------------
(***************************************************************************)
(* Similarity runs over the owner's collection (jev-run-service.ts), with  *)
(* the mutations that change what judgments are judged from                *)
(* (collection-mutation-service.ts) and the process's crashes.             *)
(*                                                                         *)
(* Four kinds of actors interleave: the worker of a run (`execute`), the   *)
(* owner and the deadline timer (`terminateRun`), the publishers of sealed *)
(* batches (`publishSealedBatch`, called by a run's finalizer, by an       *)
(* explicit retry and at startup), and the mutations.  An await is a point *)
(* where the others run.  Whatever a handler does under the source         *)
(* coordinator is one action, guarded by LockFree; a mutation, which       *)
(* awaits storage while it holds the coordinator, is several.  Storage may *)
(* fail at any call; MaxFaults bounds how often it does.                   *)
(***************************************************************************)
EXTENDS Integers, FiniteSets

CONSTANTS Games, Candidates, Pairs, Runs,  \* as in JevPairCache
          NoRow, NoBatch, NoProgress, NoRun,
          None,        \* no mutation, no answer, nothing pending
          Retries,     \* finalCaptureRetries: attempts of a publisher after its first
          Consents,    \* bound: answers of the owner about note use, a subset of BOOLEAN
          Causes,      \* bound: the terminations tried, of "owner-cancelled" and "application-deadline"
          Mutations,   \* bound: the mutations tried, a subset of Mutation
          MaxEdits,    \* bound: mutations saved
          MaxFaults,   \* bound: storage calls that fail
          MaxCrashes   \* bound: crashes of the process

VARIABLES
  judgments, staged, batch, progress, token, lastRun, fate, \* the cache (durable)
  sources,     \* the collection and its settings (durable)
  mutation,    \* the mutation that holds the coordinator, or None
  mode,        \* "up" and serving, or how far the startup has come
  worker,      \* [Runs -> RunControl and the local state of `execute`]
  publisher,   \* [Publishers -> local state of a `publishSealedBatch`]
  pending,     \* pendingFinalizations: [Runs -> what a retry needs, or None]
  completion,  \* history: [Runs -> how a run's completion promise was resolved
  faults, crashes \* how many there have been

tables == <<judgments, staged, batch, progress, token, lastRun, fate>>
processVars == <<worker, publisher, pending>>
counters == <<faults, crashes>>

(***************************************************************************)
(* Sources and evidence.  A text or a setting is its version: every change *)
(* makes a new one.  rev stands for the source vector, which every         *)
(* mutation moves; policy for what policyIdentity hashes; epoch for the    *)
(* owner-note consent epoch.                                               *)
(***************************************************************************)
Evidence == [desc : [Games -> Int], note : [Games -> Int], epoch : Int]

\* What a judgment of this kind on this pair depends on, read from `src`; -1 where it
\* depends on nothing.
EvidenceOf(kind, p, src) ==
  [desc |-> [x \in Games |-> IF x \in p /\ kind # "D_ONLY" THEN src.desc[x] ELSE -1],
   note |-> [x \in Games |-> IF x \in p /\ kind # "C_ONLY" THEN src.note[x] ELSE -1],
   epoch |-> IF kind # "C_ONLY" THEN src.epoch ELSE -1]

Stops == {"none", "owner-cancelled", "application-deadline", "limit"}
ReportsIn(states) == [state : states, stop : Stops, pairCount : Nat, done : Nat, failed : Nat]

RunningReports == ReportsIn({"running"})
TerminalReports == ReportsIn({"completed", "failed", "interrupted"})

INSTANCE JevPairCache WITH MaxToken <- 0, MaxRevision <- 0

vars == <<tables, sources, mutation, mode, processVars, completion, counters>>

Publishers == Runs \X {"finalizer", "retry"}
NoWorker == [pc |-> "none"]
IdlePublisher == [at |-> "idle", answer |-> "none"]

Sources == [desc : [Games -> Nat], note : [Games -> Nat], noteUse : BOOLEAN,
            epoch : Nat, policy : Nat, rev : Nat]
Terminations == {"owner-cancelled", "application-deadline"}
Working == {"begin", "next", "prepare", "dispatch", "sent"}
Worker ==
  [pc : Working \cup {"closing"}, capture : Sources, notes : BOOLEAN, todo : SUBSET Pairs,
   pair : Pairs \cup {{}}, kind : Kinds \cup {"none"}, stop : Stops,
   cause : Terminations \cup {"none"}, sealed : BOOLEAN, report : Reports]
PublisherAnswers == {"none", "pending", "final", "absent"}
Publisher ==
  [at : {"snapshot", "capture", "commit", "empty", "done"}, tries : Nat, report : Reports,
   prepared : Sources \cup {None}, rev : Nat, capture : Sources \cup {None},
   answer : PublisherAnswers]
Pending == [report : Reports, prepared : Sources \cup {None}]
Completion == [report : TerminalReports, outcome : PublisherAnswers \cup {"unpersisted"}]

\* A changed description touches signal C, a changed note D, a changed name both.
Mutation == {<<"sources", g, touched>> : g \in Games, touched \in (SUBSET Signals) \ {{}}}
            \cup {<<"revoke">>, <<"permit">>, <<"settings">>, <<"other">>}

RunningMutation == [edit : Mutation, at : {"save", "cleanup"}]

\* The scope of a run is pairs of owned games; the rows of wishlist candidates are not modelled.
ASSUME RunConstants ==
  /\ IsFiniteSet(Pairs)
  /\ \A p \in Pairs : p \subseteq Games /\ p \cap Candidates = {}
  /\ Retries \in Nat /\ Consents \subseteq BOOLEAN
  /\ Causes \subseteq Terminations /\ Mutations \subseteq Mutation
  /\ NoRow \notin Content /\ NoRun \notin Runs
  /\ NoBatch \notin [run : Runs, state : {"active", "sealed"}, revision : Nat, report : Reports]
  /\ NoProgress \notin [run : Runs, report : Reports,
                        pub : {"none", "pending", "published", "unchanged"}]
  /\ None \notin Sources \cup Pending \cup Completion \cup RunningMutation

Init ==
  /\ CacheInit
  /\ \E consent \in Consents :
       sources = [desc |-> [g \in Games |-> 0], note |-> [g \in Games |-> 0],
                  noteUse |-> consent, epoch |-> 0, policy |-> 0, rev |-> 0]
  /\ mutation = None
  /\ mode = "up"
  /\ worker = [r \in Runs |-> NoWorker]
  /\ publisher = [w \in Publishers |-> IdlePublisher]
  /\ pending = [r \in Runs |-> None]
  /\ completion = [r \in Runs |-> None]
  /\ faults = 0 /\ crashes = 0

LockFree == mutation = None
\* n storage calls of the action fail.
Failing(n) == faults + n <= MaxFaults /\ faults' = faults + n /\ UNCHANGED crashes
Fault == Failing(1)
NoFault == Failing(0)

SameAuthority(capture, current) ==
  capture.rev = current.rev /\ capture.policy = current.policy

(***************************************************************************)
(* Mutations of the collection, under the coordinator from beginning to    *)
(* end: purge what the change makes stale, save, and for a revocation      *)
(* purge after the save.                                                   *)
(***************************************************************************)
\* Mutant: a touched signal purges only the kind that depends on it alone.
KindsTouchedAlone(touched) == (IF "C" \in touched THEN {"C_ONLY"} ELSE {})
                              \cup (IF "D" \in touched THEN {"D_ONLY"} ELSE {})
KindsTouched(touched) == (IF "C" \in touched THEN {"C_ONLY", "SHARED_CD"} ELSE {})
                         \cup (IF "D" \in touched THEN NoteKinds ELSE {})

Accepted(e, src) ==
  LET bump(S, x) == IF S \in e[3] /\ x = e[2] THEN 1 ELSE 0
      next == [src EXCEPT !.rev = @ + 1]
  IN CASE e[1] = "sources" -> [next EXCEPT !.desc = [x \in Games |-> @[x] + bump("C", x)],
                                           !.note = [x \in Games |-> @[x] + bump("D", x)]]
       [] e[1] \in {"revoke", "permit"} ->
            [next EXCEPT !.noteUse = ~@, !.epoch = @ + 1, !.policy = @ + 1]
       [] e[1] = "settings" -> [next EXCEPT !.policy = @ + 1]
       [] e[1] = "other" -> next

\* Mutant: permitting note use again relies on the purge of the revocation.
PurgeForEditsOnly(e) ==
  IF e[1] = "sources" THEN InvalidateGame(e[2], KindsTouched(e[3])) ELSE UNCHANGED tables

\* What is purged before the save.  When that fails the mutation is refused.
PurgeBeforeSave(e) ==
  CASE e[1] = "sources" -> InvalidateGame(e[2], KindsTouched(e[3]))
    [] e[1] = "permit" -> PurgeDDependent
    [] OTHER -> UNCHANGED tables

MutationBegins(e) ==
  /\ mode = "up" /\ LockFree
  /\ sources.rev < MaxEdits
  /\ e[1] = "revoke" => sources.noteUse
  /\ e[1] = "permit" => ~sources.noteUse
  /\ PurgeBeforeSave(e)
  /\ mutation' = [edit |-> e, at |-> "save"]
  /\ NoFault
  /\ UNCHANGED <<sources, mode, processVars, completion>>

\* A save that reports an error but is durable is found durable by a revocation, and is an
\* error to the caller of any other mutation: the state is the same as after a good save.
MutationSaves ==
  /\ mutation # None /\ mutation.at = "save"
  /\ sources' = Accepted(mutation.edit, sources)
  /\ mutation' = IF mutation.edit[1] = "revoke" THEN [mutation EXCEPT !.at = "cleanup"] ELSE None
  /\ NoFault
  /\ UNCHANGED <<tables, mode, processVars, completion>>

MutationSaveFails ==
  /\ mutation # None /\ mutation.at = "save"
  /\ Fault
  /\ mutation' = None
  /\ UNCHANGED <<tables, sources, mode, processVars, completion>>

\* The revocation stands whether or not the purge works (cleanupPending).
RevocationCleansUp ==
  /\ mutation # None /\ mutation.at = "cleanup"
  /\ \/ PurgeDDependent /\ NoFault
     \/ UNCHANGED tables /\ Fault
  /\ mutation' = None
  /\ UNCHANGED <<sources, mode, processVars, completion>>

(***************************************************************************)
(* Settling a run and starting its publication                             *)
(***************************************************************************)
Started(r) == worker[r] # NoWorker
Settled(r) == completion[r] # None
\* activeRuns: set when the run is reserved, removed when it settles.
Active(r) == Started(r) /\ ~Settled(r)

\* Mutant: the worker asks nothing after an await.
ContinueAnyway(r) == worker[r].sealed \in BOOLEAN

\* runCanContinue: asked after every await of the worker.
CanContinue(r) == worker[r].cause = "none" /\ ~Settled(r)

\* Mutant: a completion is resolved only once the outcome is durable.
SettleIfSealed(r, report, outcome) ==
  completion' = IF Settled(r) \/ outcome = "unpersisted" THEN completion
                ELSE [completion EXCEPT ![r] = [report |-> report, outcome |-> outcome]]

Settle(r, report, outcome) ==
  completion' = IF Settled(r) THEN completion
                ELSE [completion EXCEPT ![r] = [report |-> report, outcome |-> outcome]]

\* A call of publishSealedBatch; `prepared` is the frozen capture of the run, or None.
PublisherAt(report, prepared) ==
  [at |-> "snapshot", tries |-> 0, report |-> report, prepared |-> prepared,
   rev |-> 0, capture |-> None, answer |-> "none"]

\* finalizeRun: seal at once.  The worker's own end waits for the publication; a
\* termination is acknowledged before it, and finds the worker wherever it is.  When the
\* seal fails the batch stays active.  `failures` storage calls had failed before.
FinalizeRun(r, w, report, failures) ==
  LET terminated == w.cause # "none"
      tracked == [pending EXCEPT ![r] = [report |-> report, prepared |-> w.capture]]
  IN \/ /\ SealRunBatch(r, report)
        /\ worker' = [worker EXCEPT ![r] = [w EXCEPT !.report = report, !.sealed = TRUE,
             !.pc = IF terminated THEN @ ELSE "closing"]]
        /\ publisher' = [publisher EXCEPT ![<<r, "finalizer">>] = PublisherAt(report, w.capture)]
        /\ IF terminated THEN pending' = tracked /\ Settle(r, report, "pending")
           ELSE UNCHANGED <<pending, completion>>
        /\ Failing(failures)
     \/ /\ Failing(failures + 1)
        /\ worker' = [worker EXCEPT ![r] = IF terminated THEN [w EXCEPT !.report = report]
                                                        ELSE NoWorker]
        /\ pending' = tracked
        /\ Settle(r, report, "unpersisted")
        /\ UNCHANGED <<tables, publisher>>

TerminatedReport(report, cause) ==
  [report EXCEPT !.stop = cause,
                 !.state = IF cause = "application-deadline" THEN "failed" ELSE "interrupted"]

\* Mutant: the answer of a termination does not ask whether the outcome is sealed.
TerminateSealed(r, cause) ==
  /\ mode = "up" /\ Active(r)
  /\ LET report == TerminatedReport(worker[r].report, cause)
     IN \/ /\ worker[r].sealed /\ cause = "owner-cancelled"
           /\ Settle(r, report, "pending")
           /\ NoFault /\ UNCHANGED <<tables, processVars>>
        \/ /\ ~worker[r].sealed
           /\ FinalizeRun(r, [worker[r] EXCEPT !.cause = cause], report, 0)
  /\ UNCHANGED <<sources, mutation, mode>>

\* The owner cancels, or the deadline passes; the timer is stopped before the outcome is
\* sealed, and a sealed outcome is not touched any more.
TerminateRun(r, cause) ==
  /\ mode = "up" /\ Active(r)
  /\ \/ /\ worker[r].sealed /\ cause = "owner-cancelled"
        /\ SaveSealedRunProgressIfOwned(r, worker[r].report)
        /\ Settle(r, worker[r].report, "pending")
        /\ NoFault
        /\ UNCHANGED processVars
     \/ /\ ~worker[r].sealed
        /\ FinalizeRun(r, [worker[r] EXCEPT !.cause = cause],
                       TerminatedReport(worker[r].report, cause), 0)
  /\ UNCHANGED <<sources, mutation, mode>>

(***************************************************************************)
(* The worker of a run                                                     *)
(***************************************************************************)
NoReport == [state |-> "running", stop |-> "none", pairCount |-> 0, done |-> 0, failed |-> 0]
Counting(report, failed) == [report EXCEPT !.done = @ + 1, !.failed = @ + failed]

\* acceptValidatedRun and reserveRun, under the coordinator: the sources are those that were
\* previewed.  The batch is durable before beginExecution, which may still refuse: then
\* the batch stays behind with no run.
Reserve(r, notes) ==
  /\ mode = "up" /\ LockFree
  /\ \A s \in Runs : ~Active(s)
  /\ fate[r] = "new"
  /\ ReserveRunBatch(r, NoReport)
  /\ \/ /\ worker' = [worker EXCEPT ![r] =
             [pc |-> "begin", capture |-> sources, notes |-> notes, todo |-> Pairs,
              pair |-> {}, kind |-> "none", stop |-> "none", cause |-> "none", sealed |-> FALSE,
              report |-> [NoReport EXCEPT !.pairCount = Cardinality(Pairs)]]]
        /\ NoFault
     \/ Fault /\ UNCHANGED worker
  /\ UNCHANGED <<sources, mutation, mode, publisher, pending, completion>>

\* The worker of r is at pc and may go on.
At(r, pc) == mode = "up" /\ worker[r].pc = pc /\ CanContinue(r)
Fresh(r) == SameAuthority(worker[r].capture, sources)

\* `execute` threw, after `failures` storage calls failed: the run has failed.
Fail(r, failures) ==
  FinalizeRun(r, worker[r], [worker[r].report EXCEPT !.state = "failed"], failures)

\* persistOutcome: save the progress and go on as `step`.  A failed write ends the run.
Persist(r, report, step) ==
  \/ /\ SaveRunProgress(r, report)
     /\ worker' = [worker EXCEPT ![r] = [step EXCEPT !.report = report]]
     /\ NoFault
     /\ UNCHANGED <<publisher, pending, completion>>
  \/ Fail(r, 1)

Begin(r) ==
  /\ At(r, "begin") /\ LockFree
  /\ \/ Fresh(r) /\ Persist(r, worker[r].report, [worker[r] EXCEPT !.pc = "next"])
     \/ ~Fresh(r) /\ Fail(r, 0)
  /\ UNCHANGED <<sources, mutation, mode>>

\* The head of the loop over the pairs: refreshForCurrentVector.
NextPair(r) ==
  /\ At(r, "next") /\ LockFree
  /\ worker[r].todo # {} /\ worker[r].stop = "none"
  /\ \/ /\ Fresh(r)
        /\ worker' = [worker EXCEPT ![r].pc = "prepare"]
        /\ NoFault
        /\ UNCHANGED <<tables, publisher, pending, completion>>
     \/ ~Fresh(r) /\ Fail(r, 0)
  /\ UNCHANGED <<sources, mutation, mode>>

\* Staging first, then what is published.
LookupForRun(r, k) == IF batch # NoBatch /\ batch.run = r /\ staged[k] # NoRow
                        THEN staged[k] ELSE judgments[k]

\* Mutant: the validation of a row does not look at the owner's permission.
RowCurrentAnyConsent(row, k, src) ==
  /\ row # NoRow
  /\ LET now == EvidenceOf(row.kind, k[1], src)
     IN row.evidence.desc = now.desc /\ row.evidence.note = now.note

\* validateJevCachedRow: the row says what the sources would be judged from today.
RowCurrent(row, k, src) ==
  /\ row # NoRow
  /\ row.kind \in NoteKinds => src.noteUse
  /\ row.evidence = EvidenceOf(row.kind, k[1], src)

\* The signals of p that the run still needs, and the kind of a request for some.
Missing(r, p) ==
  {s \in {"C"} \cup (IF worker[r].capture.noteUse THEN {"D"} ELSE {}) :
     ~RowCurrent(LookupForRun(r, <<p, s>>), <<p, s>>, worker[r].capture)}
Sendable(r, p) == {s \in Missing(r, p) : s = "D" => worker[r].notes}
KindOf(signals) == IF signals = Signals THEN "SHARED_CD"
                   ELSE IF signals = {"C"} THEN "C_ONLY" ELSE "D_ONLY"
SignalsOf(kind) == {s \in Signals : kind = "SHARED_CD" \/ KindOf({s}) = kind}

\* prepareJevRunPair: nothing is missing, or nothing may be sent, or a request is made.
Prepare(r, p) ==
  /\ At(r, "prepare") /\ p \in worker[r].todo
  /\ LET w == [worker[r] EXCEPT !.todo = @ \ {p}]
     IN \/ /\ Missing(r, p) = {}
           /\ Persist(r, Counting(w.report, 0), [w EXCEPT !.pc = "next"])
        \/ /\ Missing(r, p) # {} /\ Sendable(r, p) = {}
           /\ Persist(r, Counting(w.report, 1), [w EXCEPT !.pc = "next"])
        \/ /\ Sendable(r, p) # {}
           /\ Persist(r, w.report,
                [w EXCEPT !.pc = "dispatch", !.pair = p, !.kind = KindOf(Sendable(r, p))])
  /\ UNCHANGED <<sources, mutation, mode>>

\* jevRunPairSourcesChanged
SourcesChanged(kind, p, planned, current) ==
  LET then == EvidenceOf(kind, p, planned)  now == EvidenceOf(kind, p, current)
  IN then.desc # now.desc \/ then.note # now.note

\* What admitAttempt and checkpointMappedPair ask under the coordinator.
PairAuthorized(r, current) ==
  LET w == worker[r]
  IN /\ SameAuthority(w.capture, current)
     /\ ~SourcesChanged(w.kind, w.pair, w.capture, current)
     /\ w.kind \in NoteKinds => w.notes /\ current.noteUse

PairFails(r, stop) ==
  Persist(r, Counting(worker[r].report, 1), [worker[r] EXCEPT !.pc = "next", !.stop = stop])

Dispatch(r) ==
  /\ At(r, "dispatch") /\ LockFree
  /\ \/ /\ PairAuthorized(r, sources)
        /\ worker' = [worker EXCEPT ![r].pc = "sent"]
        /\ NoFault
        /\ UNCHANGED <<tables, publisher, pending, completion>>
     \/ ~PairAuthorized(r, sources) /\ PairFails(r, "none")
  /\ UNCHANGED <<sources, mutation, mode>>

\* The gateway tries again, through admission; or it gives up, on the pair or on the run.
AttemptFails(r) ==
  /\ At(r, "sent")
  /\ worker' = [worker EXCEPT ![r].pc = "dispatch"]
  /\ NoFault
  /\ UNCHANGED <<tables, sources, mutation, mode, publisher, pending, completion>>

EvaluationFails(r) ==
  /\ At(r, "sent")
  /\ \E stop \in {"none", "limit"} : PairFails(r, stop)
  /\ UNCHANGED <<sources, mutation, mode>>

JudgedRows(w) ==
  [k \in Key |-> IF k[1] = w.pair /\ k[2] \in SignalsOf(w.kind)
                   THEN [kind |-> w.kind, evidence |-> EvidenceOf(w.kind, w.pair, w.capture)]
                   ELSE NoRow]

\* The answer arrives and is mapped to rows; it may say that the token threshold is reached.
Checkpoint(r) ==
  /\ At(r, "sent") /\ LockFree
  /\ \/ /\ PairAuthorized(r, sources)
        /\ LET report == Counting(worker[r].report, 0)
           IN /\ CheckpointStagedPair(r, JudgedRows(worker[r]), report)
              /\ \E stop \in {"none", "limit"} :
                   worker' = [worker EXCEPT ![r].pc = "next", ![r].report = report, ![r].stop = stop]
        /\ NoFault
        /\ UNCHANGED <<publisher, pending, completion>>
     \/ PairAuthorized(r, sources) /\ Fail(r, 1)
     \/ ~PairAuthorized(r, sources) /\ PairFails(r, "none")
  /\ UNCHANGED <<sources, mutation, mode>>

\* Mutant: failed pairs do not fail the run.
OutcomeByStop(w) == IF w.stop # "none" THEN "failed" ELSE "completed"
OutcomeOf(w) == IF w.stop # "none" \/ w.report.failed > 0 THEN "failed" ELSE "completed"

Finish(r) ==
  /\ At(r, "next")
  /\ worker[r].todo = {} \/ worker[r].stop # "none"
  /\ FinalizeRun(r, worker[r],
       [worker[r].report EXCEPT !.state = OutcomeOf(worker[r]), !.stop = worker[r].stop], 0)
  /\ UNCHANGED <<sources, mutation, mode>>

\* A worker that finds it may not go on returns and changes nothing.
WorkerStops(r) ==
  /\ mode = "up"
  /\ worker[r].pc \in {"begin", "next", "prepare", "dispatch", "sent"} /\ ~CanContinue(r)
  /\ worker' = [worker EXCEPT ![r] = NoWorker]
  /\ NoFault
  /\ UNCHANGED <<tables, sources, mutation, mode, publisher, pending, completion>>

(***************************************************************************)
(* publishSealedBatch                                                      *)
(***************************************************************************)
PublisherOnly == UNCHANGED <<sources, mutation, mode, worker, pending, completion>>
Moved(w, state) == publisher' = [publisher EXCEPT ![w] = state]
Ended(p, answer) == [PublisherAt(p.report, p.prepared) EXCEPT !.at = "done", !.answer = answer]
Answers(w, answer) == Moved(w, Ended(publisher[w], answer))

\* pendingCompletion
GivesUp(w) == SaveSealedRunProgressIfOwned(w[1], publisher[w].report) /\ Answers(w, "pending")

\* This attempt came to nothing.
TriesAgain(w) ==
  LET p == publisher[w]
  IN IF p.tries < Retries
       THEN /\ Moved(w, [PublisherAt(p.report, p.prepared) EXCEPT !.tries = p.tries + 1])
            /\ UNCHANGED tables
       ELSE GivesUp(w)

ResolvedAs(r) == progress # NoProgress /\ progress.run = r /\ progress.pub \in {"published", "unchanged"}

\* Read the batch and its rows.
Snapshot(w) ==
  /\ publisher[w].at = "snapshot"
  /\ LET p == publisher[w]  r == w[1]
     IN \/ batch = NoBatch /\ ResolvedAs(r) /\ Answers(w, "final") /\ UNCHANGED tables
        \/ ~Owns(r, "sealed") /\ ~(batch = NoBatch /\ ResolvedAs(r)) /\ GivesUp(w)
        \/ /\ Owns(r, "sealed")
           /\ Moved(w, [p EXCEPT !.at = IF staged = Empty THEN "empty" ELSE "capture",
                                 !.rev = batch.revision])
           /\ UNCHANGED tables
  /\ NoFault /\ PublisherOnly

\* loadCapture: the scoring it does outside the coordinator is not modelled; it returns
\* the sources as they are at its last read.
LoadCapture(w) ==
  /\ publisher[w].at = "capture" /\ LockFree
  /\ \/ /\ Moved(w, [publisher[w] EXCEPT !.at = "commit", !.capture = sources])
        /\ NoFault /\ UNCHANGED tables
     \/ TriesAgain(w) /\ Fault
  /\ PublisherOnly

\* validateStagedRows and the permission filter, on the sources as they are now.
Eligible(p) ==
  IF p.prepared # None /\ p.capture.policy # p.prepared.policy THEN {}
  ELSE {k \in Held(staged) :
          LET row == staged[k]
          IN /\ p.prepared # None => ~SourcesChanged(row.kind, k[1], p.prepared, sources)
             /\ RowCurrent(row, k, sources)}

\* The same batch, sealed, at the staging revision of the snapshot.
SameBatch(r, p) == Owns(r, "sealed") /\ batch.revision = p.rev

\* Under the coordinator: check again that nothing moved, and promote.
Commit(w) ==
  /\ publisher[w].at \in {"commit", "empty"} /\ LockFree
  /\ LET p == publisher[w]
         r == w[1]
         fenced == SameBatch(r, p) /\ (p.at = "commit" => SameAuthority(p.capture, sources))
         rows == IF p.at = "empty" THEN Empty ELSE Only(staged, Eligible(p))
     IN \/ fenced /\ PromoteRunBatch(r, rows, p.rev, p.report) /\ Answers(w, "final") /\ NoFault
        \/ fenced /\ TriesAgain(w) /\ Fault
        \/ ~fenced /\ TriesAgain(w) /\ NoFault
  /\ PublisherOnly

\* The finalizer of r returns: what stays unresolved is left for a retry.
FinalizerEnds(r) ==
  LET w == <<r, "finalizer">>
  IN /\ publisher[w].at = "done"
     /\ pending' = [pending EXCEPT ![r] =
          IF publisher[w].answer = "pending" /\ batch # NoBatch /\ batch.run = r
            THEN [report |-> publisher[w].report, prepared |-> publisher[w].prepared] ELSE None]
     /\ Settle(r, publisher[w].report, publisher[w].answer)
     /\ worker' = [worker EXCEPT ![r] = IF @.pc = "closing" THEN NoWorker ELSE @]
     /\ Moved(w, IdlePublisher)
     /\ NoFault
     /\ UNCHANGED <<tables, sources, mutation, mode>>

\* Mutant: only a sealed batch is resumed.
ResumeSealed(w, report, prepared) ==
  /\ Owns(w[1], "sealed")
  /\ UNCHANGED <<tables, pending>>
  /\ Moved(w, PublisherAt(report, prepared))
  /\ NoFault

\* An unresolved batch of r is sealed, unless it is, and a publisher w set to work.
Resume(w, report, prepared) ==
  LET r == w[1]
  IN \/ /\ Owns(r, "sealed")
        /\ UNCHANGED <<tables, pending>>
        /\ Moved(w, PublisherAt(report, prepared))
        /\ NoFault
     \/ /\ Owns(r, "active") /\ LockFree
        /\ \/ SealRunBatch(r, report) /\ Moved(w, PublisherAt(report, prepared))
              /\ NoFault /\ UNCHANGED pending
           \/ /\ Fault
              /\ pending' = [pending EXCEPT ![r] = [report |-> report, prepared |-> prepared]]
              /\ Moved(w, Ended(PublisherAt(report, prepared), "pending"))
              /\ UNCHANGED tables

\* What an unresolved batch says of its run once the process that ran it is gone.
RecoveredReport ==
  IF batch.state = "active" THEN [batch.report EXCEPT !.state = "interrupted"] ELSE batch.report

\* The owner asks for an explicit retry of r's publication: one at a time, and not of a run
\* that is live.  Mutant: of a live run too.
RetryAnyRun(r) == mode = "up" /\ fate[r] # "new" /\ publisher[<<r, "retry">>].at = "idle"
MayRetry(r) ==
  mode = "up" /\ fate[r] # "new" /\ publisher[<<r, "retry">>].at = "idle" /\ ~Active(r)

RetryPublication(r) ==
  LET w == <<r, "retry">>
  IN /\ MayRetry(r)
     /\ \/ /\ ~Owns(r, "active") /\ ~Owns(r, "sealed")
           /\ pending' = [pending EXCEPT ![r] = None]
           /\ Moved(w, Ended(PublisherAt(NoReport, None), IF ResolvedAs(r) THEN "final" ELSE "absent"))
           /\ NoFault /\ UNCHANGED tables
        \/ pending[r] # None /\ Resume(w, pending[r].report, pending[r].prepared)
        \/ pending[r] = None /\ (Owns(r, "active") \/ Owns(r, "sealed"))
           /\ Resume(w, RecoveredReport, None)
     /\ UNCHANGED <<sources, mutation, mode, worker, completion>>

RetryEnds(r) ==
  LET w == <<r, "retry">>
  IN /\ mode = "up" /\ publisher[w].at = "done"
     /\ pending' = IF publisher[w].answer = "pending" THEN pending
                   ELSE [pending EXCEPT ![r] = None]
     /\ Moved(w, IdlePublisher)
     /\ NoFault
     /\ UNCHANGED <<tables, sources, mutation, mode, worker, completion>>

(***************************************************************************)
(* Crash and startup: what is durable stays.  Nothing is served before the *)
(* recovery has ended.                                                     *)
(***************************************************************************)
Crash ==
  /\ crashes < MaxCrashes
  /\ crashes' = crashes + 1
  /\ mode' = "starting"
  /\ mutation' = None
  /\ worker' = [r \in Runs |-> NoWorker]
  /\ publisher' = [w \in Publishers |-> IdlePublisher]
  /\ pending' = [r \in Runs |-> None]
  /\ UNCHANGED <<tables, sources, completion, faults>>

\* A revocation whose purge was lost is purged now.
StartupPurge ==
  /\ mode = "starting"
  /\ \/ ~sources.noteUse /\ PurgeDDependent /\ NoFault
     \/ ~sources.noteUse /\ UNCHANGED tables /\ Fault
     \/ sources.noteUse /\ UNCHANGED tables /\ NoFault
  /\ mode' = "purged"
  /\ UNCHANGED <<sources, mutation, processVars, completion>>

\* reconcileInterruptedProgress
Reconcile ==
  /\ mode = "purged"
  /\ \/ batch = NoBatch /\ NoFault /\ mode' = "up" /\ UNCHANGED <<tables, publisher, pending>>
     \/ /\ batch # NoBatch
        /\ Resume(<<batch.run, "retry">>, RecoveredReport, None)
        /\ mode' = "recovering"
  /\ UNCHANGED <<sources, mutation, worker, completion>>

Recovered ==
  /\ mode = "recovering"
  /\ \E w \in Publishers : publisher[w].at = "done" /\ Moved(w, IdlePublisher)
  /\ mode' = "up"
  /\ NoFault
  /\ UNCHANGED <<tables, sources, mutation, worker, pending, completion>>

MutationStep == MutationSaves \/ MutationSaveFails \/ RevocationCleansUp
WorkerStep(r) ==
  \/ Begin(r) \/ NextPair(r) \/ (\E p \in Pairs : Prepare(r, p)) \/ Dispatch(r)
  \/ AttemptFails(r) \/ EvaluationFails(r) \/ Checkpoint(r) \/ Finish(r) \/ WorkerStops(r)
PublisherStep(w) == Snapshot(w) \/ LoadCapture(w) \/ Commit(w)
StartupStep == StartupPurge \/ Reconcile \/ Recovered

Next ==
  \/ \E e \in Mutations : MutationBegins(e)
  \/ MutationStep
  \/ \E r \in Runs : \/ \E notes \in Consents : Reserve(r, notes)
                      \/ \E cause \in Causes : TerminateRun(r, cause)
                      \/ WorkerStep(r)
                      \/ FinalizerEnds(r) \/ RetryPublication(r) \/ RetryEnds(r)
  \/ \E w \in Publishers : PublisherStep(w)
  \/ Crash
  \/ StartupStep

Spec == Init /\ [][Next]_vars

\* What the code schedules by itself: a promise that may settle does, the deadline timer
\* fires, the coordinator serves whoever waits (it is a FIFO queue), a mutation that holds it
\* goes on, and a process that crashed is started again.
Fairness ==
  /\ WF_vars(MutationStep)
  /\ WF_vars(StartupStep)
  /\ \A r \in Runs : /\ WF_vars(WorkerStep(r))
                      /\ WF_vars(TerminateRun(r, "application-deadline"))
                      /\ WF_vars(FinalizerEnds(r))
                      /\ WF_vars(RetryEnds(r))
  /\ \A w \in Publishers : WF_vars(PublisherStep(w))

\* What the owner has to do: ask for the publication of a run as long as it is pending.
OwnerRetries == \A r \in Runs : WF_vars(RetryPublication(r))

LiveSpec == Spec /\ Fairness /\ OwnerRetries

(***************************************************************************)
(* Properties                                                              *)
(***************************************************************************)
\* Types.
TypeOK ==
  /\ CacheTypeOK
  /\ sources \in Sources
  /\ mutation \in RunningMutation \cup {None}
  /\ mode \in {"up", "starting", "purged", "recovering"}
  /\ worker \in [Runs -> Worker \cup {NoWorker}]
  /\ publisher \in [Publishers -> Publisher \cup {IdlePublisher}]
  /\ pending \in [Runs -> Pending \cup {None}]
  /\ completion \in [Runs -> Completion \cup {None}]

\* No judgment, published or staged, outlives what it was judged from: the descriptions and
\* notes it depends on are today's, and while the owner permits note use a note judgment was
\* made under the permission in force, whatever edits, failed purges and crashes came between.
StillTrue(k, row) ==
  LET now == EvidenceOf(row.kind, k[1], sources)
  IN /\ row.evidence.desc = now.desc /\ row.evidence.note = now.note
     /\ sources.noteUse => row.evidence.epoch = now.epoch
NoStaleJudgment ==
  \A k \in Key : \A row \in {judgments[k], staged[k]} \ {NoRow} : StillTrue(k, row)

\* The durable progress is the unresolved run's, and once its outcome is sealed it shows that
\* outcome as pending: no late write of a worker that was stopped replaces it.
ProgressShowsBatch ==
  batch # NoBatch =>
    /\ progress.run = batch.run
    /\ batch.state = "sealed" => progress = ProgressOf(batch.run, batch.report, "pending")

\* A run that is live owns the one unresolved batch, and as its worker left it.
LiveRunOwnsBatch ==
  \A r \in Runs : (Active(r) /\ mode = "up") =>
     Owns(r, IF worker[r].sealed THEN "sealed" ELSE "active") \/ (worker[r].sealed /\ ResolvedAs(r))

\* What the caller of a run was told survives: unless its outcome was reported unpersisted,
\* the outcome that was told is the durable one, whatever retries and restarts follow.
ToldOutcomeIsDurable ==
  \A r \in Runs : (completion[r] # None /\ completion[r].outcome # "unpersisted") =>
     /\ fate[r] \in {"sealed", "published"}
     /\ Owns(r, "sealed") => batch.report = completion[r].report
     /\ progress.run = r => progress.report = completion[r].report

\* A run is reported completed only if every pair of its scope was judged or was known
\* already: no pair failed, none was left.
CompletedMeansWhole ==
  \A r \in Runs : (completion[r] # None /\ completion[r].report.state = "completed") =>
     completion[r].report.done = Cardinality(Pairs) /\ completion[r].report.failed = 0

\* Note judgments become visible only while the owner permits note use.
NotesWhenPermitted ==
  \A k \in Key : (judgments'[k] # judgments[k] /\ judgments'[k] # NoRow
                   /\ judgments'[k].kind \in NoteKinds) => sources.noteUse
NotesNeedPermission == [][NotesWhenPermitted]_vars

\* Every run gets its answer, unless the process crashes.
EveryRunSettles == \A r \in Runs : Active(r) ~> (Settled(r) \/ mode # "up")

\* An unresolved batch blocks every later run, so none may stay: with an owner who
\* retries, and storage that does not fail for ever, each is published in the end.
EveryBatchResolves == \A r \in Runs : fate[r] \in {"open", "sealed"} ~> fate[r] = "published"
===============================================================================
