------------------------------ MODULE Reflections ------------------------------
(***************************************************************************)
(* Profile reflections: a model's answers to a few fixed questions about   *)
(* the collection, kept in a durable cache (reflection-state-service.ts),  *)
(* purged in one transaction with the note changes that supersede them     *)
(* (reflection-transaction-service.ts), validated at startup               *)
(* (reflection-startup-validation.ts), and renewed by refresh runs         *)
(* (reflection-refresh-service.ts) that the owner starts and may cancel    *)
(* (routes/profile-reflections.ts).                                        *)
(*                                                                         *)
(* Whatever touches the files holds the profile source coordinator.  `job` *)
(* is the operation that holds it, with the step it is at: each write of a *)
(* file is an action of its own, so that the process may die, or the write *)
(* fail, between any two.  A refresh takes the coordinator for a moment at *)
(* a time; a cancellation needs no coordinator at all.                     *)
(***************************************************************************)
EXTENDS Integers, FiniteSets, GroundedOperations

CONSTANTS Questions,    \* REFLECTION_QUESTION_IDS, in the order of the numbers
          Games,        \* games that have an owner note
          Empty,        \* no cached result, no journal, no fence, no evidence
          Unread,       \* `initialized = null`
          Broken,       \* `initialized` is a promise that rejected
          Requests,     \* bound: what the owner asks, a subset of Request
          Priors,       \* bound: on what the results cached at first depend, per game
          MaxBatches,   \* bound: refreshes admitted
          MaxRevision,  \* bound: revision of the collection
          MaxFaults,    \* bound: failures of storage
          MaxCrashes    \* bound: deaths of the process

VARIABLES
  disk,        \* the reflection files
  collection,  \* the collection file: its revision and the notes' versions
  context,     \* `initialized`: the settings and state read last, Unread or Broken
  live,        \* liveAttemptIds
  validated,   \* startupValidated
  job,         \* the operation holding the coordinator
  owner,       \* the settings or deletion request being served
  refresh,     \* the run of the refresh service
  op,          \* its record in the operation registry
  batches, faults, crashes  \* how many there have been

vars == <<disk, collection, context, live, validated, job, owner, refresh, op,
          batches, faults, crashes>>
memory == <<context, live, validated>>
runVars == <<refresh, op, batches>>
faultVars == <<faults, crashes>>

(***************************************************************************)
(* Data.  A source dependency of a result is, per game, NoDependency,      *)
(* FactsOnly (the game without its note) or the note version read.  A      *)
(* result keeps the batch that made it and the revision it was made from.  *)
(* An attempt is named by its batch: a batch visits a question once.       *)
(***************************************************************************)
NoDependency == -1
FactsOnly == 0
Evidence == [rev : Nat, deps : [Games -> Int]]
Result == [batch : Nat, rev : Nat, deps : [Games -> Int]]

Attempt == [state : {"idle", "refreshing", "cancelled", "unavailable", "purged"}, batch : Nat]
Settled(outcome) == [state |-> outcome, batch |-> 0]
Refreshing(batch) == [state |-> "refreshing", batch |-> batch]

Entry == [cache : Result \cup {Empty}, attempt : Attempt]
State == [gen : Nat, entry : [Questions -> Entry]]
Context == [settings : [Questions -> BOOLEAN], state : State]
Journal == [kind : {"source-purge", "settings"}, prior : Nat, target : Nat,
            priorState : State, staged : State, settings : [Questions -> BOOLEAN]]
Fence == [question : Questions, batch : Nat, gen : Nat]

Request == [kind : {"enable", "disable"}, question : Questions]
             \cup [kind : {"delete-all"}, question : {0}]
NoOwner == [kind |-> "none", question |-> 0]

ASSUME ReflectionConstants ==
  /\ Questions \subseteq Nat /\ IsFiniteSet(Questions)
  /\ Requests \subseteq Request /\ Priors \subseteq Int
  /\ Empty \notin Result \cup Evidence \cup Journal \cup Fence
  /\ {Unread, Broken} \cap Context = {} /\ Unread # Broken

Idle == [kind |-> "none", step |-> "none", arg |-> 0, resets |-> FALSE, mode |-> "normal"]
NoRefresh == [phase |-> "idle", batch |-> 0, todo |-> {}, fence |-> Empty,
              evidence |-> Empty, result |-> None, fenced |-> FALSE]

\* createGeneration: a uuid, so one that nothing refers to.
HeldGenerations ==
  {disk.state.gen}
    \cup (IF disk.journal = Empty THEN {} ELSE {disk.journal.staged.gen, disk.journal.priorState.gen})
    \cup (IF refresh.fence = Empty THEN {} ELSE {refresh.fence.gen})
    \cup (IF context \in {Unread, Broken} THEN {} ELSE {context.state.gen})
NewGeneration == CHOOSE g \in 0..Cardinality(HeldGenerations) :
                   /\ g \notin HeldGenerations
                   /\ \A h \in 0..Cardinality(HeldGenerations) : h < g => h \in HeldGenerations

\* createEmptyState
EmptyState(gen) ==
  [gen |-> gen, entry |-> [q \in Questions |-> [cache |-> Empty, attempt |-> Settled("idle")]]]

WithAttempt(s, q, attempt) == [s EXCEPT !.entry[q].attempt = attempt]
Purged(s, qs) ==
  [s EXCEPT !.entry = [q \in Questions |->
     IF q \in qs THEN [cache |-> Empty, attempt |-> Settled("purged")] ELSE @[q]]]
\* Mutant: a running attempt is left as it is.
NotInterrupted(s) == s
Interrupted(s) ==
  [s EXCEPT !.entry = [q \in Questions |->
     IF @[q].attempt.state = "refreshing"
     THEN [@[q] EXCEPT !.attempt = Settled("unavailable")] ELSE @[q]]]

\* Mutant: a note change ends the running attempts and purges nothing.
NoteTargetUnpurged(s, g) == [Interrupted(s) EXCEPT !.gen = NewGeneration]

\* The state that goes with a changed note: results that depended on the game are
\* purged, whatever they took from it, and every running attempt is ended.
NoteTarget(s, g) ==
  LET affected == {q \in Questions : s.entry[q].cache # Empty
                                       /\ s.entry[q].cache.deps[g] # NoDependency}
  IN  [Interrupted(Purged(s, affected)) EXCEPT !.gen = NewGeneration]

\* The state that goes with a question switched on or off.
SettingsTarget(s, q, enabled) ==
  LET others == IF enabled THEN s ELSE [Interrupted(s) EXCEPT !.gen = NewGeneration]
  IN  [others EXCEPT !.entry[q] = [cache |-> Empty, attempt |-> Settled("idle")]]

NotesCurrent(r) == \A g \in Games : r.deps[g] > FactsOnly => r.deps[g] = collection.note[g]

\* validateReflectionStartup
Validated ==
  LET s == disk.state
      off == {q \in Questions : ~disk.settings[q]
                /\ (s.entry[q].cache # Empty \/ s.entry[q].attempt.state # "idle")}
      drifted == {q \in Questions \ off : s.entry[q].cache # Empty
                                            /\ ~NotesCurrent(s.entry[q].cache)}
      cleaned == [Interrupted(Purged(s, drifted)) EXCEPT
                    !.entry = [q \in Questions |->
                       IF q \in off THEN [cache |-> Empty, attempt |-> Settled("idle")] ELSE @[q]]]
  IN  IF off \cup drifted = {} THEN cleaned
      ELSE [cleaned EXCEPT !.gen = NewGeneration]

(***************************************************************************)
(* Holding the coordinator.  A job is [kind, step, arg, resets, mode]:     *)
(* what it does, the write it is at, the question or game it is for,       *)
(* whether `initialized` is dropped after a recovery, and how it goes on   *)
(* then ("unvalidated": the startup validation failed; "failing": the      *)
(* mutation is being compensated).                                         *)
(***************************************************************************)
StateJobs == {"settings", "set-enabled", "purge", "read", "start", "complete", "settle"}
Startup == [Idle EXCEPT !.kind = "startup", !.step = "recover"]

Known == context \notin {Unread, Broken}

\* Mutant: recover only when nothing has been read yet.
RecoverWhenUnread == context = Unread

\* runExclusive's shouldRecover: not while an attempt of this process is live and the
\* file is what the process saw last.
ShouldRecover == \/ live = {}
                 \/ context = Unread
                 \/ Known /\ context.state # disk.state

\* With a live attempt and a rejected `initialized`, runExclusive rejects before it
\* reaches the operation.
Rejects == live # {} /\ context = Broken

Acquire(kind, arg) ==
  /\ job = Idle
  /\ kind \in StateJobs => ~Rejects
  /\ job' = [kind |-> kind, arg |-> arg, mode |-> "normal",
             step |-> IF kind \in StateJobs \ {"set-enabled"} /\ ~ShouldRecover
                      THEN "init" ELSE "recover",
             resets |-> kind \in StateJobs /\ ShouldRecover]

At(kind, step) == job.kind = kind /\ job.step = step
GoTo(step) == job' = [job EXCEPT !.step = step]

\* Recovery is over: the job goes on to its own work.
ToWork ==
  /\ job' = IF job.kind = "startup" THEN Idle
            ELSE [job EXCEPT !.step = IF job.kind \in {"note", "set-enabled"}
                                      THEN "stage" ELSE "init"]
  /\ context' = IF job.resets THEN Unread ELSE context

\* recoverTransactionWithinCoordinator is done; validateAfterRecovery is next.
TransactionRecovered ==
  IF validated THEN ToWork ELSE GoTo("validate") /\ UNCHANGED context

(***************************************************************************)
(* What the attempt that a deletion overtakes is marked with: history, for *)
(* the properties.  A state with another generation overtakes the attempt. *)
(***************************************************************************)
FenceRefresh == refresh' = [refresh EXCEPT !.fenced = @ \/ refresh.fence # Empty]
Overtaken(gen) ==
  refresh' = [refresh EXCEPT !.fenced = @ \/ (refresh.fence # Empty /\ refresh.fence.gen # gen)]
Promoted ==
  /\ disk' = [disk EXCEPT !.state = disk.journal.staged, !.stage = FALSE]
  /\ Overtaken(disk.journal.staged.gen)

(***************************************************************************)
(* Recovery of an interrupted transaction, from what the files say.  With  *)
(* a source transaction it depends on whether the collection was saved;    *)
(* what fits neither outcome is thrown away (failClosed).                  *)
(***************************************************************************)
\* Mutant: the transaction is taken back without a look at the collection.
StateIsPrior == disk.state = disk.journal.priorState /\ disk.stage
SourceIsPrior == /\ collection.rev = disk.journal.prior
                 /\ disk.state = disk.journal.priorState /\ disk.stage
SourceIsTarget == collection.rev = disk.journal.target
AlreadyPromoted == ~disk.stage /\ disk.state = disk.journal.staged

RecoverNothing ==
  /\ job.step = "recover" /\ disk.journal = Empty
  /\ disk' = [disk EXCEPT !.stage = FALSE, !.settingsStage = FALSE]
  /\ TransactionRecovered
  /\ UNCHANGED refresh

RecoverSource ==
  /\ disk.journal # Empty
  /\ \/ job.step = "compensate"
     \/ job.step = "recover" /\ disk.journal.kind = "source-purge"
  /\ \/ SourceIsPrior /\ GoTo("drop") /\ UNCHANGED <<disk, refresh>>
     \/ ~SourceIsPrior /\ SourceIsTarget /\ disk.stage /\ Promoted /\ UNCHANGED job
     \/ ~SourceIsPrior /\ SourceIsTarget /\ AlreadyPromoted /\ GoTo("unlink")
          /\ UNCHANGED <<disk, refresh>>
     \/ /\ ~SourceIsPrior /\ ~(SourceIsTarget /\ (disk.stage \/ AlreadyPromoted))
        /\ IF job.step = "compensate" THEN job' = Idle ELSE GoTo("reset")
        /\ UNCHANGED <<disk, refresh>>
  /\ UNCHANGED context

\* settlePersistenceFailure finds no journal: the purge was never prepared.
CompensateNothing ==
  /\ job.step = "compensate" /\ disk.journal = Empty
  /\ job' = Idle /\ UNCHANGED <<disk, context, refresh>>

RecoverSettings ==
  LET j == disk.journal
      settingsPromoted == ~disk.settingsStage /\ disk.settings = j.settings
  IN  /\ job.step = "recover" /\ j # Empty /\ j.kind = "settings"
      /\ \/ disk.stage /\ Promoted /\ UNCHANGED job
         \/ /\ AlreadyPromoted /\ disk.settingsStage
            /\ disk' = [disk EXCEPT !.settings = j.settings, !.settingsStage = FALSE]
            /\ UNCHANGED <<job, refresh>>
         \/ AlreadyPromoted /\ settingsPromoted /\ GoTo("drop") /\ UNCHANGED <<disk, refresh>>
         \/ /\ ~disk.stage
            /\ ~(AlreadyPromoted /\ (disk.settingsStage \/ settingsPromoted))
            /\ GoTo("reset") /\ UNCHANGED <<disk, refresh>>
      /\ UNCHANGED context

\* failClosed: resetState first, then the stages and the journal as after a recovery.
\* As long as a settings stage is there the next recovery would take the reset back, so
\* it overtakes an attempt only when the stage is dropped.
Reset ==
  /\ job.step = "reset"
  /\ disk' = [disk EXCEPT !.state = EmptyState(NewGeneration)]
  /\ IF disk.journal # Empty /\ disk.journal.kind = "settings" /\ disk.stage
     THEN UNCHANGED refresh ELSE FenceRefresh
  /\ GoTo("drop") /\ UNCHANGED context

DropStages ==
  /\ job.step = "drop"
  /\ disk' = [disk EXCEPT !.stage = FALSE, !.settingsStage = FALSE]
  /\ Overtaken(disk.state.gen)
  /\ GoTo("unlink") /\ UNCHANGED context

UnlinkJournal ==
  /\ job.step = "unlink"
  /\ disk' = [disk EXCEPT !.journal = Empty, !.stage = FALSE, !.settingsStage = FALSE]
  /\ CASE job.mode = "failing" -> job' = Idle /\ UNCHANGED context
       [] job.mode = "unvalidated" -> ToWork
       [] OTHER -> TransactionRecovered
  /\ UNCHANGED refresh

ValidateStartup ==
  /\ job.step = "validate"
  /\ disk' = [disk EXCEPT !.state = Validated]
  /\ validated' = TRUE
  /\ IF Validated.gen # disk.state.gen THEN FenceRefresh ELSE UNCHANGED refresh
  /\ ToWork

Recovery ==
  /\ \/ ValidateStartup
     \/ UNCHANGED validated /\ (\/ RecoverNothing \/ RecoverSource \/ CompensateNothing
                                \/ RecoverSettings \/ Reset \/ DropStages \/ UnlinkJournal)
  /\ UNCHANGED <<collection, live, owner, op, batches, faultVars>>

(***************************************************************************)
(* The work of an operation on the state, once it holds the coordinator.   *)
(* `initialize` reads the files and settles the attempts it finds running: *)
(* they were another process's.  updateState writes the file, then memory. *)
(***************************************************************************)
Initialize ==
  /\ job.step = "init"
  /\ LET found == [settings |-> disk.settings, state |-> Interrupted(disk.state)]
     IN  IF Known THEN UNCHANGED <<context, disk>>
         ELSE context' = found /\ disk' = [disk EXCEPT !.state = found.state]
  /\ GoTo("body")
  /\ UNCHANGED <<collection, live, validated, owner, runVars, faultVars>>

Saves(s) == disk' = [disk EXCEPT !.state = s] /\ context' = [context EXCEPT !.state = s]
AttemptId(f) == <<f.batch, f.question>>

\* The conjuncts that completeAttempt, cancelAttempt and failAttempt share.
HoldsFence(f) == /\ context.state.gen = f.gen
                 /\ context.state.entry[f.question].attempt = Refreshing(f.batch)

\* completeAttempt's test, with the sources revalidated inside the coordinator.
Revalidated == /\ refresh.evidence.rev = collection.rev
               /\ NotesCurrent(refresh.evidence)
\* Mutant: the fence is not looked at.
PublishableAnyway(f) == Revalidated /\ context.settings[f.question]
Publishable(f) == /\ HoldsFence(f) /\ Revalidated /\ context.settings[f.question]

\* The catch of `run`: the reason is read off the signal at that moment.
Caught == [refresh EXCEPT !.phase = "failing",
                          !.result = IF op.aborted THEN "cancelled" ELSE "failed"]

StartBody ==
  /\ At("start", "body") /\ job' = Idle
  /\ IF context.settings[job.arg]
     THEN LET f == [question |-> job.arg, batch |-> refresh.batch, gen |-> context.state.gen]
          IN  /\ Saves(WithAttempt(context.state, job.arg, Refreshing(refresh.batch)))
              /\ live' = live \cup {AttemptId(f)}
              /\ refresh' = [refresh EXCEPT !.phase = "evidence", !.fence = f, !.fenced = FALSE]
     ELSE /\ refresh' = Caught
          /\ UNCHANGED <<disk, context, live>>
  /\ UNCHANGED <<collection, validated, owner, op, batches, faultVars>>

CompleteBody ==
  LET f == refresh.fence
      result == [batch |-> f.batch, rev |-> refresh.evidence.rev, deps |-> refresh.evidence.deps]
  IN  /\ At("complete", "body") /\ job' = Idle /\ live' = live \ {AttemptId(f)}
      /\ \/ /\ Publishable(f)
            /\ Saves([context.state EXCEPT !.entry[f.question] =
                        [cache |-> result, attempt |-> Settled("idle")]])
            /\ refresh' = [refresh EXCEPT !.phase = "published", !.fence = Empty]
            /\ UNCHANGED op
         \/ \* also when the provider changed, or the sources cannot be read again
            /\ refresh' = [refresh EXCEPT !.phase = "failing", !.result = "failed"]
            /\ op' = Released(op)
            /\ UNCHANGED <<disk, context>>
      /\ UNCHANGED <<collection, validated, owner, batches, faultVars>>

\* cancelAttempt and failAttempt
SettleBody ==
  LET f == refresh.fence
      outcome == IF refresh.result = "cancelled" THEN "cancelled" ELSE "unavailable"
  IN  /\ At("settle", "body") /\ job' = Idle /\ live' = live \ {AttemptId(f)}
      /\ IF HoldsFence(f) THEN Saves(WithAttempt(context.state, f.question, Settled(outcome)))
         ELSE UNCHANGED <<disk, context>>
      /\ refresh' = [refresh EXCEPT !.phase = "ending"]
      /\ UNCHANGED <<collection, validated, owner, op, batches, faultVars>>

PurgeBody ==
  /\ At("purge", "body") /\ job' = Idle
  /\ Saves([Purged(context.state, Questions) EXCEPT !.gen = NewGeneration])
  /\ FenceRefresh /\ owner' = NoOwner
  /\ UNCHANGED <<collection, live, validated, op, batches, faultVars>>

\* getSettings, for the admission of a refresh (arg 0) or to confirm a settings change.
SettingsBody ==
  /\ At("settings", "body") /\ job' = Idle
  /\ IF job.arg = 1 THEN owner' = NoOwner /\ UNCHANGED runVars
     ELSE LET chosen == {q \in refresh.todo : context.settings[q]}
          IN  /\ IF chosen = {} THEN refresh' = NoRefresh /\ UNCHANGED op
                 ELSE /\ refresh' = [refresh EXCEPT !.phase = "next", !.todo = chosen]
                      /\ op' = Started
              /\ UNCHANGED <<owner, batches>>
  /\ UNCHANGED <<disk, collection, memory, faultVars>>

\* readSnapshot: what it answers is context.state, for the questions switched on.
ReadBody ==
  /\ At("read", "body") /\ job' = Idle
  /\ UNCHANGED <<disk, collection, memory, owner, runVars, faultVars>>

StateWork == \/ Initialize \/ StartBody \/ CompleteBody \/ SettleBody
             \/ PurgeBody \/ SettingsBody \/ ReadBody

(***************************************************************************)
(* The two transactions.  A note change: the purge is staged and announced *)
(* in the journal, the collection is saved, the stage is promoted by a     *)
(* rename, the journal removed.  A settings change: the same, with two     *)
(* staged files and no collection.                                         *)
(***************************************************************************)
Stage ==
  /\ job.step = "stage"
  /\ disk' = [disk EXCEPT !.stage = TRUE, !.settingsStage = job.kind = "set-enabled"]
  /\ GoTo("journal") /\ UNCHANGED <<collection, context, refresh, owner>>

PublishJournal ==
  LET isNote == job.kind = "note"
      enabled == owner.kind = "enable"
      entry == [kind |-> IF isNote THEN "source-purge" ELSE "settings",
                prior |-> collection.rev,
                target |-> IF isNote THEN collection.rev + 1 ELSE collection.rev,
                priorState |-> disk.state,
                staged |-> IF isNote THEN NoteTarget(disk.state, job.arg)
                           ELSE SettingsTarget(disk.state, job.arg, enabled),
                settings |-> IF isNote THEN disk.settings
                             ELSE [disk.settings EXCEPT ![job.arg] = enabled]]
  IN  /\ job.step = "journal"
      /\ disk' = [disk EXCEPT !.journal = entry]
      /\ GoTo(IF isNote THEN "save" ELSE "promote")
      /\ UNCHANGED <<collection, context, refresh, owner>>

\* saveCollection, and the same when its response is lost but the file is found written.
SaveCollection ==
  /\ At("note", "save")
  /\ collection' = [rev |-> collection.rev + 1,
                    note |-> [collection.note EXCEPT ![job.arg] = @ + 1]]
  /\ GoTo("promote") /\ UNCHANGED <<disk, context, refresh, owner>>

Promote ==
  /\ job.step = "promote" /\ Promoted
  /\ GoTo(IF job.kind = "note" THEN "finish" ELSE "promote-settings")
  /\ UNCHANGED <<collection, context, owner>>

PromoteSettings ==
  /\ job.step = "promote-settings"
  /\ disk' = [disk EXCEPT !.settings = disk.journal.settings, !.settingsStage = FALSE]
  /\ GoTo("finish") /\ UNCHANGED <<collection, context, refresh, owner>>

Finish ==
  /\ job.step = "finish" /\ job' = Idle
  /\ disk' = [disk EXCEPT !.journal = Empty, !.stage = FALSE, !.settingsStage = FALSE]
  /\ IF job.kind = "note" THEN UNCHANGED <<context, owner>>
     ELSE context' = Unread /\ owner' = [owner EXCEPT !.kind = "confirm"]
  /\ UNCHANGED <<collection, refresh>>

Transaction ==
  /\ \/ Stage \/ PublishJournal \/ SaveCollection \/ Promote \/ PromoteSettings \/ Finish
  /\ UNCHANGED <<live, validated, op, batches, faultVars>>

(***************************************************************************)
(* The refresh run.  Each phase ends at an await: admitted (reading the    *)
(* settings), next (the top of the loop), starting, evidence, model,       *)
(* publishing, published, failing, ending.                                 *)
(***************************************************************************)
RequestRefresh(asked) ==
  /\ refresh.phase = "idle" /\ job.kind # "startup" /\ batches < MaxBatches
  /\ batches' = batches + 1
  /\ refresh' = [NoRefresh EXCEPT !.phase = "admitted", !.batch = batches + 1, !.todo = asked]
  /\ UNCHANGED <<disk, collection, memory, job, owner, op, faultVars>>

NextQuestion == CHOOSE q \in refresh.todo : \A r \in refresh.todo : q <= r

\* The run waits for the coordinator.
RunAcquires ==
  /\ \/ refresh.phase = "admitted" /\ Acquire("settings", 0)
     \/ refresh.phase = "starting" /\ Acquire("start", NextQuestion)
     \/ refresh.phase = "publishing" /\ Acquire("complete", refresh.fence.question)
     \/ /\ refresh.phase = "failing" /\ refresh.fence # Empty
        /\ Acquire("settle", refresh.fence.question)
  /\ UNCHANGED <<disk, collection, memory, owner, runVars, faultVars>>

RunStep(refresh2, op2) ==
  /\ refresh' = refresh2 /\ op' = op2
  /\ UNCHANGED <<disk, collection, memory, job, owner, batches, faultVars>>

BeginQuestion ==
  /\ refresh.phase = "next" /\ ~op.aborted
  /\ RunStep([refresh EXCEPT !.phase = "starting"], op)

\* evidence.start: the revision everything is read at, and the games it is about.
GatherEvidence ==
  /\ refresh.phase = "evidence" /\ ~op.aborted /\ job = Idle
  /\ \E deps \in [Games -> {NoDependency, FactsOnly}] :
       RunStep([refresh EXCEPT !.phase = "model",
                               !.evidence = [rev |-> collection.rev, deps |-> deps]], op)

\* A tool call of the model: a note of one of the games, as it is now.
ModelReadsNote(g) ==
  /\ refresh.phase = "model" /\ ~op.aborted
  /\ refresh.evidence.deps[g] = FactsOnly
  /\ RunStep([refresh EXCEPT !.evidence.deps[g] = collection.note[g]], op)

\* acceptSubmission, up to the reservation: from here on a cancellation is refused.
Submit ==
  /\ refresh.phase = "model" /\ ~op.aborted /\ MayReserve(op)
  /\ RunStep([refresh EXCEPT !.phase = "publishing"], Reserved(op, FALSE))

\* The evidence, the provider or the validation failed, or the signal aborted them.
RunFails ==
  /\ refresh.phase \in {"evidence", "model"} \cup (IF op.aborted THEN {"next"} ELSE {})
  /\ RunStep(Caught, op)

\* After the result is saved: the last question commits the run's outcome, another one
\* makes it cancellable again.
Published ==
  LET rest == refresh.todo \ {NextQuestion}
  IN  /\ refresh.phase = "published"
      /\ IF rest = {}
         THEN RunStep([refresh EXCEPT !.phase = "ending", !.todo = rest, !.evidence = Empty,
                                      !.result = "completed"], Committed(op, "completed"))
         ELSE RunStep([refresh EXCEPT !.phase = "next", !.todo = rest, !.evidence = Empty],
                      Released(op))

\* Mutants: the attempt is left as it is; a run with nothing to settle waits for it.
NeverSettled == /\ refresh.phase = "failing"
                /\ RunStep([refresh EXCEPT !.phase = "ending"], op)
SkipRejected == /\ refresh.phase = "failing" /\ Rejects /\ job = Idle
                /\ RunStep([refresh EXCEPT !.phase = "ending"], op)

\* Nothing to settle, or the settling rejects and is swallowed.
SkipSettling ==
  /\ refresh.phase = "failing"
  /\ refresh.fence = Empty \/ (Rejects /\ job = Idle)
  /\ RunStep([refresh EXCEPT !.phase = "ending"], op)

\* runExclusive rejects what the run asks for.
RunRejected ==
  /\ Rejects /\ job = Idle
  /\ \/ /\ refresh.phase = "admitted"
        /\ RunStep(NoRefresh, op)
     \/ /\ refresh.phase = "starting"
        /\ RunStep(Caught, op)
     \/ /\ refresh.phase = "publishing"
        /\ RunStep([refresh EXCEPT !.phase = "failing", !.result = "failed"], Released(op))

\* terminalize and cleanup, in the catch and in the finally.
EndRun ==
  /\ refresh.phase = "ending"
  /\ RunStep(NoRefresh, CleanedUp(Terminalized(op, "failed")))

Run == \/ RunAcquires \/ BeginQuestion \/ GatherEvidence \/ Submit \/ RunFails \/ Published
       \/ SkipSettling \/ RunRejected \/ EndRun
       \/ \E g \in Games : ModelReadsNote(g)

(***************************************************************************)
(* The owner.  A cancellation takes effect at once; disabling a question   *)
(* and deleting everything cancel the running refresh before they wait for *)
(* the coordinator.                                                        *)
(***************************************************************************)
Cancel ==
  /\ CancelAccepted(op) /\ op' = Cancelled(op)
  /\ UNCHANGED <<disk, collection, memory, job, owner, refresh, batches, faultVars>>

Ask(r) ==
  /\ owner = NoOwner /\ job.kind # "startup" /\ owner' = r
  /\ op' = IF r.kind = "enable" THEN op ELSE Cancelled(op)
  /\ UNCHANGED <<disk, collection, memory, job, refresh, batches, faultVars>>

\* Mutant: the owner waits for the end of a refresh.
OwnerAcquiresWhenIdle ==
  /\ refresh.phase = "idle"
  /\ \/ owner.kind \in {"enable", "disable"} /\ Acquire("set-enabled", owner.question)
     \/ owner.kind = "delete-all" /\ Acquire("purge", 0)
     \/ owner.kind = "confirm" /\ Acquire("settings", 1)
  /\ UNCHANGED <<disk, collection, memory, owner, runVars, faultVars>>

OwnerAcquires ==
  /\ \/ owner.kind \in {"enable", "disable"} /\ Acquire("set-enabled", owner.question)
     \/ owner.kind = "delete-all" /\ Acquire("purge", 0)
     \/ owner.kind = "confirm" /\ Acquire("settings", 1)
  /\ UNCHANGED <<disk, collection, memory, owner, runVars, faultVars>>

OwnerRejected ==
  /\ owner # NoOwner /\ Rejects /\ job = Idle /\ owner' = NoOwner
  /\ UNCHANGED <<disk, collection, memory, job, runVars, faultVars>>

Read == /\ Acquire("read", 0)
        /\ UNCHANGED <<disk, collection, memory, owner, runVars, faultVars>>

ChangeNote(g) ==
  /\ collection.rev < MaxRevision /\ Acquire("note", g)
  /\ UNCHANGED <<disk, collection, memory, owner, runVars, faultVars>>

\* Any other change of the collection: no reflection depends on it by name.
ChangeOther ==
  /\ collection.rev < MaxRevision /\ job = Idle
  /\ collection' = [collection EXCEPT !.rev = @ + 1]
  /\ UNCHANGED <<disk, memory, job, owner, runVars, faultVars>>

Owner == \/ Cancel \/ OwnerAcquires \/ OwnerRejected \/ Read \/ ChangeOther
         \/ \E asked \in {Questions} \cup {{q} : q \in Questions} : RequestRefresh(asked)
         \/ \E r \in Requests : Ask(r)
         \/ \E g \in Games : ChangeNote(g)

(***************************************************************************)
(* Failures of storage, and the death of the process.                      *)
(***************************************************************************)
Died == /\ context' = Unread /\ live' = {} /\ validated' = FALSE
        /\ job' = Startup /\ owner' = NoOwner
        /\ refresh' = NoRefresh /\ op' = NoOperation

\* The journal, a stage it names or the collection cannot be read during a recovery.
RecoveryUnreadable ==
  /\ job.step = "recover" /\ disk.journal # Empty
  /\ GoTo("reset") /\ UNCHANGED <<memory, owner, refresh, op>>

\* A storage call of the job fails without effect, and the job with it.  A note change
\* compensates; a failed validation or reading of what a recovery needs fails closed; a
\* failed startup ends the process.
StorageFails ==
  LET reading == job.step = "init" /\ ~Known    \* `initialized` rejects, and stays so
      entered == reading \/ job.step = "body"       \* the operation's own try was reached
      ours == job.kind \in {"start", "complete", "settle"} \/ (job.kind = "settings" /\ job.arg = 0)
  IN  /\ job # Idle /\ faults < MaxFaults /\ faults' = faults + 1
      /\ \/ /\ job.step = "validate"
            /\ job' = [job EXCEPT !.step = "reset", !.mode = "unvalidated"]
            /\ UNCHANGED <<memory, owner, refresh, op>>
         \/ RecoveryUnreadable
         \/ /\ job.step # "validate" /\ job.kind = "startup" /\ Died
         \/ /\ job.step # "validate" /\ job.kind = "note"
            /\ IF job.mode # "failing" /\ job.step \notin {"promote", "finish"}
               THEN job' = [job EXCEPT !.step = "compensate", !.mode = "failing"]
               ELSE job' = Idle
            /\ UNCHANGED <<memory, owner, refresh, op>>
         \/ /\ job.step # "validate" /\ job.kind \notin {"startup", "note"}
            /\ job' = Idle
            /\ context' = IF reading THEN Broken ELSE context
            /\ live' = IF entered /\ job.kind \in {"complete", "settle"}
                       THEN live \ {AttemptId(refresh.fence)} ELSE live
            /\ owner' = IF ours \/ job.kind = "read" THEN owner ELSE NoOwner
            /\ refresh' = CASE ~ours -> refresh
                            [] ours /\ job.kind = "settings" -> NoRefresh
                            [] job.kind = "settle" -> [refresh EXCEPT !.phase = "ending"]
                            [] OTHER -> Caught
            /\ op' = IF job.kind = "complete" THEN Released(op) ELSE op
            /\ UNCHANGED validated
      /\ UNCHANGED <<disk, collection, batches, crashes>>

\* One failure that hits two calls: saveCollection rejects although the file was written,
\* and the file cannot be read back to find that out.
SaveUnknown ==
  /\ At("note", "save") /\ faults < MaxFaults /\ faults' = faults + 1
  /\ collection' = [rev |-> collection.rev + 1,
                    note |-> [collection.note EXCEPT ![job.arg] = @ + 1]]
  /\ job' = [job EXCEPT !.step = "compensate", !.mode = "failing"]
  /\ UNCHANGED <<disk, memory, owner, runVars, crashes>>

Crash ==
  /\ crashes < MaxCrashes /\ crashes' = crashes + 1 /\ Died
  /\ UNCHANGED <<disk, collection, batches, faults>>

Init ==
  /\ collection = [rev |-> 1, note |-> [g \in Games |-> 1]]
  /\ \E cached \in [Questions -> {Empty} \cup
                      {[batch |-> 0, rev |-> 1, deps |-> deps] : deps \in [Games -> Priors]}] :
       disk = [state |-> [gen |-> 0, entry |-> [q \in Questions |->
                            [cache |-> cached[q], attempt |-> Settled("idle")]]],
               settings |-> [q \in Questions |-> TRUE],
               journal |-> Empty, stage |-> FALSE, settingsStage |-> FALSE]
  /\ context = Unread /\ live = {} /\ validated = FALSE /\ job = Startup
  /\ owner = NoOwner /\ refresh = NoRefresh /\ op = NoOperation
  /\ batches = 0 /\ faults = 0 /\ crashes = 0

Next == \/ Recovery \/ StateWork \/ Transaction \/ Run \/ Owner
        \/ StorageFails \/ SaveUnknown \/ Crash

Spec == Init /\ [][Next]_vars

\* The coordinator's queue is first come, first served, so whoever waits gets it again and
\* again until it is his; what holds it goes on.  The model may never answer, but an
\* aborted signal ends its session.
Fairness ==
  /\ WF_vars(Recovery) /\ WF_vars(StateWork) /\ WF_vars(Transaction)
  /\ SF_vars(RunAcquires) /\ SF_vars(OwnerAcquires) /\ SF_vars(GatherEvidence)
  /\ WF_vars(BeginQuestion) /\ WF_vars(op.aborted /\ RunFails) /\ WF_vars(Published)
  /\ WF_vars(SkipSettling) /\ WF_vars(EndRun)
FairSpec == Spec /\ Fairness

(***************************************************************************)
(* Properties                                                              *)
(***************************************************************************)
Phases == {"idle", "admitted", "next", "starting", "evidence", "model", "publishing",
           "published", "failing", "ending"}
Steps == {"none", "recover", "validate", "init", "body", "stage", "journal", "save", "promote",
          "promote-settings", "finish", "compensate", "reset", "drop", "unlink"}

Disk == [state : State, settings : [Questions -> BOOLEAN], journal : Journal \cup {Empty},
         stage : BOOLEAN, settingsStage : BOOLEAN]
Job == [kind : StateJobs \cup {"none", "startup", "note"}, step : Steps, arg : Nat \cup Games,
        resets : BOOLEAN, mode : {"normal", "unvalidated", "failing"}]
Refresh == [phase : Phases, batch : Nat, todo : SUBSET Questions, fence : Fence \cup {Empty},
            evidence : Evidence \cup {Empty}, result : {None, "completed", "cancelled", "failed"},
            fenced : BOOLEAN]

\* Every variable keeps its type.
TypeOK ==
  /\ disk \in Disk /\ collection \in [rev : Nat, note : [Games -> Nat]]
  /\ context \in Context \cup {Unread, Broken}
  /\ live \subseteq Nat \X Questions /\ validated \in BOOLEAN
  /\ job \in Job /\ refresh \in Refresh /\ op \in Operation
  /\ owner \in Request \cup {NoOwner} \cup [kind : {"confirm"}, question : Questions]
  /\ {batches, faults, crashes} \subseteq Nat

AtRest == job = Idle /\ disk.journal = Empty
CacheOf(q) == disk.state.entry[q].cache

\* Between operations, with no transaction left open, the file holds no answer that was
\* made from a note changed since, and none for a question that is switched off: whatever
\* died or failed between the writes of the two files, recovery has put them together.
AtRestCacheIsHonest ==
  AtRest => \A q \in Questions : CacheOf(q) # Empty =>
              NotesCurrent(CacheOf(q)) /\ disk.settings[q]

\* What a refresh saves is made from the sources as they are when it is saved, for a
\* question switched on, by an attempt that no deletion, note change or switching off has
\* overtaken and that no accepted cancellation has ended (completeAttempt's fence).
PublicationIsFenced ==
  [][\A q \in Questions :
       (At("complete", "body") /\ CacheOf(q)' # CacheOf(q)) =>
         /\ CacheOf(q)'.rev = collection.rev /\ NotesCurrent(CacheOf(q)')
         /\ disk.settings[q] /\ ~refresh.fenced /\ ~op.aborted]_vars

\* A note change is reported as made only when the purge it calls for is in the file: no
\* answer that examined the note is left, and no attempt begun before goes on.
AcceptedChangeHasPurged ==
  [][(At("note", "finish") /\ job' = Idle /\ disk'.journal = Empty) =>
       \A q \in Questions :
         /\ CacheOf(q) # Empty => NotesCurrent(CacheOf(q))
         /\ disk.state.entry[q].attempt.state # "refreshing"]_vars

\* As long as storage has not failed, no read shows an answer made from a superseded note,
\* although a read does not look at the notes: the purge, the recovery and the startup
\* validation must have come first, whenever the process died.
NoSupersededNoteShown ==
  [][(At("read", "body") /\ job' = Idle /\ faults = 0) =>
       \A q \in Questions :
         (context.settings[q] /\ context.state.entry[q].cache # Empty) =>
            NotesCurrent(context.state.entry[q].cache)]_vars

\* As long as storage has not failed, a read shows a question as refreshing only while a
\* run is at work on it: what a dead process left is never taken for one.
RefreshingShownIsReal ==
  [][(At("read", "body") /\ job' = Idle /\ faults = 0) =>
       \A q \in Questions : context.state.entry[q].attempt.state = "refreshing" =>
          refresh.fence # Empty /\ refresh.fence.question = q]_vars

\* As long as storage has not failed, liveAttemptIds, which suspends recovery, holds nothing
\* but the attempt of the run at work.
LiveAttemptIsRunning ==
  faults = 0 => live \subseteq (IF refresh.fence = Empty THEN {} ELSE {AttemptId(refresh.fence)})

\* The run reports "completed" exactly when the registry does, so never after an accepted
\* cancellation, and a cancellation it reports is recorded as one (commitTerminal, cancel).
OutcomesAgree ==
  refresh.phase = "ending" =>
    /\ refresh.result = "completed" <=> op.outcome = "completed"
    /\ refresh.result = "cancelled" => op.outcome = "cancelled"

\* The refreshing state is owned by the process: while the process lives, no recovery
\* turns its own running attempt into one that a restart interrupted.
LiveAttemptIsNotInterrupted ==
  [][job.step = "init" =>
       \A q \in Questions : <<refresh.batch, q>> \in live =>
          disk'.state.entry[q].attempt = disk.state.entry[q].attempt]_vars

\* An accepted cancellation ends the run, and frees the service for the next one.
CancelledRunEnds == op.aborted ~> refresh.phase = "idle"

\* Every owner request is answered: a refresh cannot starve it of the coordinator.
OwnerIsAnswered == owner # NoOwner ~> owner = NoOwner

=============================================================================
