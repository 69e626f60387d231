# Verification of the Shelf Judge daemon

Shelf Judge keeps a collection of board games and tells its owner what is worth keeping, what is
redundant and what on the wishlist would be. The program is a daemon (`src/packages/daemon`) that owns
the data files and a SQLite cache; the web application and the command line talk to it over HTTP.

This directory holds TLA+ models of the daemon, the TLC runs that check them and TLAPS proofs about
them. Paths below without a directory are under `src/packages/daemon/src/services/`.

## 1. The system

### 1.1 Parts, their state and their operations

| Part | State | Operations that change it |
|---|---|---|
| Judgment cache (`jev-pair-cache-service.ts`) | SQLite: `judgments`, `staged_judgments`, the singleton `run_batch`, `run_progress`, `publication_state` | reserve, checkpoint, seal, promote, save progress, purge by game / candidate / permission, finalize an acquisition |
| Run service (`jev-run-service.ts`) | `activeRuns`, a `RunControl` per run, `pendingFinalizations` | start, the worker `execute`, cancel, deadline, finalize, publish, retry, recover at startup |
| Run controller (`jev-run-controller.ts`) | receipts by request id, authorizations, `activeHandle` | prepare, start, cancel, retry, expire, trim |
| Collection mutation (`collection-mutation-service.ts`) | none of its own | one mutation: plan its impact, purge, save, clean up, notify |
| Storage (`storage-service.ts`, `source-vector.ts`, `stored-source-revision.ts`, `file-ops.ts`) | the JSON files; source revisions, signatures and external epochs | load, save, migrate, capture |
| Coordinator (`profile-source-coordinator.ts`) | a promise chain per storage, the wishlist generation | `runExclusive` |
| Snapshot cache (`collection-snapshot-cache-service.ts`) | flights, the last result | reserve, join, finish, resolve |
| Grounded operations (`grounded-analysis/`) | operation records with a terminal reservation, transports | start, claim and release a transport, cancel, reserve, commit, clean up |
| Analyst turns (`analyst-turn-service.ts`) | a turn's evidence, citations, submission | run a turn |
| Wishlist (`wishlist-service.ts`) | wishlist file | add, remove, refresh, acquire |
| Games, notes, intentions, axes, shelves, tournaments | their parts of the collection files | create, edit, delete; compare and undo |
| Reflections (`reflection-*.ts`) | reflection state files and a transaction log | refresh, publish, recover |
| Attention (`attention-*.ts`) | candidate artifact, dispositions | rebuild, dispose, maintain |
| Scoring (`unified-scoring-service.ts`, `displayed-fitness-service.ts`, engines) | none durable | compute from a capture |

`PROJECT.json` lists every part with its sources, its modules and its status.

### 1.2 How the parts interact

- A *run* judges pairs of owned games by their descriptions (signal C) and the owner's notes (signal D)
  with an external provider. It **stages** each pair's rows in the cache, **seals** its outcome and then
  **publishes**: it captures the sources, validates the staged rows against them and promotes what is
  still true in one transaction.
- *Readers* use published rows only, and keep what they compute while the cache's publication token and
  the source vector stand.
- *Mutations* change what judgments were judged from. Under the coordinator they purge the rows they make
  stale, then save the collection. Revoking the use of notes is the other way round: it is saved first, so
  that it stands even if the purge fails.
- The *coordinator* is a FIFO lock around everything that reads or writes sources. A mutation awaits the
  storage while it holds the lock; the provider is awaited without it.
- At *startup* the daemon purges note rows if note use is revoked, recovers an unresolved batch, and only
  then serves.

### 1.3 What is hard

Interleavings at awaits (a termination against the finalizer, two publishers of one batch, a late answer
of the provider), captures that are stale when they are used, failures of one step of several (a seal, a
purge after a save, `beginExecution` after the reservation), crashes between any two durable writes, a
table of one row that blocks everybody while it is occupied, and a history in which permission is
withdrawn and given again. `PROJECT.json` lists each hazard at its line with the properties that cover it.

### 1.4 What makes each part correct

- **Cache**: one unresolved batch; staged rows die with their batch; rows are valid under their key; the
  publication token and the staging revision mark every change of what they stand for; a sealed outcome is
  the published one; judgments are published once per run, whole.
- **Run service**: no judgment outlives what it was judged from; note judgments appear only under
  permission; what a caller was told is durable; late answers change nothing; a run reported completed is;
  every run is answered and every batch can be resolved.
- **Run controller**: a run begins only as it was disclosed, once, before its authorization expires; the
  owner can reach the run that is executing; a refused start leaves nothing behind that blocks the next.
- **Storage**: a capture and an authority read are the content of one instant; what the vector calls
  available is what the file says; no cached settings survive an authority read of another file; changes
  are attributed to who made them.
- **Snapshot cache**: what is cached is what the files said together under its identity; a complete answer
  is current when it is given; nobody waits for a build that has ended.
- **Grounded operations**: an operation has one outcome; a cancellation the owner was told of is honoured,
  one that came too late is refused.
- **Analyst turns**: the turn that may answer is the one the owner can cancel; the client is told what is
  recorded; the maps of identities keep their limit; a turn ends even if the model does not.
- **Reflections**: the cache holds no answer made from a note that changed since, whatever died or failed
  between the writes of the files; an attempt that was overtaken publishes nothing; a note change is
  reported as made only when its purge is; a cancelled refresh ends and the owner is not starved by one.

## 2. Modules

| Module | What it is |
|---|---|
| `JudgmentPublication` | Abstract: what readers are promised about judgments |
| `JevPairCache` | The cache: tables and one action per call; implements `JudgmentPublication` |
| `JevRun` | The run service, mutations, crashes and startup, over the cache (`INSTANCE JevPairCache`) |
| `RunController` | Previews, authorizations, receipts and the admission of runs |
| `SourceStorage` | The data files, the source vector, captures and authority reads, call by call, beside an editor |
| `SnapshotCache` | Requests for the collection snapshot, joined builds and their publication, over an abstract storage |
| `GroundedOperations` | The registry of operations, as functions on one operation's record |
| `AnalystTurns` | The turn route of the analyst, over `GroundedOperations` |
| `Reflections` | Reflection state, transactions, recovery and refresh runs, over `GroundedOperations` |
| `JevPairCacheProofs`, `JevRunProofs`, `SourceStorageProofs`, `RunControllerProofs`, `SnapshotCacheProofs`, `AnalystTurnsProofs`, `ReflectionsProofs` | Theorems and their proofs |
| `MCJevPairCache`, `MCJevRun`, `MCRunController`, `MCSourceStorage`, `MCSnapshotCache`, `MCAnalystTurns`, `MCReflections` | Finite constants for TLC |

Definitions named after a mutant (a comment says so) are plausible bugs; no specification uses them.
`TypeOK` is each module's statement of the types of its variables; where it is not an invariant of a run it
is part of a proved invariant or documentation.

### 2.1 `JudgmentPublication`

Three variables: `published`, `offered`, and `fate`, how far each run has come. A run opens only when no
other is unresolved, offers judgments, closes, and publishes once a part of what it still offers. Anybody
may withdraw judgments. An acquisition may move published judgments to other keys. Nothing is said of why.

### 2.2 `JevPairCache`

State and code: `judgments` and `staged` are functions from a key (pair and signal) to a row; `batch` and
`progress` are the singleton rows; `token` and `lastRun` are `publication_state`. A token is a fresh UUID
in the code and the next number here; nothing compares tokens but for equality. `fate` is a history
variable, what the cache has been asked for each run. A pair is a set of two ids; a pair with a candidate
is in the domain "wishlist-candidate" and has signal C only. A row is its kind and its `evidence`, which
stands for all that validation compares.

Each call is one SQLite transaction and one action; a call that throws is an action that is not enabled.
In `CacheSpec` the callers may make any call at any time with any arguments, except that a run id is
reserved once (it is a random UUID). That is more than the daemon does, so what holds here holds for any
caller.

### 2.3 `JevRun`

State and code:

| Variable | Code |
|---|---|
| `sources` | the collection and its settings on disk: versions of each description and note, the permission, its consent epoch, `policyIdentity`, the source vector |
| `mutation` | the mutation inside the coordinator, and whether it is about to save or to clean up |
| `mode` | startup: `starting`, `purged`, `recovering`, then `up` |
| `worker[r]` | `RunControl` (`terminalCause`, `sealCommitted`, `progress`) and the locals of `execute` |
| `publisher[<<r, who>>]` | one call of `publishSealedBatch`: the finalizer's or an explicit retry's (startup uses the second) |
| `pending[r]` | `pendingFinalizations` |
| `completion[r]` | what the run's completion promise was resolved with (history: it outlives the process) |

Actions and code: `Reserve` is `acceptValidatedRun` with `reserveRun`; `Begin`, `NextPair`, `Prepare`,
`Dispatch`, `AttemptFails`, `EvaluationFails`, `Checkpoint`, `Finish` and `WorkerStops` are the stretches
of `execute` between two awaits; `TerminateRun` is `terminateRun`; `FinalizeRun` and `FinalizerEnds` are
`finalizeRun`; `Snapshot`, `LoadCapture`, `Commit` are the stretches of `publishSealedBatch`;
`RetryPublication` and `RetryEnds` are `retryPublication`; `MutationBegins`, `MutationSaves`,
`MutationSaveFails`, `RevocationCleansUp` are `mutate`; `Crash`, `StartupPurge`, `Reconcile`, `Recovered`
are a crash and the startup in `index.ts`.

Whatever runs under the coordinator is one action guarded by `LockFree`. A mutation awaits storage while
it holds the coordinator, and cancellation, the deadline and answers that need no lock go on meanwhile, so
it is several actions.

Simplifications, and why they are sound for the properties:

- Texts and settings are version numbers; a judgment's evidence is the versions it was judged from.
- Token counts and run limits are a choice: any pair may reach a limit.
- `cacheHits` and `cacheMisses` are not counted; nothing reads them back.
- The deadline is a timer that may fire at any time. `expired()` calls `terminateRun` in the code, so a
  passed deadline is always the action `TerminateRun`. The timer is cleared before the seal.
- The scoring that `loadCapture` does between its reads is left out; it returns the sources of its last
  read, which is what the commit compares.
- A mutation changes one game. A mutation over several games purges them in one transaction each.
- The scope of a run is pairs of owned games (`RunConstants`); the cache's rows of wishlist candidates are
  the subject of `JevPairCache`.
- The files are changed by the daemon only; edits from outside are the subject of `SourceStorage`.
- `Reserve` asks that no run is active. The controller is a module of its own (`RunController`); here a run
  may be started at any time and for any of the owner's choices, which is more than the controller allows.

### 2.4 `SourceStorage`

`storage-service.ts` wraps every load, save, capture and authority read of a storage in the coordinator
(lines 1289-1343), so `op` is one operation at a time with its local state. Each of its file system calls is
an action; between any two the editor may replace or delete any file, and any call may fail. The actions:

| Actions | Code |
|---|---|
| `StartLoad`, `ReadFile`, `ReadRewrites`, `ReadFails` | `loadCollection`, `loadStoredSource`, `readStoredSource`: creation, migration, publication in the vector |
| `StartSave` | `saveStoredSource`; of the collection, a mutation's load and `saveCollection` |
| `Rename`, `RenameFails`, `Verify`, `VerifyFails` | `writeAtomically` and what its callers do when it throws |
| `StartCapture`, `Observe`, `ObserveFails`, `FileMissing`, `SnapshotReused`, `ReadsBegin`, `CaptureSucceeds`, `CaptureRetries` | `captureJevSourceSnapshot`, `observeJevSourceFiles` |
| `StartAuthority`, `AuthorityReads`, `AuthorityReadFails`, `NextPass`, `AuthorityRetries`, `AuthoritySucceeds` | `readCollectionSnapshotAuthority`, `fenceSnapshotSource` |

A file is its data, its revision (-1: none), whether a read would rewrite it, and a signature: what `stat`
says of it, here a number that no two writes share (device, inode, size and both times never recur).
`internal`, `unavailablePaths`, `lastObserved`, `externalEpoch` and `snapshot` are the variables of the same
names in the code; `instants`, `outside` and `lastCapture` are history. `scenario`, chosen once at the start,
bounds what is tried: which operations, what the editor writes and how often, and how the files were found.

Simplifications: an existence check and the read after it are one step, and so are the calls around one
read of an authority pass (when the file changes between them the code tries again, as it does between
passes); a failing `mkdir` is a failing rename; a capture reads the settings one after another in any
order instead of all at once, and a failing call ends it at once; the content of a settings file and of the
collection have the same shape. Operations that answer from memory without changing it are stuttering.
Startup and hydration, shelf configuration and the change token are left out, and a crash too: all that is
remembered here is of the process.

### 2.5 `RunController`

| Variable | Code (`jev-run-controller.ts`) |
|---|---|
| `authorizations[p]` | the record made by the p-th preview: what it froze, whether it expired or was consumed, and `executionStarted` of its frozen run |
| `receipts[p]` | the receipt of that preview's request id: pending, active or replayed |
| `starts[p]` | the call of `startUnifiedPrepared` under that receipt: at which await it is, and what the scan saw |
| `activeHandle` | `activeHandle` |
| `running`, `batch` | what the controller sees of the run service: `activeRuns` and the row of `run_batch` |
| `sources`, `wishlist`, `judgments` | the source vector and policy, the wishlist generation, the cache's `mutationRevision` |

A start goes through `Receive`, `Check` (`isSourceCurrent`), `Permit` (`canTransmitNotes`), `Validate`
(`prepareValidatedPreparedRun`), `Scan` (`scanUnifiedProviderReadiness`) and the admission under the
coordinator: `Decline`, `ScanAgain`, `Conflict` or `Reserve`. Between any two everything else may happen.
`Release` is the `finally` of the run's completion. `Settle` and `Resolve` are the run service's.

Simplifications: the token and the request id of an authorization name each other, so a start names a
preview; a preview is its last section, because what it waited for before has just been seen current;
`isAuthorized`, checked without waiting, is subsumed by the later checks that wait; `Answer` stands for
every start that changes only what expires. Left out: what a preview computes, a scope above the pair limit
and disabled redundancy (refusals like the others), and a provider key that appears while the daemon runs
(it is an environment variable). Everything here is local to the process, so a crash leaves the batch
alone, which is the subject of `JevRun`. The lifetimes of authorizations and receipts are independent
because both are options of the constructor.

### 2.6 `SnapshotCache`

`requests` are the calls of `resolve`, `flights` the builds they start or join, `section` the critical
section under the coordinator that is open at an await, `entry` the cached result. `mem` is what storage
remembers: revisions, sources out of service, the vector's change token, the cached settings and the last
authority read. `Reserve` is `reserve`; `BuildBegins` to `StillCurrent`, `Publish` and `GivesUp` are the
sections of `finishBuild` and of the capture; `Check` is the end of `resolve`; `Edit`, `Save`, `Judge` and
`Tick` are an editor, the daemon's own saves, changes of judgments and the clock.

Simplifications: two files, one read at every load (the collection, with the signature that judgments'
calculations compare) and one cached in memory (shelf configuration); an authority read is one step, which
`AnswersAreOneInstant` of `SourceStorage` justifies; so is a read of the judgments' revision; the
resolution of a flight's promise is part of the section that decides it; a request that joins a capture
shares one flight. Left out: the content of a snapshot, conditional requests, files that cannot be loaded.

### 2.7 `GroundedOperations`

`active-operation-registry.ts` without state of its own: `Started`, `Claimed`, `Detached`, `Terminalized`,
`Cancelled`, the reservation of a terminal outcome with its commit and release, and whether an interruption
that meets a reservation is refused or deferred. `Reflections` and `AnalystTurns` keep the records, and use
the two kinds of reservation. The transport controller beside it is created in `app.ts`, but no route of the
daemon uses it; it is not modelled.

### 2.8 `AnalystTurns`

`turn[c]` is where the handler of a request is, `op[c]` its record, `active` and `pending` the maps by
conversation, `identity` and `used` the maps `conversationIdentity` and `requestConversation`. Admission
waits once (`Receive`, then `Reject` or `Admit`); `Emit`, `Ask`, `Answered`, `Conclude`, `CommitEnding` and
`ReleaseEnding` are the turn; the four `Catch...` actions are the branches of its `catch`; `Expire`,
`Cancel`, `CancelAll`, `ReaderCancels` and `SignalFires` are the deadline, the owner, shutdown and the two
ways a client leaves.

Left out: what the turn service reads and submits, attestations, and the inspection of citations, which keep
nothing after the turn. The provider's configuration is read once at startup (`provider.ts:209`), so a
request that discloses another changes nothing.

### 2.9 `Reflections`

`disk` is the reflection files (settings, state, stage, journal), `collection` the collection file,
`context` is `initialized`, `live` is `liveAttemptIds`, `job` the operation that holds the coordinator with
the step it is at, `owner` the request being served, `refresh` the run. Each write of a file is an action:
`Stage`, `PublishJournal`, `SaveCollection`, `Promote` or `PromoteSettings`, `Finish` are a transaction, and
`Recovery` and `Initialize` what happens before the first operation of a process and after memory was
dropped. `StartBody`, `CompleteBody`, `SettleBody`, `PurgeBody`, `SettingsBody` and `ReadBody` are the
operations of `reflection-state-service.ts`; `RunAcquires` to `EndRun` the refresh service; `StorageFails`,
`SaveUnknown` and `Crash` fail or kill any step.

Simplifications: an attempt is named by its batch; per game a cached answer depends on nothing, on facts
only, or on a version of the note. Left out: `compensateAttempt` and `setEnabled` without a transaction,
which nothing in the daemon uses, deleted games (purged like a note change), the projections and the
validation of answers, files whose content does not parse (the settings and the state are replaced by fresh
ones, an unparsable journal or stage counts as one that cannot be read), and an `exists` that says no because
it failed.

A storage call that fails rejects and the job ends with it, with three exceptions that are in `StorageFails`:
a note change compensates, a failed validation fails closed, and so does a recovery that cannot read the
journal, the collection or a stage (`RecoveryUnreadable`): it resets the state, drops the stages and the
journal, and the job goes on. While compensating the same failure ends the job instead. `fenced` marks an
attempt once its generation cannot come back: a reset that leaves a settings stage behind is undone by the
next recovery if the stage was not dropped, so it marks nothing before that.

## 3. Runs

| Run | Module, cfg | Question |
|---|---|---|
| `cache` | `MCJevPairCache` | Does the cache keep its invariants for any caller, and implement `JudgmentPublication`? |
| `run` | `MCJevRun`, `MCJevRun.cfg` | One run against every mutation, revoking and permitting, cancellation, failure, retry and crash |
| `two_runs` | `MCJevRunTwo.cfg` | A run that starts while the one before is still being published |
| `liveness` | `MCJevRunLive.cfg` | A run of two pairs: is every run answered, every batch resolved? |
| `controller` | `MCRunController`, `MCRunController.cfg` | Two previews and their starts while everything around them changes |
| `controller_refusal` | `MCRunControllerRefused.cfg` | Does a refused start leave a batch behind? (a violation, section 3.3) |
| `storage` | `MCSourceStorage` | Loads, saves, captures and authority reads against an editor and failing calls |
| `snapshots` | `MCSnapshotCache` | Two requests for the snapshot while files, judgments and freshness change |
| `analyst_turns` | `MCAnalystTurns` | Two turns, of one conversation or two, interrupted at every wait |
| `reflections` | `MCReflections`, `MCReflections.cfg` | A refresh, a changing note and the owner's requests, with a failure and a death anywhere |
| `reflection_liveness` | `MCReflectionsLive.cfg` | A refresh of two questions: does it end, is the owner answered? |
| `reflection_ownership` | `MCReflectionsOwned.cfg` | Is a live attempt taken for a dead one? (a violation, section 3.3) |

### 3.1 What they show

- `StagedBelongsToBatch`, `BatchMatchesFate`, `EveryRowValid`, `TokenMarksEveryChange`,
  `RevisionMarksEveryChange`, `SealedOutcomeIsFinal`, `PublishesWholeRuns` hold of the cache whatever its
  callers do. All are also proved (section 5).
- `NoStaleJudgment`: published or staged, no row outlives the texts it was judged from; while notes are
  permitted, note rows carry the consent in force. Its mutant is a purge that forgets the shared kind.
- `NotesNeedPermission`: a note row becomes visible only while notes are permitted. Its mutant drops the
  permission from the validation of rows.
- `ProgressShowsBatch`: the durable progress is the batch's, and pending once it is sealed, although
  `saveRunProgress` does not ask who owns the batch. Without the question `runCanContinue` it would not be.
- `ToldOutcomeIsDurable`: unless the caller was told `unpersisted`, it was told the durable outcome; a
  cancellation that meets a sealed outcome must answer with that one.
- `LiveRunOwnsBatch`, `CompletedMeansWhole`: a live run's batch is its own, also while old runs are retried;
  in a completed run nothing failed or was left.
- `EveryRunSettles`, `EveryBatchResolves`, `EveryRequestIsAnswered`, `EveryTurnSettles`, `CancelledRunEnds`,
  `OwnerIsAnswered`: see section 4.
- `LiveRunIsReachable`: the run that is executing is the active one, and its receipt is there, so that it can
  be cancelled and a repeated start finds it. Its mutant lets pending receipts expire.
- `BeginsAsDisclosed`: what the checks of a start saw at five different moments still holds together at the
  one at which the run begins. Its mutant believes the scan although judgments were purged since.
- `OnlyWishlistStrandsBatch`: a refused start leaves no batch behind, except in the one case of 3.3.
- `AnswersAreOneInstant`: a capture or an authority read, which looks at one file after another and may
  answer from memory, returns what all files it found said at one moment of the call. Without the comparison
  of signatures it returns a mixture as soon as the editor writes twice. A file that an authority read missed
  is compared with nothing: it was missing at such a moment too, but two of them each at its own. (With one
  moment for all, six edits of two files refute it, more than the run makes; the proof showed it.)
- `VectorIsHonest`: after any failure, what the vector calls available has the revision and the cached
  content of the file, as long as the daemon wrote it. Its mutant does not mark a source whose rename
  failed after it had happened.
- `AuthorityFencesCaches`: an authority read leaves no cached settings of another file behind. Its mutant
  does not fence at the first read.
- `ExternalChangeIsAttributed`: a capture that returns what the editor wrote since the last has a greater
  external epoch. An edit that falls between the observation and the load of one capture and is migrated by
  that load is not returned as the editor wrote it, and is not attributed; that is why the property speaks
  of the signatures a capture returns. Its revision and freshness epoch change all the same.
- `EntryIsWhatItIdentifies`: the build reads one file after another, and identity and change token say
  afterwards that nothing moved; what is stored is nevertheless one state of the files. Its mutant compares
  revisions, which an editor need not change.
- `AnswersAreCurrent`: a complete answer shows the files, the judgments and the freshness of its moment,
  whether it was built, cached or joined. The checks overlap: most can be dropped one at a time and another
  catches the case. Its mutant asks the calculation for its sources but not for its judgments.
- `JoinedFlightIsPending`: nobody joins a build that has ended.
- `AnsweringTurnIsActive`: a turn that may answer is registered under its conversation. A turn past its
  deadline retires early and cleans up late; its mutant retires whoever is registered then.
- `ToldMatchesRegistry`: the terminal event the client got is the outcome the registry recorded, however
  cancellation, loss of the client and deadline meet the reservation of the outcome.
- `OutcomesAgree`: a refresh reports "completed" exactly when the registry recorded completion, and a
  cancellation it reports is recorded as one. A refresh that caught a failure before it saw its cancellation
  reports "failed" and is recorded as cancelled.
- `RetainedWithinLimit`: admissions that wait at once are counted before they are recorded.
- `StreamEndsWithTerminal`: the stream of a client that stayed ends in a terminal event, but for one case
  that is in the property (3.3).
- `AtRestCacheIsHonest`, `AcceptedChangeHasPurged`: a note change is four files' writes; whatever fails or
  dies between them, at rest the answers go with the notes, and a change is accepted only with its purge.
- `PublicationIsFenced`: what a refresh saves is of the sources as they are, of a question switched on, and of
  an attempt that nothing overtook.
- `NoSupersededNoteShown`, `RefreshingShownIsReal`, `LiveAttemptIsRunning`: reads look at no notes and ask no
  run, and yet show no superseded answer and no dead attempt, because recovery came first. They are stated
  for storage that did not fail; 3.3 says what happens when it does.

### 3.2 Bounds, and why they are enough

- Judgments: two or three owned games and one candidate. Rows of different pairs meet only in a purge by
  game and in the report's counts. The cache run has one pair of each domain that share a game, so an
  acquisition makes one into the other; `liveness` has two pairs with different fates; `run` and `two_runs`
  one.
- Runs of judgments: one, or two where the question is how a run meets the next (`two_runs`, symmetric). The
  table holds one batch, so a third run would find what the second finds.
- `Evidence`: two values; validation knows only equal and different. `MaxToken` 2 and `MaxRevision` 2 bound
  the numbers themselves: two changes are enough for one to be missed.
- `MaxEdits` 2 in `run`: a text or the permission changes twice around a judgment. `MaxFaults` 1 and
  `MaxCrashes` 1: one storage call fails, and the process dies once, anywhere.
- `Retries` (`finalCaptureRetries`) 1 or 0: the code's default allows several; one shows an attempt that
  follows another, none shows giving up. `Consents`, `Causes`, `Mutations` restrict what a run tries.
- Controller: two previews, one of the wishlist, and room for one held authorization, so trimming happens;
  two readiness attempts instead of three (one that is followed by another, and a last one). Two changes of
  sources, wishlist and judgments together (`MaxChanges`): a scan may be overtaken twice. Two previews never
  reach the limit of receipts; the theorems hold for any limit.
- Storage: the collection and one settings file; files meet only in a capture and an authority read. There
  are three scenarios. In two, saves and captures of missing or old files meet an editor who writes twice, or
  once while a call fails: the same data or a broken file. One write cannot make a mixture, two can. In the
  third all four operations run in any order, the editor puts back an old file once, a call fails, and the
  settings file is one that `invalidateJevPath` does not mark (`unmarked`). The owner saves once.
  `Attempts` 2 instead of 3: the last attempt and one before it.
- Snapshots: two requests of two attempts each, two builds or one that is joined. `MaxChanges` 2, where an
  edit of the collection counts one and everything else, a cold start included, counts two: an edit that is
  taken back is explored, and each other change against an undisturbed rest.
- Turns: two requests; one event before and after the model (the code sends three, and three with the
  blocks of the answer, by the same step); a limit of two identities, one of which may be taken.
- Reflections: one game with a note; one question in `reflections`, whose cached answer depends on the game in
  any way, with two note revisions; two questions in the other two, for requests that concern another
  question than the one at work, without failures.

Deadlock is checked in the runs of reflections. Elsewhere it is not: with every change, fault and request
spent the system has nothing left to do.

### 3.3 Disagreements between documents and code

Two are shown by runs:

- `controller_refusal`: `semantic-snapshot-cache.md:75` (in `src/.lore/work/design/`) has the admission
  validate the authorization and the frozen scope, then reserve the batch. The controller does not compare
  the wishlist generation under the coordinator, but `beginExecution` depends on it
  (`unified-scoring-service.ts:479`), for runs of the collection too, and is called after the batch was
  stored (`jev-run-service.ts:322`). A wishlist edit between the preparation of a start and its admission
  makes the answer `409 run-conflict` and leaves an active batch without a run, which refuses every later
  run until a retry or a restart. The test of this window changes the sources, which are compared.
- `reflection_ownership`: the comment at `reflection-state-service.ts:237` forbids recovery between
  operations for an attempt this process owns. Switching a question on drops what was read
  (`reflection-state-service.ts:429`) and keeps the attempt of another question; the next operation then
  marks that live attempt as interrupted by a restart, and its result is refused.

Others were met while modelling; the models contain them, and no property says otherwise:

- A retry of a published run is looked up in the progress of the last run (`jev-run-service.ts:531`) and is
  answered as unknown once another run was reserved, where `semantic-snapshot-cache.md:107` promises the
  existing outcome. Nothing is published twice.
- An authority read that finds a collection the daemon saved forgets that the daemon did
  (`storage-service.ts:721`), and the next capture advances the external epoch, which
  `storage-service.ts:126` keeps for changes that "originate outside storage writes". Captures stay correct.
- A save writes cached data over an edit from outside that was not read yet (`storage-service.ts:778`).
- The same request id sent at once in two conversations is admitted twice (`routes/analyst.ts:456`): both
  pass the check before either is recorded, against `collection-analyst-chat.md:295`.
- A cancelled turn whose deadline then passes ends with an errored stream and no terminal event
  (`routes/analyst.ts:918`); this is the exception in `StreamEndsWithTerminal`. A turn whose deadline passed
  gives up its conversation before its failure is written, while a provider that ignores the abort may
  still be at work.
- What was deleted may come back. By `grounded-profile-reflections.md:156` (in `src/.lore/work/intents/`)
  switching a question on "never restores deleted output" and deleting everything "removes every cached
  result". When switching on fails after its journal was written, the journal waits for a recovery, and while
  an attempt is live `runExclusive` recovers only if the state file changed (`reflection-state-service.ts:239`).
  A deletion served then empties the file and is accepted; the next recovery promotes what the journal staged
  (`reflection-transaction-service.ts:161`), with the results from before. A change of a note that fails
  between the collection and the state can do the same.
- After a failing reflection write: a superseded answer may be shown while an attempt is live after a failed
  promotion; a journal that could not be removed may roll back a completed result; a failing read during an
  operation may leave a live id behind. These are the `faults = 0` of the three properties above.
- A revocation whose purge failed leaves note rows in the tables until the next permission or startup.
  Validation keeps them from readers and publishers, so `NoStaleJudgment` is stated for the time notes are
  permitted and `NotesNeedPermission` for the rest.
- A publication after a restart, or a retry directly after a termination, has no prepared capture and skips
  the comparison of policies; only the validation of each row remains.

## 4. Fairness

What the code's scheduling gives is claimed and nothing of the owner, the client or the model: no
cancellation and no good answer is ever owed. Faults and crashes are finitely many.

- `JevRun`: a promise that may settle does (weak fairness of each worker, publisher, finalizer and mutation
  step), the deadline timer fires, the coordinator serves who waits (a FIFO queue that no holder keeps for
  ever), a crashed process is started again. `EveryRunSettles` needs no more. `EveryBatchResolves` needs also
  `OwnerRetries`: someone asks for the publication of a run as long as it is pending. That is an assumption
  about the environment: the code retries a publication a few times by itself, and then only when it is
  asked or restarted.
- `SnapshotCache`: weak fairness of `Works`, all steps of requests and builds together.
- `AnalystTurns`: weak fairness of each handler and of each deadline timer; none for the model's answer, so
  `EveryTurnSettles` rests on the timer.
- `Reflections`: weak fairness of the steps of the operation that holds the coordinator, and strong fairness
  of those that wait for it (`RunAcquires`, `OwnerAcquires`, `GatherEvidence`): its queue is FIFO, so who
  waits is served although others come again and again. The model owes no answer; `CancelledRunEnds` rests
  on the aborted signal.

## 5. Proofs

**`JevPairCacheProofs`**, for all sets of games, candidates, pairs, runs and reports:

- `CacheInvariant`: `CacheInv`, the conjunction of `CacheTypeOK`, `StagedBelongsToBatch`,
  `BatchMatchesFate` and `EveryRowValid`, is inductive. None of the last three is inductive alone: that an
  acquisition's rows are valid needs that the candidate's are, that a promotion's are needs the staged ones;
  that one run is unresolved needs the agreement of batch and history; and all of them need the types.
- `CacheTypeCorrect`, `NoOrphanStaging`, `OneUnresolvedRun`, `RowsStayValid`: its conjuncts.
- `TokenMarks`, `RevisionMarks`, `SealedIsFinal`: the action properties, from the invariant and one lemma
  per group of operations.
- `CachePublishesWholeRuns`: the cache implements `JudgmentPublication`. Initial states map to initial
  states; each operation is an `Open`, `Offer`, `Close`, `Publish`, `Withdraw`, `Move` or a stutter.

Assumption `CacheConstants`: the sentinels (`NoRow`, `NoBatch`, `NoProgress`, `NoRun`) are none of the data
and a running report is not a terminal one.

**`JevRunProofs`**, for any games, pairs of them, runs, mutations, faults, crashes and retries
(`RunConstants`: finitely many pairs, sentinels apart from the data): `RunInvariant`, and from it
`RunTypeCorrect`, `JudgmentsStayTrue`, `ProgressIsTheBatchs`, `LiveRunOwns`, `ToldIsDurable`,
`CompletedIsWhole`; `NotesVisibleWhenPermitted`; and `RunServicePublishesWholeRuns`, that the service with
all its failures implements `JudgmentPublication`. `RunInv` is

- `TablesOK`, the invariant of the cache with the agreement of the durable progress with the batch;
- of each run (`RunOK`): a live run owns the active batch, has counted its pairs and holds a capture no newer
  than the sources, or has sealed and knows how; a finalizer and an answered caller know the sealed report;
- `RowsTrue`: each row says what the sources say. It is more than `NoStaleJudgment`, which is not inductive:
  while notes are not permitted it does not look at the consent epoch, and a description judgment with a wrong
  epoch would become stale when they are permitted again. So a description judgment has no epoch (-1) at all;
- `PurgedOK`: what the mutation about to be saved makes stale has been purged already.

The tables change only by the cache's operations, so the proof has two halves: what each operation leaves
right for every run (`Keeps`, `Shrunk`), and what each handler leaves right for its own.

**`SourceStorageProofs`**, for any files, data, scenarios and bounds (`StorageConstants`): `TypeCorrect`,
`VectorHonest`, `AuthorityFences`, and the action properties `OneInstantAnswered` and `ChangeAttributed`.
The argument is that a replaced file gets a signature no file had, so that content remembered with a
signature stays right while the file has it (`Says`). `StorageInv` says so of everything remembered: of what
an operation collected (`CollectedOK`, `AuthorityOK`), of what may be served (`MemoryOK`), and that there was
a moment the answer in the making is of (`InstantsOK`): for a capture after its first pass, before it answers
from memory, and in an authority read when a file was read the second time.

**`RunControllerProofs`**, for any number of previews, receipts, attempts and changes
(`ControllerAssumption`: the bounds are natural numbers, at least one attempt): `ControllerInvariant`, and
from it `RunsBeginAsDisclosed` and `RefusalsStrandNothingElse`. The invariant adds to `LiveRunIsReachable`
that every preparation has its receipt and every active handle its own; that notes are asked for in
collection runs only; that a frozen run that was begun is consumed; and that what a scan saw is what the
judgments are as long as their revision stands. Without the last, the admission's comparison of revisions
would prove nothing.

**`SnapshotCacheProofs`**, for any requests, data, edits and bound (`SnapshotConstants`: files and sentinels
are different things, transitions are times): `SnapshotInvariant`, with `CachedSaysWhatItIdentifies` and
`NobodyJoinsALandedFlight`; `AnswersInvariant`, with the action property `AnswersStayCurrent`.
`SnapshotInv` says that signatures are of the past, that what storage remembers follows the files as long as
nothing was fenced (`MemoryOK`), and that what a build captured is what storage remembers as long as the
change token stands and what the collection says as long as its signature does (`FlightsOK`). The lemma
`StoredSaysIdentity` combines them at the publication. `AnswersOK`, inductive beside it, follows what was made
to whoever takes it: judgments and expiry stay those of the calculation (`BuiltOK`, `CachedOK`), a request
only looks at a build that was published (`WaitersOK`), and the entry has judgments no older, and expires no
earlier, than any result stored before it. The last is what a request needs that waited for one build and is
answered from the entry of another; `FreshOutlives` shows it at the publication, from the freshness checked
there.

**`AnalystTurnsProofs`**, for any calls, conversations, request ids and limit (`AnalystAssumption`):
`TurnsInvariant`, and from it `WhoAnswersCanBeCancelled`, `IdentitiesAreBounded`, `ToldIsRecorded` and the
action property `StreamsEndWithTerminal`. `TurnsInv` says of the maps that who is registered is running and
who validates waits alone (`RegistersOK`), that the identities are finite and bounded (`IdentitiesOK`), and
of each call how its stage, its record and what the client was told go together (`CallOK`). The functions of
`GroundedOperations` have their own lemmas, used by every step that calls them.

**`ReflectionsProofs`**, for any questions, games, requests and bounds, and first answers that depend on any
versions of the notes (`ReflectionConstants`: finitely many questions, which are numbers, and sentinels apart
from the data): `ReflectionInvariant`, and from it `ReflectionsTypeCorrect`, `HonestAtRest`,
`AcceptedHasPurged`, `PublicationFenced`, `OutcomesTold`, `LiveIsRunning`, `NoSupersededShown` and
`RefreshingIsReal`. `ReflectionInv` says

- what the operation at work, the run's phase and its record in the registry say of each other (`JobOK`,
  `PhaseOK`, `OperationOK`);
- of the files, that no answer is made from a changed note or for a question switched off (`HonestOK`: while
  there is no journal, and at startup only once the validation has looked), that the same is true of whatever
  a recovery may make of the journal, given what the collection says by then (`JournalOK`), and what is true
  before each write (`StepOK`). `AtRestCacheIsHonest` alone is not inductive: a death leaves the files in
  between;
- that memory is of a generation, and that a generation never becomes that of something outdated
  (`MemoryOK`, `FenceOK`): the first write of a state that overtakes an attempt gives it a generation that
  nothing refers to, so an attempt that was overtaken finds another one. Switching a question on keeps the
  generation, and its stage may outlive a reset of the file, so `FenceOK` is about what the file may still
  become (`Prospects`) and not only about the file;
- as long as no storage call has failed (`UnfailingOK`), that there is no journal while an operation works on
  the state, and that what is shown as refreshing is the attempt of the run (`ShownOK`).

A new generation is the least number nothing refers to, so the lemma `NewIsNew` counts what refers to one.

Every invariant, action property and refinement that a passing run checks is stated by a theorem. Only
model-checked is liveness (`EveryRunSettles`, `EveryBatchResolves`, `CancelledRunEnds`, `OwnerIsAnswered`,
`EveryTurnSettles`, `EveryRequestIsAnswered`): the prover has no rule for `ENABLED`. The runs that expect a
violation state what does not hold. No module declares a recursive operator; induction over data would stay
with TLC too.

## 6. Plan

Done: the judgment cache and its proofs, the run service, storage, the controller, the snapshot cache, the
analyst's turns, reflections. Next, in this order:

1. Wishlist runs (`executeWishlist`) and the acquisition of a candidate with its recovery at startup
   (`wishlist-service.ts:573`), over the cache's transaction that is modelled already.
2. The readers of judgments: tokens compared before and after a calculation, beside what `SnapshotCache`
   has of them.
3. Proofs: the order of priorities in `NextQuestion` and other facts about what the models choose.
4. Hydration and shelf configuration in `SourceStorage`.
5. Dispositions against the artifact they were made for; revisions of owner notes.

## 7. Not modelled, and why

- Scoring, statistics, Elo and purchase amounts: floating-point or rational arithmetic without concurrency.
- Bin packing and pairings: pure functions, for a later comparison with a reference definition.
- Games, axes, intentions, tournaments: each operation is one mutation under the coordinator, the shape
  `JevRun` has of a mutation.
- The BoardGameGeek client, the provider clients, HTTP routes, the command line and the web application are
  input and output around the services.
- Validation, types and schema migrations (`shared/src/`) are conversions of data; the models start from
  data that passed them.
- Grounded evidence, citation and destination registries live for one turn and check formats.
- The transport controller of grounded operations: no route uses it.

Most of the repository's lines are user interface, validation and formatting, which is why the map covers a
small part of them; it covers the services that keep state between requests. What is planned but not there
yet is in section 6.
