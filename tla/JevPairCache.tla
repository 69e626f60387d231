----------------------------- MODULE JevPairCache -----------------------------
(***************************************************************************)
(* The daemon's SQLite cache of similarity judgments                       *)
(* (jev-pair-cache-service.ts).  Every operation of the cache is one       *)
(* SQLite transaction, so it is one action here; an operation that throws  *)
(* changes nothing and is an action whose guard is false.                  *)
(*                                                                         *)
(* Two tables hold judgments: `judgments`, which readers see, and          *)
(* `staged`, which only the run that owns the unresolved batch sees.  The  *)
(* batch row is a singleton.  The tables' schema, the JSON encoding of a   *)
(* row and the activation row (no code ever writes one) are left out.      *)
(***************************************************************************)
EXTENDS Integers, FiniteSets

CONSTANTS Games,           \* local ids of owned games
          Candidates,      \* ids of games on the wishlist
          Pairs,           \* pairs of games a judgment can be about
          Runs,            \* run ids: randomUUID, never used twice
          Evidence,        \* what a judgment was judged from and what it says
          RunningReports,  \* progress of a run, without run id and publication,
          TerminalReports, \* while it runs, and once it has ended
          NoRow, NoBatch, NoProgress, NoRun,
          MaxToken,        \* bound: publication tokens handed out
          MaxRevision      \* bound: staging revision of one batch

Reports == RunningReports \cup TerminalReports
Signals == {"C", "D"}
NoteKinds == {"D_ONLY", "SHARED_CD"}
Kinds == {"C_ONLY"} \cup NoteKinds

\* A pair with a wishlist candidate lives in the domain "wishlist-candidate", the
\* others in "collection"; candidate pairs have a description signal only.
IsCandidatePair(p) == p \cap Candidates # {}
Key == {k \in Pairs \X Signals : IsCandidatePair(k[1]) => k[2] = "C"}
CollectionKeys == {k \in Key : ~IsCandidatePair(k[1])}
CandidateKeys == {k \in Key : IsCandidatePair(k[1])}

Content == [kind : Kinds, evidence : Evidence]
Rows == [Key -> Content \cup {NoRow}]
Empty == [k \in Key |-> NoRow]

\* What `validate` accepts under a key.
ValidRow(k, row) ==
  /\ row \in Content
  /\ row.kind = "C_ONLY" => k[2] = "C"
  /\ row.kind = "D_ONLY" => k[2] = "D"
  /\ IsCandidatePair(k[1]) => row.kind = "C_ONLY"

ASSUME CacheConstants ==
  /\ MaxToken \in Nat /\ MaxRevision \in Nat
  /\ RunningReports \cap TerminalReports = {}
  /\ NoRow \notin Content /\ NoRun \notin Runs
  /\ NoBatch \notin [run : Runs, state : {"active", "sealed"}, revision : Nat, report : Reports]
  /\ NoProgress \notin [run : Runs, report : Reports,
                        pub : {"none", "pending", "published", "unchanged"}]

VARIABLES
  judgments, \* table judgments: [Key -> row or NoRow]
  staged,    \* table staged_judgments, the rows of the unresolved batch
  batch,     \* table run_batch: the unresolved batch or NoBatch
  progress,  \* table run_progress: the last run's progress or NoProgress
  token,     \* publication_state.token; a fresh UUID is the next number
  lastRun,   \* publication_state.last_run_id
  fate       \* history: how far each run has come (no code reads it)

cacheVars == <<judgments, staged, batch, progress, token, lastRun, fate>>

CacheTypeOK ==
  /\ judgments \in Rows
  /\ staged \in Rows
  /\ batch \in [run : Runs, state : {"active", "sealed"}, revision : Nat, report : Reports]
               \cup {NoBatch}
  /\ progress \in [run : Runs, report : Reports,
                   pub : {"none", "pending", "published", "unchanged"}] \cup {NoProgress}
  /\ token \in Nat
  /\ lastRun \in Runs \cup {NoRun}
  /\ fate \in [Runs -> {"new", "open", "sealed", "published"}]

CacheInit ==
  /\ judgments = Empty
  /\ staged = Empty
  /\ batch = NoBatch
  /\ progress = NoProgress
  /\ token = 0
  /\ lastRun = NoRun
  /\ fate = [r \in Runs |-> "new"]

\* The rows of `new` laid over those of `base`, and `rows` without those at `gone`.
Overlay(base, new) == [k \in Key |-> IF new[k] # NoRow THEN new[k] ELSE base[k]]
Erase(rows, gone) == [k \in Key |-> IF k \in gone THEN NoRow ELSE rows[k]]
Only(rows, kept) == [k \in Key |-> IF k \in kept THEN rows[k] ELSE NoRow]
Held(rows) == {k \in Key : rows[k] # NoRow}

Owns(r, state) == batch # NoBatch /\ batch.run = r /\ batch.state = state

(***************************************************************************)
(* Progress                                                                *)
(***************************************************************************)
ProgressOf(r, report, pub) == [run |-> r, report |-> report, pub |-> pub]

SaveRunProgress(r, report) ==
  /\ progress' = ProgressOf(r, report, "none")
  /\ UNCHANGED <<judgments, staged, batch, token, lastRun, fate>>

\* Pending publication is recorded only while the sealed batch is still the run's
\* own; otherwise the call returns false and writes nothing.
SaveSealedRunProgressIfOwned(r, report) ==
  /\ progress' = IF Owns(r, "sealed") /\ batch.report = report
                   THEN ProgressOf(r, report, "pending") ELSE progress
  /\ UNCHANGED <<judgments, staged, batch, token, lastRun, fate>>

(***************************************************************************)
(* The life of a batch                                                     *)
(***************************************************************************)
\* Mutant: a reservation replaces the batch it finds.
ReserveOverBatch(r, report) ==
  /\ report \in RunningReports
  /\ batch' = [run |-> r, state |-> "active", revision |-> 0, report |-> report]
  /\ progress' = ProgressOf(r, report, "none")
  /\ fate' = [fate EXCEPT ![r] = "open"]
  /\ UNCHANGED <<judgments, staged, token, lastRun>>

ReserveRunBatch(r, report) ==
  /\ report \in RunningReports
  /\ batch = NoBatch
  /\ batch' = [run |-> r, state |-> "active", revision |-> 0, report |-> report]
  /\ progress' = ProgressOf(r, report, "none")
  /\ fate' = [fate EXCEPT ![r] = "open"]
  /\ UNCHANGED <<judgments, staged, token, lastRun>>

\* One or two rows of one pair, and the progress that counts the pair, together.
CheckpointStagedPair(r, rows, report) ==
  /\ Owns(r, "active")
  /\ report \in RunningReports
  /\ Held(rows) # {}
  /\ \E p \in Pairs : \A k \in Held(rows) : k[1] = p /\ ValidRow(k, rows[k])
  /\ staged' = Overlay(staged, rows)
  /\ batch' = [batch EXCEPT !.revision = @ + 1, !.report = report]
  /\ progress' = ProgressOf(r, report, "none")
  /\ UNCHANGED <<judgments, token, lastRun, fate>>

\* Mutant: a second seal overwrites the outcome.
ResealRunBatch(r, report) ==
  /\ report \in TerminalReports
  /\ Owns(r, "active") \/ Owns(r, "sealed")
  /\ batch' = [batch EXCEPT !.state = "sealed", !.report = report]
  /\ progress' = ProgressOf(r, report, "pending")
  /\ fate' = [fate EXCEPT ![r] = "sealed"]
  /\ UNCHANGED <<judgments, staged, token, lastRun>>

\* Sealing again with the same outcome is accepted and does nothing.
SealRunBatch(r, report) ==
  /\ report \in TerminalReports
  /\ \/ /\ Owns(r, "active")
        /\ batch' = [batch EXCEPT !.state = "sealed", !.report = report]
        /\ progress' = ProgressOf(r, report, "pending")
        /\ fate' = [fate EXCEPT ![r] = "sealed"]
     \/ /\ Owns(r, "sealed") /\ batch.report = report
        /\ UNCHANGED <<batch, progress, fate>>
  /\ UNCHANGED <<judgments, staged, token, lastRun>>

\* Mutant: any batch of the run may be promoted, sealed or not.
CanPromoteUnsealed(r, eligible, expected, report) ==
  /\ lastRun # r
  /\ batch # NoBatch /\ batch.run = r
  /\ batch.revision = expected
  /\ \A k \in Held(eligible) : eligible[k] = staged[k]

\* The caller names the staging revision it validated and the rows it found
\* eligible: each must still be the staged row.
CanPromote(r, eligible, expected, report) ==
  /\ lastRun # r
  /\ Owns(r, "sealed")
  /\ batch.revision = expected
  /\ batch.report = report
  /\ \A k \in Held(eligible) : eligible[k] = staged[k]

\* Mutants: promotion leaves the rows it refused in staging; replacing a published row is
\* not counted as a change.
PromoteKeepingRefused(r, eligible, expected, report) ==
  /\ CanPromote(r, eligible, expected, report)
  /\ judgments' = Overlay(judgments, eligible)
  /\ staged' = Erase(staged, Held(eligible))
  /\ batch' = NoBatch
  /\ progress' = ProgressOf(r, report, IF judgments' # judgments THEN "published" ELSE "unchanged")
  /\ token' = IF judgments' # judgments THEN token + 1 ELSE token
  /\ lastRun' = r
  /\ fate' = [fate EXCEPT ![r] = "published"]

PromoteCountingNewRows(r, eligible, expected, report) ==
  LET added == Held(eligible) \ Held(judgments)
  IN /\ CanPromote(r, eligible, expected, report)
     /\ judgments' = Overlay(judgments, eligible)
     /\ staged' = Empty
     /\ batch' = NoBatch
     /\ progress' = ProgressOf(r, report, IF added # {} THEN "published" ELSE "unchanged")
     /\ token' = IF added # {} THEN token + 1 ELSE token
     /\ lastRun' = r
     /\ fate' = [fate EXCEPT ![r] = "published"]

PromoteRunBatch(r, eligible, expected, report) ==
  /\ CanPromote(r, eligible, expected, report)
  /\ judgments' = Overlay(judgments, eligible)
  /\ staged' = Empty
  /\ batch' = NoBatch
  /\ progress' = ProgressOf(r, report, IF judgments' # judgments THEN "published" ELSE "unchanged")
  /\ token' = IF judgments' # judgments THEN token + 1 ELSE token
  /\ lastRun' = r
  /\ fate' = [fate EXCEPT ![r] = "published"]

(***************************************************************************)
(* Invalidation                                                            *)
(***************************************************************************)
\* Mutant: a purge deletes staged rows but does not bump the staging revision.
PurgeQuietly(keys, kinds) ==
  LET Hit(rows) == {k \in keys \cap Held(rows) : rows[k].kind \in kinds}
  IN /\ judgments' = Erase(judgments, Hit(judgments))
     /\ staged' = Erase(staged, Hit(staged))
     /\ token' = IF Hit(judgments) \cup Hit(staged) # {} THEN token + 1 ELSE token
     /\ UNCHANGED <<batch, progress, lastRun, fate>>

\* Deletes the rows of the given kinds at `keys`, published and staged alike; the
\* staging revision moves when a staged row went, the token when any row went.
Purge(keys, kinds) ==
  LET Hit(rows) == {k \in keys \cap Held(rows) : rows[k].kind \in kinds}
  IN /\ judgments' = Erase(judgments, Hit(judgments))
     /\ staged' = Erase(staged, Hit(staged))
     /\ batch' = IF Hit(staged) # {} /\ batch # NoBatch
                   THEN [batch EXCEPT !.revision = @ + 1] ELSE batch
     /\ token' = IF Hit(judgments) \cup Hit(staged) # {} THEN token + 1 ELSE token
     /\ UNCHANGED <<progress, lastRun, fate>>

InvalidateGame(g, kinds) == Purge({k \in CollectionKeys : g \in k[1]}, kinds)
PurgeCandidate(c) == Purge({k \in CandidateKeys : c \in k[1]}, {"C_ONLY"})
PurgeDDependent == Purge(Key, NoteKinds)

\* The candidate c was acquired as the local game a: the rows of the pairs in `moved`
\* become rows of a with the other game, unless a different row is there already (the
\* call throws); the rest of c's rows go.
KeysOfCandidate(c) == {k \in CandidateKeys : c \in k[1]}
\* Mutant (of AcquiredKey): the moved row lands under the other signal.
AcquiredNoteKey(p, c, a) == <<(p \ {c}) \cup {a}, "D">>
AcquiredKey(p, c, a) == <<(p \ {c}) \cup {a}, "C">>
Arriving(k, c, a, moved) ==
  {judgments[<<p, "C">>] : p \in {q \in moved : AcquiredKey(q, c, a) = k}} \ {NoRow}

FinalizeCandidateAcquisition(c, a, moved) ==
  LET mine == KeysOfCandidate(c)
      stagedGone == mine \cap Held(staged)
  IN /\ \A p \in moved : <<p, "C">> \in mine /\ AcquiredKey(p, c, a) \in CollectionKeys
     /\ \A k \in CollectionKeys : \A row \in Arriving(k, c, a, moved) : judgments[k] \in {NoRow, row}
     /\ judgments' = [k \in Key |->
          IF k \in mine THEN NoRow
          ELSE IF Arriving(k, c, a, moved) = {} THEN judgments[k]
          ELSE CHOOSE row \in Arriving(k, c, a, moved) : TRUE]
     /\ staged' = Erase(staged, stagedGone)
     /\ batch' = IF stagedGone # {} /\ batch # NoBatch
                   THEN [batch EXCEPT !.revision = @ + 1] ELSE batch
     /\ token' = IF (mine \cap Held(judgments)) \cup stagedGone # {} THEN token + 1 ELSE token
     /\ UNCHANGED <<progress, lastRun, fate>>

(***************************************************************************)
(* The cache by itself: its callers may make any call at any time, with a  *)
(* run id they have not reserved before.                                   *)
(***************************************************************************)
RowsOfPair == {rows \in Rows : /\ \A k \in Held(rows) : ValidRow(k, rows[k])
                               /\ \E p \in Pairs : \A k \in Held(rows) : k[1] = p}

\* Model bounds: a call that may move the token or the staging revision is made only
\* while they are below MaxToken and MaxRevision.
TokenRoom == token < MaxToken
RevisionRoom == batch # NoBatch => batch.revision < MaxRevision

Reserving(r) == fate[r] = "new" /\ \E rep \in RunningReports : ReserveRunBatch(r, rep)
Checkpointing(r) ==
  RevisionRoom /\ \E rep \in RunningReports, rows \in RowsOfPair : CheckpointStagedPair(r, rows, rep)
SavingProgress(r) == Owns(r, "active") /\ \E rep \in RunningReports : SaveRunProgress(r, rep)
Sealing(r) == \E rep \in TerminalReports : SealRunBatch(r, rep)
SavingSealed(r) == \E rep \in TerminalReports : SaveSealedRunProgressIfOwned(r, rep)

Promoting(r) ==
  /\ TokenRoom
  /\ \E rep \in TerminalReports, kept \in SUBSET Held(staged), rev \in 0 .. MaxRevision :
        PromoteRunBatch(r, Only(staged, kept), rev, rep)

\* The kinds a mutation purges for a game: its description changed, its note, or both.
Invalidating(g) ==
  /\ TokenRoom /\ RevisionRoom
  /\ \E kinds \in {{"C_ONLY", "SHARED_CD"}, NoteKinds, Kinds} : InvalidateGame(g, kinds)

Deciding(c) == TokenRoom /\ RevisionRoom /\ PurgeCandidate(c)
Revoking == TokenRoom /\ RevisionRoom /\ PurgeDDependent
Acquiring(c) ==
  /\ TokenRoom /\ RevisionRoom
  /\ \E a \in Games, moved \in SUBSET {p \in Pairs : IsCandidatePair(p)} :
        FinalizeCandidateAcquisition(c, a, moved)

CacheNext ==
  \/ \E r \in Runs : \/ Reserving(r) \/ Checkpointing(r) \/ SavingProgress(r)
                      \/ Sealing(r) \/ SavingSealed(r) \/ Promoting(r)
  \/ \E g \in Games : Invalidating(g)
  \/ \E c \in Candidates : Deciding(c) \/ Acquiring(c)
  \/ Revoking

CacheSpec == CacheInit /\ [][CacheNext]_cacheVars

(***************************************************************************)
(* Properties                                                              *)
(***************************************************************************)
\* Staged rows exist only while a batch is unresolved: resolving a batch or refusing
\* one leaves nothing that a later run could take for its own evidence.
StagedBelongsToBatch == batch = NoBatch => staged = Empty

\* One run at a time: an unresolved run is the run of the one batch, and the batch is
\* active or sealed as its run is.
BatchMatchesFate ==
  \A r \in Runs : /\ fate[r] = "open" <=> Owns(r, "active")
                  /\ fate[r] = "sealed" <=> Owns(r, "sealed")

\* Every row is one `validate` would accept under the key it is stored at: moving a
\* candidate's rows to owned games never leaves a note judgment under a candidate, or a
\* row of one signal under the other.
EveryRowValid ==
  \A k \in Key : /\ judgments[k] # NoRow => ValidRow(k, judgments[k])
                 /\ staged[k] # NoRow => ValidRow(k, staged[k])

\* A reader that kept the publication token may go on using what it computed while the
\* token stands: published rows change only together with the token.
TokenMoves == judgments' # judgments => token' > token
TokenMarksEveryChange == [][TokenMoves]_cacheVars

\* A staging revision read earlier identifies the staged rows: while a batch lives its
\* rows change only together with the revision, which never goes back.
RevisionMoves ==
  (batch # NoBatch /\ batch' # NoBatch) =>
     /\ batch'.revision >= batch.revision
     /\ staged' # staged => batch'.revision > batch.revision
RevisionMarksEveryChange == [][RevisionMoves]_cacheVars

\* The outcome a run was sealed with is the outcome it is published with: a sealed batch
\* keeps its run, state and report until the promotion that resolves it, which is
\* remembered in lastRun and reported in the run's progress.
OutcomeKept ==
  \A r \in Runs : Owns(r, "sealed") =>
    \/ Owns(r, "sealed")' /\ batch'.report = batch.report
    \/ /\ batch' = NoBatch /\ lastRun' = r
       /\ progress'.run = r /\ progress'.report = batch.report
       /\ progress'.pub \in {"published", "unchanged"}
SealedOutcomeIsFinal == [][OutcomeKept]_cacheVars

\* The cache publishes judgments the way JudgmentPublication says: whole runs, once.
Publication == INSTANCE JudgmentPublication WITH published <- judgments, offered <- staged
PublishesWholeRuns == Publication!Spec
===============================================================================
