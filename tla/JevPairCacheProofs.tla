-------------------------- MODULE JevPairCacheProofs --------------------------
(***************************************************************************)
(* Proofs about the judgment cache, for every set of games, pairs and runs *)
(* and every bound.  CacheInv is inductive; the invariants follow from it, *)
(* and so do the action properties and the refinement of                   *)
(* JudgmentPublication, step by step.                                      *)
(***************************************************************************)
EXTENDS JevPairCache, TLAPS

CacheInv == CacheTypeOK /\ StagedBelongsToBatch /\ BatchMatchesFate /\ EveryRowValid

Batches == [run : Runs, state : {"active", "sealed"}, revision : Nat, report : Reports]

-------------------------------------------------------------------------------
(* What the table operators return. *)

LEMMA OverlayRows ==
  ASSUME NEW base \in Rows, NEW new \in Rows
  PROVE  /\ Overlay(base, new) \in Rows
         /\ \A k \in Key : Overlay(base, new)[k] = IF new[k] # NoRow THEN new[k] ELSE base[k]
  BY DEF Overlay, Rows

LEMMA EraseRows ==
  ASSUME NEW rows \in Rows, NEW gone
  PROVE  /\ Erase(rows, gone) \in Rows
         /\ \A k \in Key : Erase(rows, gone)[k] = IF k \in gone THEN NoRow ELSE rows[k]
  BY DEF Erase, Rows

LEMMA OnlyRows ==
  ASSUME NEW rows \in Rows, NEW kept
  PROVE  /\ Only(rows, kept) \in Rows
         /\ \A k \in Key : Only(rows, kept)[k] = IF k \in kept THEN rows[k] ELSE NoRow
  BY DEF Only, Rows

\* Erasing keeps what is valid valid, and an empty table empty.
LEMMA EraseKeeps ==
  ASSUME NEW rows \in Rows, NEW gone
  PROVE  /\ (\A k \in Key : rows[k] # NoRow => ValidRow(k, rows[k]))
              => \A k \in Key : Erase(rows, gone)[k] # NoRow => ValidRow(k, Erase(rows, gone)[k])
         /\ rows = Empty => Erase(rows, gone) = Empty
  BY EraseRows DEF Erase, Empty, Rows

\* A batch row is never mistaken for the absence of one.
LEMMA BatchRow ==
  ASSUME NEW b \in Batches
  PROVE  b # NoBatch
  BY CacheConstants DEF Batches

-------------------------------------------------------------------------------
(* Every operation keeps CacheInv. *)

LEMMA ReserveKeepsInv ==
  ASSUME CacheInv, NEW r \in Runs, Reserving(r)
  PROVE  CacheInv'
<1> PICK rep \in RunningReports : ReserveRunBatch(r, rep)
  BY DEF Reserving
<1> USE DEF ReserveRunBatch
<1>1. batch' \in Batches /\ batch' # NoBatch
  BY BatchRow DEF Batches, Reports
<1>2. CacheTypeOK'
  BY <1>1 DEF CacheInv, CacheTypeOK, ProgressOf, Reports, Batches
<1>3. BatchMatchesFate'
  BY <1>1 DEF CacheInv, CacheTypeOK, BatchMatchesFate, Owns
<1>4. (StagedBelongsToBatch /\ EveryRowValid)'
  BY <1>1 DEF CacheInv, StagedBelongsToBatch, EveryRowValid
<1> QED
  BY <1>2, <1>3, <1>4 DEF CacheInv

LEMMA CheckpointKeepsInv ==
  ASSUME CacheInv, NEW r \in Runs, Checkpointing(r)
  PROVE  CacheInv'
<1> PICK rep \in RunningReports, rows \in RowsOfPair : CheckpointStagedPair(r, rows, rep)
  BY DEF Checkpointing
<1>1. /\ Owns(r, "active")
      /\ staged' = Overlay(staged, rows)
      /\ batch' = [batch EXCEPT !.revision = @ + 1, !.report = rep]
      /\ progress' = ProgressOf(r, rep, "none")
      /\ UNCHANGED <<judgments, token, lastRun, fate>>
  BY DEF CheckpointStagedPair
<1>2. rows \in Rows /\ \A k \in Held(rows) : ValidRow(k, rows[k])
  BY DEF RowsOfPair
<1>3. batch \in Batches /\ batch.run = r /\ batch.state = "active"
  BY <1>1 DEF CacheInv, CacheTypeOK, Owns, Batches
<1>4. batch' \in Batches /\ batch'.run = r /\ batch'.state = "active"
  <2>1. batch.revision + 1 \in Nat /\ rep \in Reports
    BY <1>3 DEF Batches, Reports
  <2>2. batch' = [run |-> r, state |-> "active", revision |-> batch.revision + 1, report |-> rep]
    BY <1>1, <1>3 DEF Batches
  <2> QED
    BY <2>1, <2>2 DEF Batches
<1>5. batch' # NoBatch
  BY <1>4, BatchRow
<1>6. CacheTypeOK'
  BY <1>1, <1>2, <1>4, OverlayRows DEF CacheInv, CacheTypeOK, ProgressOf, Reports, Batches
<1>7. EveryRowValid'
  BY <1>1, <1>2, OverlayRows DEF CacheInv, CacheTypeOK, EveryRowValid, Held
<1>8. BatchMatchesFate'
  BY <1>1, <1>3, <1>4, <1>5 DEF CacheInv, CacheTypeOK, BatchMatchesFate, Owns
<1> QED
  BY <1>5, <1>6, <1>7, <1>8 DEF CacheInv, StagedBelongsToBatch

LEMMA SaveProgressKeepsInv ==
  ASSUME CacheInv, NEW r \in Runs, SavingProgress(r) \/ SavingSealed(r)
  PROVE  CacheInv'
<1>1. /\ UNCHANGED <<judgments, staged, batch, token, lastRun, fate>>
      /\ \/ progress' = progress
         \/ \E rep \in Reports, pub \in {"none", "pending"} : progress' = ProgressOf(r, rep, pub)
  BY DEF SavingProgress, SavingSealed, SaveRunProgress, SaveSealedRunProgressIfOwned, Reports
<1>2. CacheTypeOK'
  BY <1>1 DEF CacheInv, CacheTypeOK, ProgressOf
<1>3. (StagedBelongsToBatch /\ BatchMatchesFate /\ EveryRowValid)'
  BY <1>1 DEF CacheInv, StagedBelongsToBatch, BatchMatchesFate, EveryRowValid, Owns
<1> QED
  BY <1>2, <1>3 DEF CacheInv

LEMMA SealKeepsInv ==
  ASSUME CacheInv, NEW r \in Runs, Sealing(r)
  PROVE  CacheInv'
<1> PICK rep \in TerminalReports : SealRunBatch(r, rep)
  BY DEF Sealing
<1> USE DEF SealRunBatch
<1>1. CASE Owns(r, "active") /\ batch' = [batch EXCEPT !.state = "sealed", !.report = rep]
  <2>1. batch \in Batches /\ batch.run = r
    BY <1>1 DEF CacheInv, CacheTypeOK, Owns, Batches
  <2>2. batch' \in Batches /\ batch' # NoBatch /\ batch'.run = r /\ batch'.state = "sealed"
    BY <1>1, <2>1, BatchRow DEF Batches, Reports
  <2>3. progress' = ProgressOf(r, rep, "pending") /\ fate' = [fate EXCEPT ![r] = "sealed"]
    BY <1>1, <2>1, <2>2 DEF Owns
  <2>4. CacheTypeOK'
    BY <2>2, <2>3 DEF CacheInv, CacheTypeOK, ProgressOf, Reports, Batches
  <2>5. BatchMatchesFate'
    BY <1>1, <2>1, <2>2, <2>3 DEF CacheInv, CacheTypeOK, BatchMatchesFate, Owns
  <2>6. (StagedBelongsToBatch /\ EveryRowValid)'
    BY <2>2 DEF CacheInv, StagedBelongsToBatch, EveryRowValid
  <2> QED
    BY <2>4, <2>5, <2>6 DEF CacheInv
<1>2. CASE UNCHANGED <<batch, progress, fate>>
  BY <1>2 DEF CacheInv, CacheTypeOK, StagedBelongsToBatch, BatchMatchesFate, EveryRowValid, Owns
<1> QED
  BY <1>1, <1>2

LEMMA PromoteKeepsInv ==
  ASSUME CacheInv, NEW r \in Runs, Promoting(r)
  PROVE  CacheInv'
<1> PICK rep \in TerminalReports, kept \in SUBSET Held(staged), rev \in 0 .. MaxRevision :
           PromoteRunBatch(r, Only(staged, kept), rev, rep)
  BY DEF Promoting
<1> USE DEF PromoteRunBatch
<1>1. staged \in Rows /\ judgments \in Rows
  BY DEF CacheInv, CacheTypeOK
<1>2. judgments' \in Rows
  BY <1>1, OnlyRows, OverlayRows
<1>3. CacheTypeOK'
  <2>1. staged' \in Rows
    BY DEF Empty, Rows
  <2>2. token' \in Nat
    BY DEF CacheInv, CacheTypeOK
  <2> QED
    BY <1>2, <2>1, <2>2 DEF CacheInv, CacheTypeOK, ProgressOf, Reports
<1>4. EveryRowValid'
  <2>1. \A k \in Key : judgments'[k] = judgments[k] \/ judgments'[k] = staged[k]
    BY <1>1, OnlyRows, OverlayRows
  <2>2. \A k \in Key : staged'[k] = NoRow
    BY DEF Empty
  <2> QED
    BY <2>1, <2>2 DEF CacheInv, EveryRowValid
<1>5. BatchMatchesFate'
  BY DEF CacheInv, CacheTypeOK, BatchMatchesFate, Owns, CanPromote
<1> QED
  BY <1>3, <1>4, <1>5 DEF CacheInv, StagedBelongsToBatch

\* Staged rows go, and the revision of a live batch moves if any did.
StagedErased(gone) ==
  /\ staged' = Erase(staged, gone)
  /\ \/ batch # NoBatch /\ batch' = [batch EXCEPT !.revision = @ + 1]
     \/ batch' = batch /\ (batch # NoBatch => gone = {})
  /\ UNCHANGED <<progress, lastRun, fate>>

\* Published rows go, and the token moves if any did.
PublishedErased(gone) ==
  /\ judgments' = Erase(judgments, gone)
  /\ token' = token + 1 \/ (token' = token /\ gone = {})

\* That is what a purge does, whatever its keys and kinds.
LEMMA PurgeErases ==
  ASSUME NEW keys, NEW kinds, Purge(keys, kinds)
  PROVE  \E gone, stagedGone : PublishedErased(gone) /\ StagedErased(stagedGone)
  BY DEF Purge, PublishedErased, StagedErased

\* A batch whose rows were erased is the same batch, at the same or the next revision.
LEMMA BatchKept ==
  ASSUME CacheTypeOK, NEW gone, StagedErased(gone)
  PROVE  /\ batch = NoBatch => batch' = NoBatch
         /\ batch # NoBatch => /\ batch' \in Batches /\ batch' # NoBatch
                               /\ batch'.run = batch.run /\ batch'.state = batch.state
                               /\ batch'.report = batch.report /\ batch'.revision >= batch.revision
                               /\ gone # {} => batch'.revision > batch.revision
<1>1. CASE batch' = batch /\ (batch # NoBatch => gone = {})
  BY <1>1 DEF CacheTypeOK, Batches
<1>2. CASE batch # NoBatch /\ batch' = [batch EXCEPT !.revision = @ + 1]
  <2>1. batch \in Batches /\ batch.revision \in Nat /\ batch.revision + 1 \in Nat
    BY <1>2 DEF CacheTypeOK, Batches
  <2>2. batch' = [run |-> batch.run, state |-> batch.state, revision |-> batch.revision + 1,
                  report |-> batch.report]
    BY <1>2, <2>1 DEF Batches
  <2>3. batch' \in Batches
    BY <2>1, <2>2 DEF Batches
  <2>4. batch'.revision > batch.revision /\ batch'.revision >= batch.revision
    BY <2>1, <2>2
  <2> QED
    BY <1>2, <2>2, <2>3, <2>4, BatchRow
<1> QED
  BY <1>1, <1>2 DEF StagedErased

\* Whatever erases staged rows and leaves valid published ones keeps CacheInv.
LEMMA ErasingKeepsInv ==
  ASSUME CacheInv, NEW gone, StagedErased(gone),
         judgments' \in Rows,
         \A k \in Key : judgments'[k] # NoRow => ValidRow(k, judgments'[k]),
         token' \in Nat
  PROVE  CacheInv'
<1>1. staged' = Erase(staged, gone) /\ UNCHANGED <<progress, lastRun, fate>>
  BY DEF StagedErased
<1>2. /\ staged' \in Rows /\ (staged = Empty => staged' = Empty)
      /\ \A k \in Key : staged'[k] # NoRow => ValidRow(k, staged'[k])
  BY <1>1, EraseRows, EraseKeeps DEF CacheInv, CacheTypeOK, EveryRowValid
<1>3. EveryRowValid'
  BY <1>2 DEF EveryRowValid
<1>4. CacheTypeOK'
  BY <1>1, <1>2, BatchKept DEF CacheInv, CacheTypeOK, Batches
<1>5. BatchMatchesFate'
  BY <1>1, BatchKept DEF CacheInv, CacheTypeOK, BatchMatchesFate, Owns
<1>6. StagedBelongsToBatch'
  BY <1>2, BatchKept DEF CacheInv, StagedBelongsToBatch
<1> QED
  BY <1>3, <1>4, <1>5, <1>6 DEF CacheInv

LEMMA PurgeKeepsInv ==
  ASSUME CacheInv, NEW keys, NEW kinds, Purge(keys, kinds)
  PROVE  CacheInv'
<1>1. PICK gone, stagedGone : PublishedErased(gone) /\ StagedErased(stagedGone)
  BY PurgeErases
<1>2. judgments' \in Rows /\ \A k \in Key : judgments'[k] # NoRow => ValidRow(k, judgments'[k])
  BY <1>1, EraseRows, EraseKeeps DEF PublishedErased, CacheInv, CacheTypeOK, EveryRowValid
<1>3. token' \in Nat
  BY <1>1 DEF PublishedErased, CacheInv, CacheTypeOK
<1> QED
  BY <1>1, <1>2, <1>3, ErasingKeepsInv

\* A published judgment after an acquisition was published before, here or, a
\* description judgment of the candidate, at the key it was moved from.
LEMMA AcquisitionMoves ==
  ASSUME CacheTypeOK, NEW c, NEW a, NEW moved, FinalizeCandidateAcquisition(c, a, moved)
  PROVE  /\ judgments' \in Rows
         /\ \A k \in Key : \/ judgments'[k] \in {NoRow, judgments[k]}
                           \/ /\ k[2] = "C"
                              /\ \E j \in CandidateKeys : judgments'[k] = judgments[j]
<1> USE DEF FinalizeCandidateAcquisition
<1>1. judgments \in Rows
  BY DEF CacheTypeOK
<1>2. ASSUME NEW k \in Key, NEW row \in Arriving(k, c, a, moved)
      PROVE  row \in Content /\ k[2] = "C" /\ \E j \in CandidateKeys : row = judgments[j]
  <2>1. PICK p \in moved : AcquiredKey(p, c, a) = k /\ row = judgments[<<p, "C">>] /\ row # NoRow
    BY <1>2 DEF Arriving
  <2>2. <<p, "C">> \in CandidateKeys /\ <<p, "C">> \in Key
    BY <2>1 DEF KeysOfCandidate, CandidateKeys
  <2> QED
    BY <1>1, <2>1, <2>2 DEF AcquiredKey, Rows
<1>3. ASSUME NEW k \in Key
      PROVE  \/ judgments'[k] \in {NoRow, judgments[k]}
             \/ judgments'[k] \in Arriving(k, c, a, moved)
  BY <1>3
<1>4. judgments' \in Rows
  BY <1>1, <1>2, <1>3 DEF Rows
<1> QED
  BY <1>2, <1>3, <1>4

LEMMA AcquisitionErases ==
  ASSUME NEW c, NEW a, NEW moved, FinalizeCandidateAcquisition(c, a, moved)
  PROVE  StagedErased(KeysOfCandidate(c) \cap Held(staged))
  BY DEF FinalizeCandidateAcquisition, StagedErased

LEMMA AcquireKeepsInv ==
  ASSUME CacheInv, NEW c, NEW a, NEW moved, FinalizeCandidateAcquisition(c, a, moved)
  PROVE  CacheInv'
<1>1. judgments' \in Rows
  BY AcquisitionMoves DEF CacheInv
<1>2. \A k \in Key : judgments'[k] # NoRow => ValidRow(k, judgments'[k])
  BY AcquisitionMoves DEF CacheInv, EveryRowValid, ValidRow, CandidateKeys
<1>3. token' \in Nat
  BY DEF FinalizeCandidateAcquisition, CacheInv, CacheTypeOK
<1> QED
  BY <1>1, <1>2, <1>3, AcquisitionErases, ErasingKeepsInv

LEMMA InitInv == CacheInit => CacheInv
<1> SUFFICES ASSUME CacheInit PROVE CacheInv
  OBVIOUS
<1>1. Empty \in Rows
  BY DEF Empty, Rows
<1>2. \A k \in Key : Empty[k] = NoRow
  BY DEF Empty
<1>3. CacheTypeOK
  BY <1>1 DEF CacheInit, CacheTypeOK
<1> QED
  BY <1>2, <1>3
     DEF CacheInit, CacheInv, StagedBelongsToBatch, BatchMatchesFate, EveryRowValid, Owns

LEMMA NextInv == CacheInv /\ [CacheNext]_cacheVars => CacheInv'
<1> SUFFICES ASSUME CacheInv, [CacheNext]_cacheVars PROVE CacheInv'
  OBVIOUS
<1>1. ASSUME NEW r \in Runs, Reserving(r) PROVE CacheInv'
  BY <1>1, ReserveKeepsInv
<1>2. ASSUME NEW r \in Runs, Checkpointing(r) PROVE CacheInv'
  BY <1>2, CheckpointKeepsInv
<1>3. ASSUME NEW r \in Runs, SavingProgress(r) \/ SavingSealed(r) PROVE CacheInv'
  BY <1>3, SaveProgressKeepsInv
<1>4. ASSUME NEW r \in Runs, Sealing(r) PROVE CacheInv'
  BY <1>4, SealKeepsInv
<1>5. ASSUME NEW r \in Runs, Promoting(r) PROVE CacheInv'
  BY <1>5, PromoteKeepsInv
<1>6. ASSUME NEW g \in Games, Invalidating(g) PROVE CacheInv'
  BY <1>6, PurgeKeepsInv DEF Invalidating, InvalidateGame
<1>7. ASSUME NEW c \in Candidates, Deciding(c) PROVE CacheInv'
  BY <1>7, PurgeKeepsInv DEF Deciding, PurgeCandidate
<1>8. ASSUME NEW c \in Candidates, Acquiring(c) PROVE CacheInv'
  BY <1>8, AcquireKeepsInv DEF Acquiring
<1>9. CASE Revoking
  BY <1>9, PurgeKeepsInv DEF Revoking, PurgeDDependent
<1>10. CASE UNCHANGED cacheVars
  BY <1>10 DEF cacheVars, CacheInv, CacheTypeOK, StagedBelongsToBatch, BatchMatchesFate,
               EveryRowValid, Owns
<1> QED
  BY <1>1, <1>2, <1>3, <1>4, <1>5, <1>6, <1>7, <1>8, <1>9, <1>10 DEF CacheNext

\* CacheInv holds in every reachable state of the cache.
THEOREM CacheInvariant == CacheSpec => []CacheInv
  BY InitInv, NextInv, PTL DEF CacheSpec

\* The tables, the batch row and the progress row keep their types.
THEOREM CacheTypeCorrect == CacheSpec => []CacheTypeOK
<1>1. CacheInv => CacheTypeOK
  BY DEF CacheInv
<1> QED
  BY <1>1, CacheInvariant, PTL

\* No staged row is left behind when no batch is unresolved.
THEOREM NoOrphanStaging == CacheSpec => []StagedBelongsToBatch
<1>1. CacheInv => StagedBelongsToBatch
  BY DEF CacheInv
<1> QED
  BY <1>1, CacheInvariant, PTL

\* At most one run is unresolved, and it owns the batch in the state it is in itself.
THEOREM OneUnresolvedRun == CacheSpec => []BatchMatchesFate
<1>1. CacheInv => BatchMatchesFate
  BY DEF CacheInv
<1> QED
  BY <1>1, CacheInvariant, PTL

\* Both tables hold only rows valid under their keys, through every move and promotion.
THEOREM RowsStayValid == CacheSpec => []EveryRowValid
<1>1. CacheInv => EveryRowValid
  BY DEF CacheInv
<1> QED
  BY <1>1, CacheInvariant, PTL

-------------------------------------------------------------------------------
(* What a step never does: the marks readers rely on. *)

Marked == TokenMoves /\ RevisionMoves /\ OutcomeKept

\* Erasing nothing changes nothing.
LEMMA EraseNothing ==
  ASSUME NEW rows \in Rows
  PROVE  Erase(rows, {}) = rows
  BY DEF Erase, Rows

\* A batch the step leaves in place keeps its outcome, and the marks if its rows stay.
LEMMA KeptBatchMarked ==
  ASSUME CacheTypeOK, UNCHANGED <<judgments, staged, batch>>
  PROVE  Marked
<1>1. batch # NoBatch => batch \in Batches /\ batch.revision \in Nat
  BY DEF CacheTypeOK, Batches
<1> QED
  BY <1>1 DEF Marked, TokenMoves, RevisionMoves, OutcomeKept, Owns

LEMMA StagedErasedMarked ==
  ASSUME CacheInv, NEW gone, StagedErased(gone)
  PROVE  RevisionMoves /\ OutcomeKept
<1>1. CacheTypeOK /\ staged \in Rows
  BY DEF CacheInv, CacheTypeOK
<1>2. gone = {} => staged' = staged
  BY <1>1, EraseNothing DEF StagedErased
<1> QED
  BY <1>1, <1>2, BatchKept DEF RevisionMoves, OutcomeKept, Owns

LEMMA PurgeMarked ==
  ASSUME CacheInv, NEW keys, NEW kinds, Purge(keys, kinds)
  PROVE  Marked
<1>1. PICK gone, stagedGone : PublishedErased(gone) /\ StagedErased(stagedGone)
  BY PurgeErases
<1>2. TokenMoves
  BY <1>1, EraseNothing DEF PublishedErased, TokenMoves, CacheInv, CacheTypeOK
<1> QED
  BY <1>1, <1>2, StagedErasedMarked DEF Marked

LEMMA AcquireMarked ==
  ASSUME CacheInv, NEW c, NEW a, NEW moved, FinalizeCandidateAcquisition(c, a, moved)
  PROVE  Marked
<1> DEFINE hit == KeysOfCandidate(c) \cap Held(judgments)
<1>1. judgments \in Rows /\ judgments' \in Rows /\ token \in Nat
  BY AcquisitionMoves DEF CacheInv, CacheTypeOK
<1>2. ASSUME hit # {} PROVE TokenMoves
  <2>1. token' = token + 1
    BY <1>2 DEF FinalizeCandidateAcquisition
  <2> QED
    BY <1>1, <2>1 DEF TokenMoves
<1>3. ASSUME hit = {} PROVE TokenMoves
  <2>1. \A k \in KeysOfCandidate(c) : judgments[k] = NoRow
    BY <1>3 DEF Held, KeysOfCandidate, CandidateKeys
  <2>2. \A k \in Key : Arriving(k, c, a, moved) = {}
    BY <2>1 DEF FinalizeCandidateAcquisition, Arriving
  <2>3. \A k \in Key : judgments'[k] = judgments[k]
    BY <2>1, <2>2 DEF FinalizeCandidateAcquisition
  <2>4. judgments' = judgments
    BY <1>1, <2>3 DEF Rows
  <2> QED
    BY <2>4 DEF TokenMoves
<1>4. TokenMoves
  BY <1>2, <1>3
<1> QED
  BY <1>4, AcquisitionErases, StagedErasedMarked DEF Marked

LEMMA RunMarked ==
  ASSUME CacheInv, NEW r \in Runs,
         Reserving(r) \/ Checkpointing(r) \/ Sealing(r) \/ Promoting(r)
  PROVE  Marked
<1>1. CASE Reserving(r)
  BY <1>1 DEF Reserving, ReserveRunBatch, Marked, TokenMoves, RevisionMoves, OutcomeKept, Owns
<1>2. CASE Checkpointing(r)
  <2>1. PICK rep \in RunningReports, rows \in RowsOfPair : CheckpointStagedPair(r, rows, rep)
    BY <1>2 DEF Checkpointing
  <2>2. /\ batch \in Batches /\ batch.state = "active" /\ batch.revision \in Nat
        /\ judgments' = judgments
    BY <2>1 DEF CheckpointStagedPair, Owns, CacheInv, CacheTypeOK, Batches
  <2>3. batch' = [batch EXCEPT !.revision = @ + 1, !.report = rep]
    BY <2>1 DEF CheckpointStagedPair
  <2>4. batch'.revision = batch.revision + 1
    BY <2>2, <2>3 DEF Batches
  <2> QED
    BY <2>2, <2>4 DEF Marked, TokenMoves, RevisionMoves, OutcomeKept, Owns
<1>3. CASE Sealing(r)
  <2>1. PICK rep \in TerminalReports : SealRunBatch(r, rep)
    BY <1>3 DEF Sealing
  <2>2. UNCHANGED <<judgments, staged>>
    BY <2>1 DEF SealRunBatch
  <2>3. CASE UNCHANGED batch
    BY <2>2, <2>3, KeptBatchMarked DEF CacheInv
  <2>4. CASE Owns(r, "active") /\ batch' = [batch EXCEPT !.state = "sealed", !.report = rep]
    <3>1. batch \in Batches /\ batch.state = "active" /\ batch.revision \in Nat
      BY <2>4 DEF Owns, CacheInv, CacheTypeOK, Batches
    <3>2. batch'.revision = batch.revision
      BY <2>4, <3>1 DEF Batches
    <3> QED
      BY <2>2, <3>1, <3>2 DEF Marked, TokenMoves, RevisionMoves, OutcomeKept, Owns
  <2> QED
    BY <2>1, <2>3, <2>4 DEF SealRunBatch
<1>4. CASE Promoting(r)
  <2>1. PICK rep \in TerminalReports, kept \in SUBSET Held(staged), rev \in 0 .. MaxRevision :
              PromoteRunBatch(r, Only(staged, kept), rev, rep)
    BY <1>4 DEF Promoting
  <2>2. TokenMoves /\ RevisionMoves
    BY <2>1 DEF PromoteRunBatch, TokenMoves, RevisionMoves, CacheInv, CacheTypeOK
  <2>3. OutcomeKept
    BY <2>1 DEF PromoteRunBatch, CanPromote, OutcomeKept, Owns, ProgressOf
  <2> QED
    BY <2>2, <2>3 DEF Marked
<1> QED
  BY <1>1, <1>2, <1>3, <1>4

LEMMA NextMarked == CacheInv /\ [CacheNext]_cacheVars => Marked
<1> SUFFICES ASSUME CacheInv, [CacheNext]_cacheVars PROVE Marked
  OBVIOUS
<1>1. ASSUME NEW r \in Runs, Reserving(r) \/ Checkpointing(r) \/ Sealing(r) \/ Promoting(r)
      PROVE  Marked
  BY <1>1, RunMarked
<1>2. ASSUME NEW r \in Runs, SavingProgress(r) \/ SavingSealed(r) PROVE Marked
  <2>1. UNCHANGED <<judgments, staged, batch>>
    BY <1>2 DEF SavingProgress, SavingSealed, SaveRunProgress, SaveSealedRunProgressIfOwned
  <2> QED
    BY <2>1, KeptBatchMarked DEF CacheInv
<1>3. ASSUME NEW g \in Games, Invalidating(g) PROVE Marked
  BY <1>3, PurgeMarked DEF Invalidating, InvalidateGame
<1>4. ASSUME NEW c \in Candidates, Deciding(c) PROVE Marked
  BY <1>4, PurgeMarked DEF Deciding, PurgeCandidate
<1>5. ASSUME NEW c \in Candidates, Acquiring(c) PROVE Marked
  BY <1>5, AcquireMarked DEF Acquiring
<1>6. CASE Revoking
  BY <1>6, PurgeMarked DEF Revoking, PurgeDDependent
<1>7. CASE UNCHANGED cacheVars
  BY <1>7, KeptBatchMarked DEF cacheVars, CacheInv
<1> QED
  BY <1>1, <1>2, <1>3, <1>4, <1>5, <1>6, <1>7 DEF CacheNext

\* Published rows never change under an unchanged publication token.
THEOREM TokenMarks == CacheSpec => TokenMarksEveryChange
<1>1. CacheInv /\ [CacheNext]_cacheVars => [TokenMoves]_cacheVars
  BY NextMarked DEF Marked
<1> QED
  BY <1>1, CacheInvariant, PTL DEF CacheSpec, TokenMarksEveryChange

\* Staged rows never change under an unchanged staging revision of the same batch.
THEOREM RevisionMarks == CacheSpec => RevisionMarksEveryChange
<1>1. CacheInv /\ [CacheNext]_cacheVars => [RevisionMoves]_cacheVars
  BY NextMarked DEF Marked
<1> QED
  BY <1>1, CacheInvariant, PTL DEF CacheSpec, RevisionMarksEveryChange

\* A run is published with the outcome it was sealed with, or stays sealed.
THEOREM SealedIsFinal == CacheSpec => SealedOutcomeIsFinal
<1>1. CacheInv /\ [CacheNext]_cacheVars => [OutcomeKept]_cacheVars
  BY NextMarked DEF Marked
<1> QED
  BY <1>1, CacheInvariant, PTL DEF CacheSpec, SealedOutcomeIsFinal

-------------------------------------------------------------------------------
(* The cache implements JudgmentPublication. *)

LEMMA PublicationInit == CacheInit => Publication!Init
  BY DEF CacheInit, Publication!Init, Publication!Nothing, Empty

LEMMA ErasedShrinks ==
  ASSUME NEW rows \in Rows, NEW gone
  PROVE  /\ Erase(rows, gone) \in Publication!Rows
         /\ \A k \in Key : Erase(rows, gone)[k] \in {rows[k], NoRow}
  BY EraseRows DEF Publication!Rows, Rows

LEMMA PurgeWithdraws ==
  ASSUME CacheInv, NEW keys, NEW kinds, Purge(keys, kinds)
  PROVE  Publication!Withdraw
<1>1. PICK gone, stagedGone : PublishedErased(gone) /\ StagedErased(stagedGone)
  BY PurgeErases
<1> QED
  BY <1>1, ErasedShrinks
     DEF PublishedErased, StagedErased, CacheInv, CacheTypeOK, Publication!Withdraw,
         Publication!Shrinks

LEMMA AcquisitionIsMove ==
  ASSUME CacheInv, NEW c, NEW a, NEW moved, FinalizeCandidateAcquisition(c, a, moved)
  PROVE  Publication!Move
<1>1. judgments' \in Rows
      /\ \A k \in Key : judgments'[k] \in {NoRow} \cup {judgments[j] : j \in Key}
  BY AcquisitionMoves DEF CacheInv, CandidateKeys
<1>2. Publication!Shrinks(staged, staged')
  BY AcquisitionErases, ErasedShrinks
     DEF StagedErased, CacheInv, CacheTypeOK, Publication!Shrinks
<1> QED
  BY <1>1, <1>2 DEF FinalizeCandidateAcquisition, Publication!Move, Publication!Rows, Rows

LEMMA RunPublishes ==
  ASSUME CacheInv, NEW r \in Runs,
         Reserving(r) \/ Checkpointing(r) \/ Sealing(r) \/ Promoting(r)
  PROVE  \/ Publication!Open(r) \/ Publication!Offer(r) \/ Publication!Close(r)
         \/ Publication!Publish(r) \/ UNCHANGED Publication!pubVars
<1>1. ASSUME Reserving(r) PROVE Publication!Open(r)
  BY <1>1 DEF Reserving, ReserveRunBatch, CacheInv, BatchMatchesFate, Owns, Publication!Open,
              Publication!Unresolved
<1>2. ASSUME Checkpointing(r) PROVE Publication!Offer(r)
  <2>1. PICK rep \in RunningReports, rows \in RowsOfPair : CheckpointStagedPair(r, rows, rep)
    BY <1>2 DEF Checkpointing
  <2>2. rows \in Rows /\ staged \in Rows
    BY DEF RowsOfPair, CacheInv, CacheTypeOK
  <2>3. staged' = Overlay(staged, rows) /\ UNCHANGED <<judgments, fate>> /\ Owns(r, "active")
    BY <2>1 DEF CheckpointStagedPair
  <2>4. staged' \in Publication!Rows
    BY <2>2, <2>3, OverlayRows DEF Publication!Rows, Rows
  <2>5. \A k \in Key : staged'[k] \in Content \cup {staged[k]}
    BY <2>2, <2>3, OverlayRows DEF Rows
  <2>6. fate[r] = "open"
    BY <2>3 DEF CacheInv, BatchMatchesFate
  <2> QED
    BY <2>3, <2>4, <2>5, <2>6 DEF Publication!Offer
<1>3. ASSUME Sealing(r) PROVE Publication!Close(r) \/ UNCHANGED Publication!pubVars
  BY <1>3 DEF Sealing, SealRunBatch, CacheInv, BatchMatchesFate, Publication!Close,
              Publication!pubVars
<1>4. ASSUME Promoting(r) PROVE Publication!Publish(r)
  <2>1. PICK rep \in TerminalReports, kept \in SUBSET Held(staged), rev \in 0 .. MaxRevision :
              PromoteRunBatch(r, Only(staged, kept), rev, rep)
    BY <1>4 DEF Promoting
  <2>2. staged \in Rows /\ judgments \in Rows
    BY DEF CacheInv, CacheTypeOK
  <2>3. /\ judgments' = Overlay(judgments, Only(staged, kept)) /\ staged' = Empty
        /\ fate' = [fate EXCEPT ![r] = "published"] /\ Owns(r, "sealed")
    BY <2>1 DEF PromoteRunBatch, CanPromote
  <2>4. judgments' \in Publication!Rows
    BY <2>2, <2>3, OnlyRows, OverlayRows DEF Publication!Rows, Rows
  <2>5. \A k \in Key : judgments'[k] = judgments[k] \/ (staged[k] # NoRow /\ judgments'[k] = staged[k])
    BY <2>2, <2>3, OnlyRows, OverlayRows
  <2>6. fate[r] = "sealed"
    BY <2>3 DEF CacheInv, BatchMatchesFate
  <2> QED
    BY <2>3, <2>4, <2>5, <2>6 DEF Publication!Publish, Publication!Nothing, Empty
<1> QED
  BY <1>1, <1>2, <1>3, <1>4

LEMMA PublicationStep ==
  CacheInv /\ [CacheNext]_cacheVars => [Publication!Next]_Publication!pubVars
<1> SUFFICES ASSUME CacheInv, [CacheNext]_cacheVars
             PROVE  Publication!Next \/ UNCHANGED Publication!pubVars
  OBVIOUS
<1> USE DEF Publication!Next
<1>1. ASSUME NEW r \in Runs, Reserving(r) \/ Checkpointing(r) \/ Sealing(r) \/ Promoting(r)
      PROVE  Publication!Next \/ UNCHANGED Publication!pubVars
  BY <1>1, RunPublishes
<1>2. ASSUME NEW r \in Runs, SavingProgress(r) \/ SavingSealed(r)
      PROVE  UNCHANGED Publication!pubVars
  BY <1>2 DEF SavingProgress, SavingSealed, SaveRunProgress, SaveSealedRunProgressIfOwned,
              Publication!pubVars
<1>3. ASSUME NEW g \in Games, Invalidating(g) PROVE Publication!Withdraw
  BY <1>3, PurgeWithdraws DEF Invalidating, InvalidateGame
<1>4. ASSUME NEW c \in Candidates, Deciding(c) PROVE Publication!Withdraw
  BY <1>4, PurgeWithdraws DEF Deciding, PurgeCandidate
<1>5. ASSUME NEW c \in Candidates, Acquiring(c) PROVE Publication!Move
  BY <1>5, AcquisitionIsMove DEF Acquiring
<1>6. CASE Revoking
  BY <1>6, PurgeWithdraws DEF Revoking, PurgeDDependent
<1>7. CASE UNCHANGED cacheVars
  BY <1>7 DEF cacheVars, Publication!pubVars
<1> QED
  BY <1>1, <1>2, <1>3, <1>4, <1>5, <1>6, <1>7 DEF CacheNext

\* Readers see whole runs, each once, minus what was withdrawn: the cache implements
\* JudgmentPublication under the mapping published <- judgments, offered <- staged.
THEOREM CachePublishesWholeRuns == CacheSpec => PublishesWholeRuns
  BY PublicationInit, PublicationStep, CacheInvariant, PTL
     DEF CacheSpec, PublishesWholeRuns, Publication!Spec
===============================================================================
