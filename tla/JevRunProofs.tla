------------------------------ MODULE JevRunProofs ------------------------------
(***************************************************************************)
(* Similarity runs beside mutations, failing storage, retries and crashes: *)
(* the run that is live owns its batch, what its caller was told stays,    *)
(* and no judgment outlives what it was judged from.  For any games,       *)
(* pairs, runs, mutations and bounds.                                      *)
(*                                                                         *)
(* The tables change by a few operations of the cache, so the argument has *)
(* two halves: what each operation leaves right for every run, and what    *)
(* each handler leaves right for its own.                                  *)
(***************************************************************************)
EXTENDS JevRun, FiniteSetTheorems, TLAPS

Batches == [run : Runs, state : {"active", "sealed"}, revision : Nat, report : Reports]

(***************************************************************************)
(* The tables                                                              *)
(***************************************************************************)
\* The durable progress is that of the batch, and nobody's outcome while there is a batch.
ProgressOK ==
  /\ batch # NoBatch =>
       /\ progress # NoProgress /\ progress.run = batch.run
       /\ progress.pub = IF batch.state = "sealed" THEN "pending" ELSE "none"
       /\ batch.state = "sealed" => progress.report = batch.report
  /\ \A r \in Runs : ResolvedAs(r) => fate[r] = "published"
  /\ \A r \in Runs : fate[r] # "new" => progress # NoProgress

TablesOK == CacheTypeOK /\ StagedBelongsToBatch /\ BatchMatchesFate /\ EveryRowValid /\ ProgressOK

\* The outcome of r is decided, and it is this report.
Told(r, report) ==
  /\ fate[r] \in {"sealed", "published"}
  /\ Owns(r, "sealed") => batch.report = report
  /\ progress.run = r => progress.report = report

Decided(r) == Owns(r, "sealed") \/ ResolvedAs(r)

(***************************************************************************)
(* The runs                                                                *)
(***************************************************************************)
Whole(report) == report.state = "completed" => report.done = Cardinality(Pairs) /\ report.failed = 0

\* Every pair is done, to do or in the worker's hands.
Counted(w) ==
  w.report.done + Cardinality(w.todo) + (IF w.pc \in {"dispatch", "sent"} THEN 1 ELSE 0)
    = Cardinality(Pairs)

Captures(w) == w.capture.rev <= sources.rev /\ (w.capture.rev = sources.rev => w.capture = sources)

\* A live run owns the batch until it has sealed it, and then knows how it was sealed.
LiveOK(r, w) ==
  /\ mode = "up" /\ w.cause = "none" /\ fate[r] # "new"
  /\ w.sealed => /\ w.pc = "closing" /\ Decided(r)
                 /\ w.report \in TerminalReports /\ Told(r, w.report) /\ Whole(w.report)
  /\ ~w.sealed => /\ w.pc \in Working /\ Owns(r, "active") /\ w.report \in RunningReports
                  /\ Counted(w) /\ Captures(w)
                  /\ w.pc \in {"dispatch", "sent"} => w.kind \in Kinds

FinalizerOK(r, p) ==
  p.at # "idle" => p.report \in TerminalReports /\ Told(r, p.report) /\ Whole(p.report)

CompletionOK(r, c) ==
  c # None => Whole(c.report) /\ (c.outcome # "unpersisted" => Told(r, c.report))

RunOK(r) ==
  /\ Active(r) => LiveOK(r, worker[r])
  /\ FinalizerOK(r, publisher[<<r, "finalizer">>])
  /\ CompletionOK(r, completion[r])

(***************************************************************************)
(* The rows                                                                *)
(***************************************************************************)
RowsAt(k) == {judgments[k], staged[k]} \ {NoRow}

\* What the mutation that is about to be saved makes stale has been purged.
PurgedOK ==
  mutation # None /\ mutation.at = "save" =>
    /\ mutation.edit[1] = "sources" =>
         \A k \in Key : mutation.edit[2] \in k[1] =>
           \A row \in RowsAt(k) : row.kind \notin KindsTouched(mutation.edit[3])
    /\ mutation.edit[1] = "permit" =>
         ~sources.noteUse /\ \A k \in Key : \A row \in RowsAt(k) : row.kind \notin NoteKinds
    /\ mutation.edit[1] = "revoke" => sources.noteUse

\* A description judgment says no consent epoch, even while note use is not permitted.
RowTrue(k, row) == StillTrue(k, row) /\ (row.kind = "C_ONLY" => row.evidence.epoch = -1)
RowsTrue == \A k \in Key : \A row \in RowsAt(k) : RowTrue(k, row)

RunInv == TypeOK /\ TablesOK /\ (\A r \in Runs : RunOK(r)) /\ RowsTrue /\ PurgedOK
-------------------------------------------------------------------------------
(* The operations of the cache *)

OwnsNext(r, state) == batch' # NoBatch /\ batch'.run = r /\ batch'.state = state
ResolvedNext(r) ==
  progress' # NoProgress /\ progress'.run = r /\ progress'.pub \in {"published", "unchanged"}
ToldNext(r, report) ==
  /\ fate'[r] \in {"sealed", "published"}
  /\ OwnsNext(r, "sealed") => batch'.report = report
  /\ progress'.run = r => progress'.report = report

KeepsOutcomes(r) ==
  /\ \A report \in Reports : Told(r, report) => ToldNext(r, report)
  /\ fate[r] # "new" => fate'[r] # "new"

\* What an operation that is not about run r leaves r with, and most operations every run.
Keeps(r) ==
  /\ KeepsOutcomes(r)
  /\ Owns(r, "active") => OwnsNext(r, "active")
  /\ Decided(r) => OwnsNext(r, "sealed") \/ ResolvedNext(r)

Shrunk == \A k \in Key : judgments'[k] \in {judgments[k], NoRow} /\ staged'[k] \in {staged[k], NoRow}

LEMMA BatchRow ==
  ASSUME NEW b \in Batches
  PROVE  b # NoBatch
BY RunConstants DEF Batches

LEMMA ProgressRow ==
  ASSUME NEW r \in Runs, NEW report \in Reports, NEW pub \in {"none", "pending", "published", "unchanged"}
  PROVE  /\ ProgressOf(r, report, pub) # NoProgress
         /\ ProgressOf(r, report, pub) \in
              [run : Runs, report : Reports, pub : {"none", "pending", "published", "unchanged"}]
         /\ ProgressOf(r, report, pub).run = r /\ ProgressOf(r, report, pub).report = report
         /\ ProgressOf(r, report, pub).pub = pub
BY RunConstants DEF ProgressOf

\* The batch is the same but for its revision, and so is what is told of it.
LEMMA SameOutcomes ==
  ASSUME TablesOK,
         \/ batch = NoBatch /\ batch' = NoBatch
         \/ /\ batch # NoBatch /\ batch' \in Batches
            /\ batch'.run = batch.run /\ batch'.state = batch.state /\ batch'.report = batch.report,
         UNCHANGED <<progress, lastRun, fate>>, token' \in Nat,
         judgments' \in Rows, staged' \in Rows, staged = Empty => staged' = Empty,
         \A k \in Key : /\ judgments'[k] # NoRow => ValidRow(k, judgments'[k])
                        /\ staged'[k] # NoRow => ValidRow(k, staged'[k])
  PROVE  TablesOK' /\ \A r \in Runs : Keeps(r)
<1> USE DEF TablesOK
<1>1. batch # NoBatch => batch' # NoBatch
  BY BatchRow
<1>2. CacheTypeOK'
  BY DEF CacheTypeOK, Batches
<1>3. StagedBelongsToBatch' /\ EveryRowValid'
  BY <1>1 DEF StagedBelongsToBatch, EveryRowValid
<1>4. BatchMatchesFate'
  BY <1>1 DEF BatchMatchesFate, Owns
<1>5. ProgressOK'
  BY <1>1 DEF ProgressOK, ResolvedAs
<1>6. \A r \in Runs : Keeps(r)
  BY <1>1 DEF Keeps, KeepsOutcomes, Told, ToldNext, Owns, OwnsNext, Decided, ResolvedAs, ResolvedNext
<1> QED
  BY <1>2, <1>3, <1>4, <1>5, <1>6

LEMMA SameTables ==
  ASSUME TablesOK, UNCHANGED tables
  PROVE  TablesOK' /\ Shrunk /\ \A r \in Runs : Keeps(r)
<1> USE DEF tables
<1>1. Shrunk
  BY DEF Shrunk
<1>2. TablesOK'
  BY DEF TablesOK, CacheTypeOK, StagedBelongsToBatch, BatchMatchesFate, EveryRowValid, ProgressOK,
         Owns, ResolvedAs
<1>3. \A r \in Runs : Keeps(r)
  BY DEF Keeps, KeepsOutcomes, Told, ToldNext, Owns, OwnsNext, Decided, ResolvedAs, ResolvedNext
<1> QED
  BY <1>1, <1>2, <1>3

LEMMA PurgeKeeps ==
  ASSUME TablesOK, NEW keys, NEW kinds, Purge(keys, kinds)
  PROVE  TablesOK' /\ Shrunk /\ \A r \in Runs : Keeps(r)
<1> USE DEF TablesOK
<1>1. PICK gone, stagedGone :
        /\ judgments' = Erase(judgments, gone) /\ staged' = Erase(staged, stagedGone)
        /\ \/ batch' = batch
           \/ batch # NoBatch /\ batch' = [batch EXCEPT !.revision = @ + 1]
        /\ token' \in {token, token + 1}
        /\ UNCHANGED <<progress, lastRun, fate>>
  BY DEF Purge
<1>2. judgments \in Rows /\ staged \in Rows /\ token' \in Nat
  BY <1>1 DEF CacheTypeOK
<1>3. \A k \in Key : /\ judgments'[k] = IF k \in gone THEN NoRow ELSE judgments[k]
                     /\ staged'[k] = IF k \in stagedGone THEN NoRow ELSE staged[k]
  BY <1>1 DEF Erase
<1>4. judgments' \in Rows /\ staged' \in Rows
  BY <1>1, <1>2 DEF Erase, Rows
<1>5. staged = Empty => staged' = Empty
  BY <1>1 DEF Erase, Empty
<1>6. \/ batch = NoBatch /\ batch' = NoBatch
      \/ /\ batch # NoBatch /\ batch' \in Batches
         /\ batch'.run = batch.run /\ batch'.state = batch.state /\ batch'.report = batch.report
  <2>1. batch \in Batches \cup {NoBatch}
    BY DEF CacheTypeOK, Batches
  <2>2. CASE batch' = batch
    BY <2>1, <2>2
  <2>3. CASE batch # NoBatch /\ batch' = [batch EXCEPT !.revision = @ + 1]
    <3>1. batch \in Batches
      BY <2>1, <2>3
    <3> QED
      BY <2>3, <3>1 DEF Batches
  <2> QED
    BY <1>1, <2>2, <2>3
<1>7. \A k \in Key : /\ judgments'[k] # NoRow => ValidRow(k, judgments'[k])
                     /\ staged'[k] # NoRow => ValidRow(k, staged'[k])
  BY <1>3 DEF EveryRowValid
<1>8. Shrunk
  BY <1>3 DEF Shrunk
<1> QED
  BY <1>1, <1>2, <1>4, <1>5, <1>6, <1>7, <1>8, SameOutcomes

\* A run that owns the active batch saves its progress.
LEMMA SaveKeeps ==
  ASSUME TablesOK, NEW r \in Runs, NEW report \in Reports, Owns(r, "active"),
         SaveRunProgress(r, report)
  PROVE  TablesOK' /\ Shrunk /\ \A s \in Runs : Keeps(s)
<1> USE DEF TablesOK
<1>1. progress' = ProgressOf(r, report, "none") /\ UNCHANGED <<judgments, staged, batch, token, lastRun, fate>>
  BY DEF SaveRunProgress
<1>2. /\ progress' # NoProgress /\ progress'.run = r /\ progress'.pub = "none"
      /\ progress' \in [run : Runs, report : Reports, pub : {"none", "pending", "published", "unchanged"}]
  BY <1>1, ProgressRow
<1>3. batch # NoBatch /\ batch.run = r /\ batch.state = "active" /\ fate[r] = "open"
      /\ progress.run = r /\ progress.pub = "none"
  BY DEF Owns, BatchMatchesFate, ProgressOK
<1>4. CacheTypeOK'
  BY <1>1, <1>2 DEF CacheTypeOK
<1>5. StagedBelongsToBatch' /\ EveryRowValid' /\ BatchMatchesFate'
  BY <1>1 DEF StagedBelongsToBatch, EveryRowValid, BatchMatchesFate, Owns
<1>6. ProgressOK'
  BY <1>1, <1>2, <1>3 DEF ProgressOK, ResolvedAs
<1>7. Shrunk
  BY <1>1 DEF Shrunk
<1>8. \A s \in Runs : Keeps(s)
  BY <1>1, <1>2, <1>3
     DEF Keeps, KeepsOutcomes, Told, ToldNext, Owns, OwnsNext, Decided, ResolvedAs, ResolvedNext
<1> QED
  BY <1>4, <1>5, <1>6, <1>7, <1>8

LEMMA SaveSealedKeeps ==
  ASSUME TablesOK, NEW r \in Runs, NEW report \in Reports, SaveSealedRunProgressIfOwned(r, report)
  PROVE  TablesOK' /\ Shrunk /\ \A s \in Runs : Keeps(s)
<1> USE DEF TablesOK
<1>1. CASE ~(Owns(r, "sealed") /\ batch.report = report)
  BY <1>1, SameTables DEF SaveSealedRunProgressIfOwned, tables
<1>2. CASE Owns(r, "sealed") /\ batch.report = report
  <2>1. progress' = ProgressOf(r, report, "pending")
        /\ UNCHANGED <<judgments, staged, batch, token, lastRun, fate>>
    BY <1>2 DEF SaveSealedRunProgressIfOwned
  <2>2. /\ progress' # NoProgress /\ progress'.run = r /\ progress'.pub = "pending"
        /\ progress'.report = report
        /\ progress' \in [run : Runs, report : Reports, pub : {"none", "pending", "published", "unchanged"}]
    BY <2>1, ProgressRow
  <2>3. /\ batch # NoBatch /\ batch.run = r /\ batch.state = "sealed" /\ fate[r] = "sealed"
        /\ progress.run = r /\ progress.pub = "pending" /\ progress.report = report
    BY <1>2 DEF Owns, BatchMatchesFate, ProgressOK
  <2>4. CacheTypeOK'
    BY <2>1, <2>2 DEF CacheTypeOK
  <2>5. StagedBelongsToBatch' /\ EveryRowValid' /\ BatchMatchesFate'
    BY <2>1 DEF StagedBelongsToBatch, EveryRowValid, BatchMatchesFate, Owns
  <2>6. ProgressOK'
    BY <2>1, <2>2, <2>3 DEF ProgressOK, ResolvedAs
  <2>7. Shrunk
    BY <2>1 DEF Shrunk
  <2>8. \A s \in Runs : Keeps(s)
    BY <2>1, <2>2, <2>3
       DEF Keeps, KeepsOutcomes, Told, ToldNext, Owns, OwnsNext, Decided, ResolvedAs, ResolvedNext
  <2> QED
    BY <2>4, <2>5, <2>6, <2>7, <2>8
<1> QED
  BY <1>1, <1>2

LEMMA CheckpointKeeps ==
  ASSUME TablesOK, NEW r \in Runs, NEW report, NEW rows \in Rows, CheckpointStagedPair(r, rows, report)
  PROVE  /\ TablesOK' /\ \A s \in Runs : Keeps(s)
         /\ report \in RunningReports /\ judgments' = judgments
         /\ \A k \in Key : staged'[k] = IF rows[k] # NoRow THEN rows[k] ELSE staged[k]
<1> USE DEF TablesOK
<1>1. /\ batch # NoBatch /\ batch.run = r /\ batch.state = "active" /\ fate[r] = "open"
      /\ progress.run = r /\ progress.pub = "none"
      /\ report \in RunningReports /\ report \in Reports
      /\ staged' = Overlay(staged, rows)
      /\ progress' = ProgressOf(r, report, "none")
      /\ UNCHANGED <<judgments, token, lastRun, fate>>
  BY DEF CheckpointStagedPair, Owns, BatchMatchesFate, ProgressOK, Reports
<1>2. batch \in Batches
  BY <1>1 DEF CacheTypeOK, Batches
<1>3. PICK moved \in Nat : moved = batch.revision + 1
  BY <1>2 DEF Batches
<1>4. /\ batch' \in Batches /\ batch'.run = r /\ batch'.state = "active"
  <2>1. batch' = [batch EXCEPT !.revision = moved, !.report = report]
    BY <1>3 DEF CheckpointStagedPair
  <2> QED
    BY <1>1, <1>2, <2>1 DEF Batches
<1>5. batch' # NoBatch
  BY <1>4, BatchRow
<1>6. /\ progress' # NoProgress /\ progress'.run = r /\ progress'.pub = "none"
      /\ progress' \in [run : Runs, report : Reports, pub : {"none", "pending", "published", "unchanged"}]
  BY <1>1, ProgressRow
<1>7. \A k \in Key : staged'[k] = IF rows[k] # NoRow THEN rows[k] ELSE staged[k]
  BY <1>1 DEF Overlay
<1>8. staged' \in Rows
  BY <1>1 DEF Overlay, Rows, CacheTypeOK
<1>9. CacheTypeOK'
  BY <1>1, <1>4, <1>6, <1>8 DEF CacheTypeOK, Batches
<1>10. StagedBelongsToBatch' /\ BatchMatchesFate'
  BY <1>1, <1>4, <1>5 DEF StagedBelongsToBatch, BatchMatchesFate, Owns
<1>11. EveryRowValid'
  <2>1. PICK p \in Pairs : \A k \in Held(rows) : k[1] = p /\ ValidRow(k, rows[k])
    BY DEF CheckpointStagedPair
  <2>2. \A k \in Key : rows[k] # NoRow => ValidRow(k, rows[k])
    BY <2>1 DEF Held
  <2> QED
    BY <1>1, <1>7, <2>2 DEF EveryRowValid
<1>12. ProgressOK'
  BY <1>1, <1>4, <1>5, <1>6 DEF ProgressOK, ResolvedAs
<1>13. \A s \in Runs : Keeps(s)
  BY <1>1, <1>4, <1>5, <1>6
     DEF Keeps, KeepsOutcomes, Told, ToldNext, Owns, OwnsNext, Decided, ResolvedAs, ResolvedNext
<1> QED
  BY <1>1, <1>7, <1>9, <1>10, <1>11, <1>12, <1>13

\* The active batch of r is sealed: the others keep what they had, and r is told the report.
LEMMA SealKeeps ==
  ASSUME TablesOK, NEW r \in Runs, NEW report, SealRunBatch(r, report), Owns(r, "active")
  PROVE  /\ TablesOK' /\ Shrunk /\ report \in TerminalReports
         /\ OwnsNext(r, "sealed") /\ ToldNext(r, report) /\ KeepsOutcomes(r)
         /\ \A s \in Runs \ {r} : Keeps(s)
<1> USE DEF TablesOK
<1>1. /\ batch # NoBatch /\ batch.run = r /\ batch.state = "active" /\ fate[r] = "open"
      /\ progress.run = r /\ progress.pub = "none"
      /\ report \in TerminalReports /\ report \in Reports
      /\ UNCHANGED <<judgments, staged, token, lastRun>>
  BY DEF SealRunBatch, Owns, BatchMatchesFate, ProgressOK, Reports
<1>2. /\ batch' = [batch EXCEPT !.state = "sealed", !.report = report]
      /\ progress' = ProgressOf(r, report, "pending")
      /\ fate' = [fate EXCEPT ![r] = "sealed"]
  BY DEF SealRunBatch, Owns
<1>3. batch \in Batches
  BY <1>1 DEF CacheTypeOK, Batches
<1>4. /\ batch' \in Batches /\ batch'.run = r /\ batch'.state = "sealed" /\ batch'.report = report
  BY <1>1, <1>2, <1>3 DEF Batches
<1>5. batch' # NoBatch
  BY <1>4, BatchRow
<1>6. /\ progress' # NoProgress /\ progress'.run = r /\ progress'.pub = "pending"
      /\ progress'.report = report
      /\ progress' \in [run : Runs, report : Reports, pub : {"none", "pending", "published", "unchanged"}]
  BY <1>1, <1>2, ProgressRow
<1>7. /\ fate' \in [Runs -> {"new", "open", "sealed", "published"}]
      /\ fate'[r] = "sealed" /\ \A s \in Runs \ {r} : fate'[s] = fate[s]
  BY <1>2 DEF CacheTypeOK
<1>8. CacheTypeOK'
  BY <1>1, <1>4, <1>6, <1>7 DEF CacheTypeOK, Batches
<1>9. StagedBelongsToBatch' /\ EveryRowValid'
  BY <1>1, <1>5 DEF StagedBelongsToBatch, EveryRowValid
<1>10. BatchMatchesFate'
  BY <1>1, <1>4, <1>5, <1>7 DEF BatchMatchesFate, Owns
<1>11. ProgressOK'
  BY <1>1, <1>4, <1>5, <1>6, <1>7 DEF ProgressOK, ResolvedAs
<1>12. Shrunk
  BY <1>1 DEF Shrunk
<1>13. OwnsNext(r, "sealed") /\ ToldNext(r, report)
  BY <1>4, <1>5, <1>6, <1>7 DEF OwnsNext, ToldNext
<1>14. KeepsOutcomes(r)
  BY <1>1, <1>7 DEF KeepsOutcomes, Told
<1>15. \A s \in Runs \ {r} : Keeps(s)
  BY <1>1, <1>4, <1>5, <1>6, <1>7
     DEF Keeps, KeepsOutcomes, Told, ToldNext, Owns, OwnsNext, Decided, ResolvedAs, ResolvedNext
<1> QED
  BY <1>1, <1>8, <1>9, <1>10, <1>11, <1>12, <1>13, <1>14, <1>15

LEMMA PromoteKeeps ==
  ASSUME TablesOK, NEW r \in Runs, NEW rows \in Rows, NEW expected, NEW report,
         PromoteRunBatch(r, rows, expected, report)
  PROVE  /\ TablesOK' /\ \A s \in Runs : Keeps(s)
         /\ \A k \in Key : judgments'[k] \in {judgments[k], staged[k]} /\ staged'[k] = NoRow
<1> USE DEF TablesOK
<1>1. /\ batch # NoBatch /\ batch.run = r /\ batch.state = "sealed" /\ batch.report = report
      /\ fate[r] = "sealed"
      /\ progress.run = r /\ progress.pub = "pending" /\ progress.report = report
      /\ \A k \in Held(rows) : rows[k] = staged[k]
  BY DEF PromoteRunBatch, CanPromote, Owns, BatchMatchesFate, ProgressOK
<1>2. report \in Reports
  BY <1>1 DEF CacheTypeOK
<1>3. /\ judgments' = Overlay(judgments, rows) /\ staged' = Empty /\ batch' = NoBatch
      /\ token' \in {token, token + 1} /\ lastRun' = r
      /\ fate' = [fate EXCEPT ![r] = "published"]
  BY DEF PromoteRunBatch
<1>4. PICK pub \in {"published", "unchanged"} : progress' = ProgressOf(r, report, pub)
  BY DEF PromoteRunBatch
<1>5. /\ progress' # NoProgress /\ progress'.run = r /\ progress'.pub = pub /\ progress'.report = report
      /\ progress' \in [run : Runs, report : Reports, pub : {"none", "pending", "published", "unchanged"}]
  BY <1>2, <1>4, ProgressRow
<1>6. /\ fate' \in [Runs -> {"new", "open", "sealed", "published"}]
      /\ fate'[r] = "published" /\ \A s \in Runs \ {r} : fate'[s] = fate[s]
  BY <1>3 DEF CacheTypeOK
<1>7. \A k \in Key : /\ judgments'[k] = IF rows[k] # NoRow THEN rows[k] ELSE judgments[k]
                     /\ staged'[k] = NoRow
  BY <1>3 DEF Overlay, Empty
<1>8. \A k \in Key : judgments'[k] \in {judgments[k], staged[k]}
  BY <1>1, <1>7 DEF Held
<1>9. judgments' \in Rows
  BY <1>3 DEF Overlay, Rows, CacheTypeOK
<1>10. staged' \in Rows
  BY <1>3 DEF Empty, Rows
<1>11. token' \in Nat
  BY <1>3 DEF CacheTypeOK
<1>12. CacheTypeOK'
  BY <1>3, <1>5, <1>6, <1>9, <1>10, <1>11 DEF CacheTypeOK
<1>13. StagedBelongsToBatch' /\ EveryRowValid'
  BY <1>3, <1>7, <1>8 DEF StagedBelongsToBatch, EveryRowValid
<1>14. BatchMatchesFate'
  BY <1>1, <1>3, <1>6 DEF BatchMatchesFate, Owns
<1>15. ProgressOK'
  BY <1>1, <1>3, <1>5, <1>6 DEF ProgressOK, ResolvedAs
<1>16. \A s \in Runs : Keeps(s)
  BY <1>1, <1>3, <1>4, <1>5, <1>6
     DEF Keeps, KeepsOutcomes, Told, ToldNext, Owns, OwnsNext, Decided, ResolvedAs, ResolvedNext
<1> QED
  BY <1>7, <1>8, <1>12, <1>13, <1>14, <1>15, <1>16

\* A new run opens its batch; what was told of earlier runs stays.
LEMMA ReserveKeeps ==
  ASSUME TablesOK, NEW r \in Runs, NEW report, fate[r] = "new", ReserveRunBatch(r, report)
  PROVE  /\ TablesOK' /\ Shrunk /\ OwnsNext(r, "active") /\ fate'[r] = "open"
         /\ \A s \in Runs : KeepsOutcomes(s)
<1> USE DEF TablesOK
<1>1. /\ batch = NoBatch /\ report \in RunningReports /\ report \in Reports
      /\ batch' = [run |-> r, state |-> "active", revision |-> 0, report |-> report]
      /\ progress' = ProgressOf(r, report, "none")
      /\ fate' = [fate EXCEPT ![r] = "open"]
      /\ UNCHANGED <<judgments, staged, token, lastRun>>
  BY DEF ReserveRunBatch, Reports
<1>2. batch' \in Batches /\ batch'.run = r /\ batch'.state = "active"
  BY <1>1 DEF Batches
<1>3. batch' # NoBatch
  BY <1>2, BatchRow
<1>4. /\ progress' # NoProgress /\ progress'.run = r /\ progress'.pub = "none"
      /\ progress' \in [run : Runs, report : Reports, pub : {"none", "pending", "published", "unchanged"}]
  BY <1>1, ProgressRow
<1>5. /\ fate' \in [Runs -> {"new", "open", "sealed", "published"}]
      /\ fate'[r] = "open" /\ \A s \in Runs \ {r} : fate'[s] = fate[s]
  BY <1>1 DEF CacheTypeOK
<1>6. CacheTypeOK'
  BY <1>1, <1>2, <1>4, <1>5 DEF CacheTypeOK, Batches
<1>7. StagedBelongsToBatch' /\ EveryRowValid'
  BY <1>1, <1>3 DEF StagedBelongsToBatch, EveryRowValid
<1>8. BatchMatchesFate'
  BY <1>1, <1>2, <1>3, <1>5 DEF BatchMatchesFate, Owns
<1>9. ProgressOK'
  BY <1>1, <1>2, <1>3, <1>4, <1>5 DEF ProgressOK, ResolvedAs
<1>10. Shrunk
  BY <1>1 DEF Shrunk
<1>11. OwnsNext(r, "active")
  BY <1>2, <1>3 DEF OwnsNext
<1>12. \A s \in Runs : KeepsOutcomes(s)
  <2> TAKE s \in Runs
  <2>1. CASE s = r
    BY <2>1, <1>5 DEF KeepsOutcomes, Told
  <2>2. CASE s # r
    BY <2>2, <1>1, <1>2, <1>3, <1>4, <1>5 DEF KeepsOutcomes, Told, ToldNext, OwnsNext
  <2> QED
    BY <2>1, <2>2
<1> QED
  BY <1>5, <1>6, <1>7, <1>8, <1>9, <1>10, <1>11, <1>12
-------------------------------------------------------------------------------
(* What a step leaves alone *)

LEMMA ToldStays ==
  ASSUME NEW r \in Runs, KeepsOutcomes(r)
  PROVE  \A report \in Reports : Told(r, report) => Told(r, report)'
BY DEF KeepsOutcomes, Told, ToldNext, Owns, OwnsNext

LEMMA CompletionKept ==
  ASSUME TypeOK, NEW r \in Runs, RunOK(r), KeepsOutcomes(r), completion'[r] = completion[r]
  PROVE  CompletionOK(r, completion[r])'
<1>1. completion[r] \in Completion \cup {None}
  BY DEF TypeOK
<1> QED
  BY <1>1, ToldStays DEF RunOK, CompletionOK, Reports, Completion, Told, Whole, Owns

LEMMA FinalizerKept ==
  ASSUME TypeOK, NEW r \in Runs, RunOK(r), KeepsOutcomes(r),
         publisher'[<<r, "finalizer">>] = publisher[<<r, "finalizer">>]
  PROVE  FinalizerOK(r, publisher[<<r, "finalizer">>])'
<1>1. publisher[<<r, "finalizer">>] \in Publisher \cup {IdlePublisher}
  BY DEF TypeOK, Publishers
<1> QED
  BY ToldStays DEF RunOK, FinalizerOK, Reports, Told, Whole, Owns

LEMMA LiveKept ==
  ASSUME TypeOK, NEW r \in Runs, RunOK(r), Keeps(r),
         UNCHANGED <<worker[r], completion[r], mode>>,
         sources' = sources \/ sources'.rev = sources.rev + 1
  PROVE  Active(r)' => LiveOK(r, worker[r])'
<1>1. worker[r] \in Worker \cup {NoWorker}
  BY DEF TypeOK
<1>2. Active(r)' <=> Active(r)
  BY DEF Active, Started, Settled
<1>3. ASSUME Active(r) PROVE LiveOK(r, worker[r])'
  <2>1. LiveOK(r, worker[r]) /\ worker[r] \in Worker
    BY <1>1, <1>3 DEF RunOK, Active, Started
  <2>2. mode' = "up" /\ worker'[r].cause = "none" /\ fate'[r] # "new"
    BY <2>1 DEF LiveOK, Keeps, KeepsOutcomes
  <2>3. CASE worker[r].sealed
    <3>1. /\ worker[r].pc = "closing" /\ Decided(r)
          /\ worker[r].report \in TerminalReports /\ Told(r, worker[r].report) /\ Whole(worker[r].report)
      BY <2>1, <2>3 DEF LiveOK
    <3>2. worker[r].report \in Reports
      BY <3>1 DEF Reports
    <3>3. OwnsNext(r, "sealed") \/ ResolvedNext(r)
      BY <3>1 DEF Keeps
    <3>4. ToldNext(r, worker[r].report)
      BY <3>1, <3>2 DEF Keeps, KeepsOutcomes
    <3> QED
      BY <2>2, <2>3, <3>1, <3>3, <3>4 DEF LiveOK, Decided, Owns, OwnsNext, ResolvedAs, ResolvedNext,
         Told, ToldNext, Whole
  <2>4. CASE ~worker[r].sealed
    <3>1. /\ worker[r].pc \in Working /\ Owns(r, "active") /\ worker[r].report \in RunningReports
          /\ Counted(worker[r]) /\ Captures(worker[r])
          /\ worker[r].pc \in {"dispatch", "sent"} => worker[r].kind \in Kinds
      BY <2>1, <2>4 DEF LiveOK
    <3>2. OwnsNext(r, "active")
      BY <3>1 DEF Keeps
    <3>3. worker[r].capture.rev \in Nat /\ sources.rev \in Nat
      BY <2>1 DEF TypeOK, Worker, Sources
    <3>4. Captures(worker[r])'
      <4>1. CASE sources' = sources
        BY <3>1, <4>1 DEF Captures
      <4>2. CASE sources'.rev = sources.rev + 1
        BY <3>1, <3>3, <4>2 DEF Captures
      <4> QED
        BY <4>1, <4>2
    <3> QED
      BY <2>2, <2>4, <3>1, <3>2, <3>4 DEF LiveOK, Owns, OwnsNext, Counted
  <2> QED
    BY <2>3, <2>4
<1> QED
  BY <1>2, <1>3

\* A step that does not touch what the process knows of r, and keeps what the tables say.
LEMMA RunKept ==
  ASSUME TypeOK, NEW r \in Runs, RunOK(r), Keeps(r),
         UNCHANGED <<worker[r], publisher[<<r, "finalizer">>], completion[r], mode>>,
         sources' = sources \/ sources'.rev = sources.rev + 1
  PROVE  RunOK(r)'
<1>1. KeepsOutcomes(r)
  BY DEF Keeps
<1>2. Active(r)' => LiveOK(r, worker[r])'
  BY LiveKept
<1>3. FinalizerOK(r, publisher[<<r, "finalizer">>])'
  BY <1>1, FinalizerKept
<1>4. CompletionOK(r, completion[r])'
  BY <1>1, CompletionKept
<1> QED
  BY <1>2, <1>3, <1>4 DEF RunOK

\* Rows that only go, with the sources as they are and no new mutation.
LEMMA RowsStay ==
  ASSUME RowsTrue, PurgedOK, Shrunk, sources' = sources, mutation' \in {mutation, None}
  PROVE  RowsTrue' /\ PurgedOK'
<1>1. \A k \in Key : {judgments'[k], staged'[k]} \ {NoRow} \subseteq RowsAt(k)
  BY DEF Shrunk, RowsAt
<1>2. RowsTrue'
  BY <1>1 DEF RowsTrue, RowTrue, RowsAt, StillTrue
<1>3. PurgedOK'
  <2>1. CASE mutation' = None
    BY <2>1 DEF PurgedOK
  <2>2. CASE mutation' = mutation
    BY <1>1, <2>2 DEF PurgedOK, RowsAt
  <2> QED
    BY <2>1, <2>2
<1> QED
  BY <1>2, <1>3

LEMMA AllKept ==
  ASSUME TypeOK, \A r \in Runs : RunOK(r), \A r \in Runs : Keeps(r),
         UNCHANGED <<worker, publisher, completion, mode>>,
         sources' = sources \/ sources'.rev = sources.rev + 1
  PROVE  \A r \in Runs : RunOK(r)'
BY RunKept

-------------------------------------------------------------------------------
(* Mutations *)

LEMMA PurgeCleans ==
  ASSUME NEW keys, NEW kinds, Purge(keys, kinds)
  PROVE  \A k \in Key \cap keys : \A row \in {judgments'[k], staged'[k]} \ {NoRow} : row.kind \notin kinds
<1>1. PICK gone, stagedGone :
        /\ gone = {k \in keys \cap Held(judgments) : judgments[k].kind \in kinds}
        /\ stagedGone = {k \in keys \cap Held(staged) : staged[k].kind \in kinds}
        /\ judgments' = Erase(judgments, gone) /\ staged' = Erase(staged, stagedGone)
  BY DEF Purge
<1>2. \A k \in Key : /\ judgments'[k] = IF k \in gone THEN NoRow ELSE judgments[k]
                     /\ staged'[k] = IF k \in stagedGone THEN NoRow ELSE staged[k]
  BY <1>1 DEF Erase
<1> QED
  BY <1>1, <1>2 DEF Held

LEMMA PurgeBeforeSaveKeeps ==
  ASSUME TablesOK, NEW e \in Mutation, PurgeBeforeSave(e)
  PROVE  TablesOK' /\ Shrunk /\ \A r \in Runs : Keeps(r)
<1>1. CASE e[1] = "sources"
  BY <1>1, PurgeKeeps DEF PurgeBeforeSave, InvalidateGame
<1>2. CASE e[1] = "permit"
  BY <1>2, PurgeKeeps DEF PurgeBeforeSave, PurgeDDependent
<1>3. CASE e[1] \notin {"sources", "permit"}
  BY <1>3, SameTables DEF PurgeBeforeSave
<1> QED
  BY <1>1, <1>2, <1>3

LEMMA MutationBeginsInv ==
  ASSUME RunInv, NEW e \in Mutations, MutationBegins(e)
  PROVE  RunInv'
<1> USE DEF RunInv
<1>1. e \in Mutation /\ [edit |-> e, at |-> "save"] \in RunningMutation
  BY RunConstants DEF RunningMutation
<1>2. TablesOK' /\ Shrunk /\ \A r \in Runs : Keeps(r)
  BY <1>1, PurgeBeforeSaveKeeps DEF MutationBegins
<1>3. UNCHANGED <<sources, mode, worker, publisher, pending, completion>>
  BY DEF MutationBegins, processVars
<1>4. mutation' = [edit |-> e, at |-> "save"]
  BY DEF MutationBegins
<1>5. TypeOK'
  BY <1>1, <1>2, <1>3, <1>4 DEF TypeOK, TablesOK
<1>6. \A r \in Runs : RunOK(r)'
  BY <1>2, <1>3, AllKept
<1>7. RowsTrue'
  BY <1>2, <1>3 DEF RowsTrue, RowTrue, RowsAt, Shrunk, StillTrue
<1>8. PurgedOK'
  <2>1. ASSUME e[1] = "sources"
        PROVE  \A k \in Key : e[2] \in k[1] => \A row \in RowsAt(k)' : row.kind \notin KindsTouched(e[3])
    <3>1. Purge({k \in CollectionKeys : e[2] \in k[1]}, KindsTouched(e[3]))
      BY <2>1 DEF MutationBegins, PurgeBeforeSave, InvalidateGame
    <3>2. \A k \in Key : k \in CollectionKeys
      BY RunConstants DEF Key, CollectionKeys, IsCandidatePair
    <3> QED
      BY <3>1, <3>2, PurgeCleans DEF RowsAt
  <2>2. ASSUME e[1] = "permit"
        PROVE  ~sources.noteUse /\ \A k \in Key : \A row \in RowsAt(k)' : row.kind \notin NoteKinds
    <3>1. Purge(Key, NoteKinds)
      BY <2>2 DEF MutationBegins, PurgeBeforeSave, PurgeDDependent
    <3> QED
      BY <2>2, <3>1, PurgeCleans DEF RowsAt, MutationBegins
  <2>3. e[1] = "revoke" => sources.noteUse
    BY DEF MutationBegins
  <2> QED
    BY <1>3, <1>4, <2>1, <2>2, <2>3 DEF PurgedOK
<1> QED
  BY <1>2, <1>5, <1>6, <1>7, <1>8

LEMMA AcceptedSources ==
  ASSUME NEW e \in Mutation, NEW src \in Sources
  PROVE  /\ Accepted(e, src) \in Sources /\ Accepted(e, src).rev = src.rev + 1
         /\ e[1] = "sources" =>
              /\ Accepted(e, src).noteUse = src.noteUse /\ Accepted(e, src).epoch = src.epoch
              /\ \A x \in Games :
                   /\ ~("C" \in e[3] /\ x = e[2]) => Accepted(e, src).desc[x] = src.desc[x]
                   /\ ~("D" \in e[3] /\ x = e[2]) => Accepted(e, src).note[x] = src.note[x]
         /\ e[1] # "sources" => Accepted(e, src).desc = src.desc /\ Accepted(e, src).note = src.note
         /\ e[1] \in {"revoke", "permit"} => Accepted(e, src).noteUse = ~src.noteUse
         /\ e[1] \in {"settings", "other"} =>
              Accepted(e, src).noteUse = src.noteUse /\ Accepted(e, src).epoch = src.epoch
<1>1. e[1] \in {"sources", "revoke", "permit", "settings", "other"}
  BY DEF Mutation
<1>2. PICK rev \in Nat : rev = src.rev + 1
  BY DEF Sources
<1>3. CASE e[1] = "sources"
  <2> DEFINE bump(S, x) == IF S \in e[3] /\ x = e[2] THEN 1 ELSE 0
  <2>1. PICK desc \in [Games -> Nat] : desc = [x \in Games |-> src.desc[x] + bump("C", x)]
    <3>1. [x \in Games |-> src.desc[x] + bump("C", x)] \in [Games -> Nat]
      BY DEF Sources
    <3> QED
      BY <3>1
  <2>2. PICK note \in [Games -> Nat] : note = [x \in Games |-> src.note[x] + bump("D", x)]
    <3>1. [x \in Games |-> src.note[x] + bump("D", x)] \in [Games -> Nat]
      BY DEF Sources
    <3> QED
      BY <3>1
  <2>3. Accepted(e, src) = [[src EXCEPT !.rev = rev] EXCEPT !.desc = desc, !.note = note]
    BY <1>2, <1>3, <2>1, <2>2 DEF Accepted, Sources
  <2>4. /\ Accepted(e, src) \in Sources /\ Accepted(e, src).rev = rev
        /\ Accepted(e, src).noteUse = src.noteUse /\ Accepted(e, src).epoch = src.epoch
        /\ Accepted(e, src).desc = desc /\ Accepted(e, src).note = note
    BY <2>3 DEF Sources
  <2>5. \A x \in Games : /\ ~("C" \in e[3] /\ x = e[2]) => desc[x] = src.desc[x]
                         /\ ~("D" \in e[3] /\ x = e[2]) => note[x] = src.note[x]
    BY <2>1, <2>2 DEF Sources
  <2> QED
    BY <1>2, <1>3, <2>4, <2>5
<1>4. CASE e[1] \in {"revoke", "permit"}
  <2>1. PICK epoch \in Nat, policy \in Nat : epoch = src.epoch + 1 /\ policy = src.policy + 1
    BY DEF Sources
  <2>2. Accepted(e, src) =
          [[src EXCEPT !.rev = rev] EXCEPT !.noteUse = ~src.noteUse, !.epoch = epoch, !.policy = policy]
    BY <1>2, <1>4, <2>1 DEF Accepted, Sources
  <2>3. /\ Accepted(e, src) \in Sources /\ Accepted(e, src).rev = rev
        /\ Accepted(e, src).noteUse = ~src.noteUse
        /\ Accepted(e, src).desc = src.desc /\ Accepted(e, src).note = src.note
    BY <2>2 DEF Sources
  <2> QED
    BY <1>2, <1>4, <2>3
<1>5. CASE e[1] = "settings"
  <2>1. PICK policy \in Nat : policy = src.policy + 1
    BY DEF Sources
  <2>2. Accepted(e, src) = [[src EXCEPT !.rev = rev] EXCEPT !.policy = policy]
    BY <1>2, <1>5, <2>1 DEF Accepted, Sources
  <2>3. /\ Accepted(e, src) \in Sources /\ Accepted(e, src).rev = rev
        /\ Accepted(e, src).noteUse = src.noteUse /\ Accepted(e, src).epoch = src.epoch
        /\ Accepted(e, src).desc = src.desc /\ Accepted(e, src).note = src.note
    BY <2>2 DEF Sources
  <2> QED
    BY <1>2, <1>5, <2>3
<1>6. CASE e[1] = "other"
  <2>1. Accepted(e, src) = [src EXCEPT !.rev = rev]
    BY <1>2, <1>6 DEF Accepted
  <2>2. /\ Accepted(e, src) \in Sources /\ Accepted(e, src).rev = rev
        /\ Accepted(e, src).noteUse = src.noteUse /\ Accepted(e, src).epoch = src.epoch
        /\ Accepted(e, src).desc = src.desc /\ Accepted(e, src).note = src.note
    BY <2>1 DEF Sources
  <2> QED
    BY <1>2, <1>6, <2>2
<1> QED
  BY <1>1, <1>3, <1>4, <1>5, <1>6

\* What an edit leaves alone, it leaves judged as before; what it touches has been purged.
LEMMA SavedRowStillTrue ==
  ASSUME TypeOK, PurgedOK, mutation # None, mutation.at = "save",
         sources' = Accepted(mutation.edit, sources),
         NEW k \in Key, NEW row \in RowsAt(k), row \in Content, RowTrue(k, row)
  PROVE  RowTrue(k, row)'
<1> DEFINE e == mutation.edit
<1>1. e \in Mutation /\ sources \in Sources
  BY DEF TypeOK, RunningMutation
<1>2. row.kind \in Kinds /\ e[1] \in {"sources", "revoke", "permit", "settings", "other"}
  BY <1>1 DEF Content, Mutation
<1>3. CASE e[1] = "sources"
  <2>1. e[2] \in k[1] => row.kind \notin KindsTouched(e[3])
    BY <1>3 DEF PurgedOK
  <2>2. /\ sources'.noteUse = sources.noteUse /\ sources'.epoch = sources.epoch
        /\ \A x \in Games :
             /\ ~("C" \in e[3] /\ x = e[2]) => sources'.desc[x] = sources.desc[x]
             /\ ~("D" \in e[3] /\ x = e[2]) => sources'.note[x] = sources.note[x]
    BY <1>1, <1>3, AcceptedSources
  <2>3. \A x \in Games : /\ x \in k[1] /\ row.kind # "D_ONLY" => sources'.desc[x] = sources.desc[x]
                         /\ x \in k[1] /\ row.kind # "C_ONLY" => sources'.note[x] = sources.note[x]
    BY <1>2, <2>1, <2>2 DEF KindsTouched, NoteKinds, Kinds
  <2>4. EvidenceOf(row.kind, k[1], sources') = EvidenceOf(row.kind, k[1], sources)
    BY <2>2, <2>3 DEF EvidenceOf
  <2> QED
    BY <2>2, <2>4 DEF RowTrue, StillTrue
<1>4. CASE e[1] \in {"revoke", "permit"}
  <2>1. sources'.desc = sources.desc /\ sources'.note = sources.note /\ sources'.noteUse = ~sources.noteUse
    BY <1>1, <1>4, AcceptedSources
  <2>2. /\ EvidenceOf(row.kind, k[1], sources').desc = EvidenceOf(row.kind, k[1], sources).desc
        /\ EvidenceOf(row.kind, k[1], sources').note = EvidenceOf(row.kind, k[1], sources).note
    BY <2>1 DEF EvidenceOf
  <2>3. CASE e[1] = "revoke"
    BY <2>1, <2>2, <2>3 DEF RowTrue, StillTrue, PurgedOK
  <2>4. CASE e[1] = "permit"
    <3>1. row.kind = "C_ONLY"
      BY <1>2, <2>4 DEF PurgedOK, Kinds
    <3>2. ~sources.noteUse
      BY <2>4 DEF PurgedOK
    <3> QED
      BY <2>1, <2>2, <3>1, <3>2 DEF RowTrue, StillTrue, EvidenceOf
  <2> QED
    BY <1>4, <2>3, <2>4
<1>5. CASE e[1] \in {"settings", "other"}
  <2>1. /\ sources'.desc = sources.desc /\ sources'.note = sources.note
        /\ sources'.noteUse = sources.noteUse /\ sources'.epoch = sources.epoch
    BY <1>1, <1>5, AcceptedSources
  <2>2. EvidenceOf(row.kind, k[1], sources') = EvidenceOf(row.kind, k[1], sources)
    BY <2>1 DEF EvidenceOf
  <2> QED
    BY <2>1, <2>2 DEF RowTrue, StillTrue
<1> QED
  BY <1>2, <1>3, <1>4, <1>5

LEMMA RowsHeld ==
  ASSUME TablesOK, NEW k \in Key, NEW row \in RowsAt(k)
  PROVE  row \in Content
BY DEF TablesOK, CacheTypeOK, RowsAt, Rows

LEMMA MutationSavesInv ==
  ASSUME RunInv, MutationSaves
  PROVE  RunInv'
<1> USE DEF RunInv
<1>1. /\ mutation # None /\ mutation.at = "save" /\ sources' = Accepted(mutation.edit, sources)
      /\ UNCHANGED tables /\ UNCHANGED <<mode, worker, publisher, pending, completion>>
  BY DEF MutationSaves, processVars
<1>2. mutation \in RunningMutation /\ mutation.edit \in Mutation /\ sources \in Sources
  BY <1>1 DEF TypeOK, RunningMutation
<1>3. sources' \in Sources /\ sources'.rev = sources.rev + 1
  BY <1>1, <1>2, AcceptedSources
<1>4. mutation' = None \/ mutation' = [mutation EXCEPT !.at = "cleanup"]
  BY DEF MutationSaves
<1>5. mutation' \in RunningMutation \cup {None} /\ (mutation' # None => mutation'.at # "save")
  BY <1>2, <1>4 DEF RunningMutation
<1>6. TablesOK' /\ \A r \in Runs : Keeps(r)
  BY <1>1, SameTables
<1>7. TypeOK'
  BY <1>1, <1>3, <1>5, <1>6 DEF TypeOK, TablesOK
<1>8. \A r \in Runs : RunOK(r)'
  BY <1>1, <1>3, <1>6, AllKept
<1>9. RowsTrue'
  <2> SUFFICES ASSUME NEW k \in Key, NEW row \in RowsAt(k)' PROVE RowTrue(k, row)'
    BY DEF RowsTrue
  <2>1. row \in RowsAt(k)
    BY <1>1 DEF tables, RowsAt
  <2>2. row \in Content /\ RowTrue(k, row)
    BY <2>1, RowsHeld DEF RowsTrue
  <2> QED
    BY <1>1, <2>1, <2>2, SavedRowStillTrue
<1>10. PurgedOK'
  BY <1>5 DEF PurgedOK
<1> QED
  BY <1>6, <1>7, <1>8, <1>9, <1>10

\* The mutation ends, and at most rows are purged.
LEMMA MutationEndsInv ==
  ASSUME RunInv, TablesOK', Shrunk, \A r \in Runs : Keeps(r), mutation' = None,
         UNCHANGED <<sources, mode, worker, publisher, pending, completion>>
  PROVE  RunInv'
<1> USE DEF RunInv
<1>1. TypeOK'
  BY DEF TypeOK, TablesOK
<1>2. \A r \in Runs : RunOK(r)'
  BY AllKept
<1>3. RowsTrue' /\ PurgedOK'
  BY RowsStay
<1> QED
  BY <1>1, <1>2, <1>3

LEMMA MutationStepInv ==
  ASSUME RunInv, MutationStep
  PROVE  RunInv'
<1>1. ASSUME MutationSaveFails PROVE RunInv'
  <2>1. UNCHANGED tables
    BY <1>1 DEF MutationSaveFails
  <2>2. TablesOK' /\ Shrunk /\ \A r \in Runs : Keeps(r)
    BY <2>1, SameTables DEF RunInv
  <2> QED
    BY <1>1, <2>2, MutationEndsInv DEF MutationSaveFails, processVars
<1>2. ASSUME RevocationCleansUp PROVE RunInv'
  <2>1. PurgeDDependent \/ UNCHANGED tables
    BY <1>2 DEF RevocationCleansUp
  <2>2. TablesOK' /\ Shrunk /\ \A r \in Runs : Keeps(r)
    BY <2>1, SameTables, PurgeKeeps DEF RunInv, PurgeDDependent
  <2> QED
    BY <1>2, <2>2, MutationEndsInv DEF RevocationCleansUp, processVars
<1> QED
  BY <1>1, <1>2, MutationSavesInv DEF MutationStep

-------------------------------------------------------------------------------
(* Publishers *)

LEMMA PublisherAtTyped ==
  ASSUME NEW report \in Reports, NEW prepared \in Sources \cup {None}
  PROVE  /\ PublisherAt(report, prepared) \in Publisher
         /\ PublisherAt(report, prepared).report = report /\ PublisherAt(report, prepared).at = "snapshot"
         /\ \A answer \in PublisherAnswers :
              /\ Ended(PublisherAt(report, prepared), answer) \in Publisher
              /\ Ended(PublisherAt(report, prepared), answer).report = report
         /\ \A n \in Nat : /\ [PublisherAt(report, prepared) EXCEPT !.tries = n] \in Publisher
                           /\ [PublisherAt(report, prepared) EXCEPT !.tries = n].report = report
BY DEF PublisherAt, Ended, Publisher, PublisherAnswers

LEMMA EndedTyped ==
  ASSUME NEW p \in Publisher, NEW answer \in PublisherAnswers
  PROVE  Ended(p, answer) \in Publisher /\ Ended(p, answer).report = p.report
BY DEF PublisherAt, Ended, Publisher

\* A publisher that is at work goes on with the report it has.
LEMMA PublisherMovesInv ==
  ASSUME RunInv, NEW w \in Publishers, NEW state \in Publisher, Moved(w, state),
         publisher[w].at # "idle", state.report = publisher[w].report,
         TablesOK', \A r \in Runs : Keeps(r), RowsTrue', PurgedOK',
         UNCHANGED <<sources, mutation, mode, worker, pending, completion>>
  PROVE  RunInv'
<1> USE DEF RunInv
<1>1. publisher' \in [Publishers -> Publisher \cup {IdlePublisher}]
  BY DEF TypeOK, Moved
<1>2. TypeOK'
  BY <1>1 DEF TypeOK, TablesOK
<1>3. ASSUME NEW r \in Runs PROVE RunOK(r)'
  <2>1. CASE w # <<r, "finalizer">>
    <3>1. publisher'[<<r, "finalizer">>] = publisher[<<r, "finalizer">>]
      BY <2>1 DEF TypeOK, Moved, Publishers
    <3> QED
      BY <3>1, RunKept
  <2>2. CASE w = <<r, "finalizer">>
    <3> DEFINE p == publisher[w]
    <3>1. publisher'[w] = state /\ p \in Publisher \cup {IdlePublisher}
      BY DEF TypeOK, Moved
    <3>2. p.report \in TerminalReports /\ Told(r, p.report) /\ Whole(p.report)
      BY <2>2 DEF RunOK, FinalizerOK
    <3>3. ToldNext(r, p.report)
      BY <3>2 DEF Keeps, KeepsOutcomes, Reports
    <3>4. FinalizerOK(r, publisher[<<r, "finalizer">>])'
      BY <2>2, <3>1, <3>2, <3>3 DEF FinalizerOK, ToldNext, Told, OwnsNext, Owns, Whole
    <3>5. Active(r)' => LiveOK(r, worker[r])'
      BY LiveKept
    <3>6. CompletionOK(r, completion[r])'
      BY CompletionKept DEF Keeps
    <3> QED
      BY <3>4, <3>5, <3>6 DEF RunOK
  <2> QED
    BY <2>1, <2>2
<1> QED
  BY <1>2, <1>3

LEMMA AtWork ==
  ASSUME TypeOK, NEW w \in Publishers, publisher[w].at # "idle"
  PROVE  /\ publisher[w] \in Publisher /\ publisher[w].report \in Reports
         /\ publisher[w].prepared \in Sources \cup {None}
BY DEF TypeOK, Publisher, IdlePublisher

\* The publisher answers or tries again: the tables are as they were, but for the progress of
\* a batch that its run still owns.
LEMMA AnswersInv ==
  ASSUME RunInv, NEW w \in Publishers, publisher[w].at # "idle",
         UNCHANGED <<sources, mutation, mode, worker, pending, completion>>,
         \/ GivesUp(w)
         \/ UNCHANGED tables /\ \E answer \in PublisherAnswers : Answers(w, answer)
  PROVE  RunInv'
<1> USE DEF RunInv
<1>1. PICK answer \in PublisherAnswers : Answers(w, answer)
  BY DEF GivesUp, PublisherAnswers
<1>2. publisher[w] \in Publisher /\ publisher[w].report \in Reports
  BY AtWork
<1>3. Ended(publisher[w], answer) \in Publisher /\ Ended(publisher[w], answer).report = publisher[w].report
  BY <1>2, EndedTyped
<1>4. w[1] \in Runs
  BY DEF Publishers
<1>5. TablesOK' /\ Shrunk /\ \A r \in Runs : Keeps(r)
  BY <1>2, <1>4, SameTables, SaveSealedKeeps DEF GivesUp
<1>6. RowsTrue' /\ PurgedOK'
  BY <1>5, RowsStay
<1> QED
  BY <1>1, <1>3, <1>5, <1>6, PublisherMovesInv DEF Answers

LEMMA TriesAgainInv ==
  ASSUME RunInv, NEW w \in Publishers, publisher[w].at # "idle", TriesAgain(w),
         UNCHANGED <<sources, mutation, mode, worker, pending, completion>>
  PROVE  RunInv'
<1> DEFINE p == publisher[w]
           again == [PublisherAt(p.report, p.prepared) EXCEPT !.tries = p.tries + 1]
<1>1. p \in Publisher /\ p.report \in Reports /\ p.prepared \in Sources \cup {None} /\ p.tries + 1 \in Nat
  BY AtWork DEF RunInv, Publisher
<1>2. CASE p.tries < Retries
  <2>1. again \in Publisher /\ again.report = p.report
    BY <1>1, PublisherAtTyped
  <2>2. Moved(w, again) /\ UNCHANGED tables
    BY <1>2 DEF TriesAgain
  <2>3. TablesOK' /\ Shrunk /\ \A r \in Runs : Keeps(r)
    BY <2>2, SameTables DEF RunInv
  <2>4. RowsTrue' /\ PurgedOK'
    BY <2>3, RowsStay DEF RunInv
  <2> QED
    BY <2>1, <2>2, <2>3, <2>4, PublisherMovesInv
<1>3. CASE ~(p.tries < Retries)
  BY <1>3, AnswersInv DEF TriesAgain
<1> QED
  BY <1>2, <1>3

LEMMA SnapshotInv ==
  ASSUME RunInv, NEW w \in Publishers, Snapshot(w)
  PROVE  RunInv'
<1> DEFINE p == publisher[w]
<1>1. p.at # "idle" /\ UNCHANGED <<sources, mutation, mode, worker, pending, completion>>
  BY DEF Snapshot, PublisherOnly
<1>2. CASE GivesUp(w) \/ (UNCHANGED tables /\ Answers(w, "final"))
  BY <1>1, <1>2, AnswersInv DEF PublisherAnswers
<1>3. CASE /\ Owns(w[1], "sealed") /\ UNCHANGED tables
           /\ Moved(w, [p EXCEPT !.at = IF staged = Empty THEN "empty" ELSE "capture",
                                 !.rev = batch.revision])
  <2>1. PICK at \in {"empty", "capture"}, rev \in Nat : Moved(w, [p EXCEPT !.at = at, !.rev = rev])
    <3>1. batch.revision \in Nat
      BY <1>3 DEF RunInv, TypeOK, CacheTypeOK, Owns
    <3>2. (IF staged = Empty THEN "empty" ELSE "capture") \in {"empty", "capture"}
      OBVIOUS
    <3> QED
      BY <1>3, <3>1, <3>2
  <2>2. [p EXCEPT !.at = at, !.rev = rev] \in Publisher
        /\ [p EXCEPT !.at = at, !.rev = rev].report = p.report
    BY <1>1, AtWork DEF Publisher, RunInv
  <2>3. TablesOK' /\ Shrunk /\ \A r \in Runs : Keeps(r)
    BY <1>3, SameTables DEF RunInv
  <2>4. RowsTrue' /\ PurgedOK'
    BY <1>1, <2>3, RowsStay DEF RunInv
  <2> QED
    BY <1>1, <2>1, <2>2, <2>3, <2>4, PublisherMovesInv
<1> QED
  BY <1>2, <1>3 DEF Snapshot

LEMMA LoadCaptureInv ==
  ASSUME RunInv, NEW w \in Publishers, LoadCapture(w)
  PROVE  RunInv'
<1> DEFINE p == publisher[w]
           loaded == [p EXCEPT !.at = "commit", !.capture = sources]
<1>1. p.at # "idle" /\ UNCHANGED <<sources, mutation, mode, worker, pending, completion>>
  BY DEF LoadCapture, PublisherOnly
<1>2. CASE Moved(w, loaded) /\ UNCHANGED tables
  <2>1. loaded \in Publisher /\ loaded.report = p.report
    BY <1>1, AtWork DEF Publisher, RunInv, TypeOK
  <2>2. TablesOK' /\ Shrunk /\ \A r \in Runs : Keeps(r)
    BY <1>2, SameTables DEF RunInv
  <2>3. RowsTrue' /\ PurgedOK'
    BY <1>1, <2>2, RowsStay DEF RunInv
  <2> QED
    BY <1>1, <1>2, <2>1, <2>2, <2>3, PublisherMovesInv
<1> QED
  BY <1>1, <1>2, TriesAgainInv DEF LoadCapture

\* What is promoted was staged, so it is as true as it was.
LEMMA CommitInv ==
  ASSUME RunInv, NEW w \in Publishers, Commit(w)
  PROVE  RunInv'
<1> USE DEF RunInv
<1> DEFINE p == publisher[w]
           rows == IF p.at = "empty" THEN Empty ELSE Only(staged, Eligible(p))
<1>1. p.at # "idle" /\ UNCHANGED <<sources, mutation, mode, worker, pending, completion>> /\ LockFree
  BY DEF Commit, PublisherOnly
<1>2. CASE PromoteRunBatch(w[1], rows, p.rev, p.report) /\ Answers(w, "final")
  <2>1. rows \in Rows
    BY DEF Only, Empty, Rows, TypeOK, CacheTypeOK
  <2>2. w[1] \in Runs
    BY DEF Publishers
  <2>3. /\ TablesOK' /\ \A r \in Runs : Keeps(r)
        /\ \A k \in Key : judgments'[k] \in {judgments[k], staged[k]} /\ staged'[k] = NoRow
    BY <1>2, <2>1, <2>2, PromoteKeeps
  <2>4. Ended(p, "final") \in Publisher /\ Ended(p, "final").report = p.report
    BY <1>1, AtWork, EndedTyped DEF PublisherAnswers
  <2>5. RowsTrue'
    BY <1>1, <2>3 DEF RowsTrue, RowTrue, RowsAt, StillTrue
  <2>6. PurgedOK'
    BY <1>1 DEF PurgedOK, LockFree
  <2> QED
    BY <1>1, <1>2, <2>3, <2>4, <2>5, <2>6, PublisherMovesInv DEF Answers
<1> QED
  BY <1>1, <1>2, TriesAgainInv DEF Commit

-------------------------------------------------------------------------------
(* The end of a run *)

\* What is known of a live run that has not sealed its batch.
Unsealed(r) == Active(r) /\ ~worker[r].sealed

LEMMA UnsealedFacts ==
  ASSUME RunInv, NEW r \in Runs, Unsealed(r)
  PROVE  /\ worker[r] \in Worker /\ mode = "up" /\ worker[r].cause = "none" /\ fate[r] # "new"
         /\ worker[r].pc \in Working /\ Owns(r, "active") /\ worker[r].report \in RunningReports
         /\ Counted(worker[r]) /\ Captures(worker[r])
         /\ worker[r].pc \in {"dispatch", "sent"} => worker[r].kind \in Kinds
         /\ completion[r] = None /\ worker[r].sealed = FALSE /\ worker[r].capture \in Sources
<1>1. worker[r] \in Worker /\ completion[r] = None
  BY DEF RunInv, TypeOK, Unsealed, Active, Started, Settled
<1>2. LiveOK(r, worker[r])
  BY DEF RunInv, RunOK, Unsealed
<1> QED
  BY <1>1, <1>2 DEF LiveOK, Unsealed, Worker

LEMMA SettledTyped ==
  ASSUME TypeOK, NEW r \in Runs, NEW report \in TerminalReports,
         NEW outcome \in PublisherAnswers \cup {"unpersisted"}, Settle(r, report, outcome)
  PROVE  /\ completion' \in [Runs -> Completion \cup {None}]
         /\ Settled(r)' /\ \A s \in Runs \ {r} : completion'[s] = completion[s]
         /\ Settled(r) => completion' = completion
         /\ ~Settled(r) => completion'[r].report = report /\ completion'[r].outcome = outcome
<1>1. [report |-> report, outcome |-> outcome] \in Completion
  BY DEF Completion
<1>2. [report |-> report, outcome |-> outcome] # None
  BY <1>1, RunConstants
<1>3. CASE Settled(r)
  BY <1>3 DEF Settle, Settled, TypeOK
<1>4. CASE ~Settled(r)
  <2>1. completion' = [completion EXCEPT ![r] = [report |-> report, outcome |-> outcome]]
    BY <1>4 DEF Settle
  <2> QED
    BY <1>1, <1>2, <1>4, <2>1 DEF Settled, TypeOK
<1> QED
  BY <1>3, <1>4

\* finalizeRun of a run that was live and had not sealed: `w` is its worker, but that the
\* cause of a termination may be written down.
LEMMA FinalizeInv ==
  ASSUME RunInv, NEW r \in Runs, Unsealed(r), NEW report \in TerminalReports, NEW failures \in Nat,
         NEW w \in Worker, w = worker[r] \/ \E c \in Terminations : w = [worker[r] EXCEPT !.cause = c],
         Whole(report), FinalizeRun(r, w, report, failures), UNCHANGED <<sources, mutation, mode>>
  PROVE  RunInv'
<1> USE DEF RunInv
<1> DEFINE waiting == [report |-> report, prepared |-> w.capture]
           f == <<r, "finalizer">>
<1>1. /\ completion[r] = None /\ Owns(r, "active") /\ mode = "up" /\ fate[r] # "new"
      /\ w.capture \in Sources /\ f \in Publishers /\ report \in Reports
  BY UnsealedFacts DEF Worker, Publishers, Reports
<1>2. waiting \in Pending /\ [pending EXCEPT ![r] = waiting] \in [Runs -> Pending \cup {None}]
  BY <1>1 DEF Pending, TypeOK
<1>3. CASE /\ SealRunBatch(r, report)
           /\ worker' = [worker EXCEPT ![r] = [w EXCEPT !.report = report, !.sealed = TRUE,
                !.pc = IF w.cause # "none" THEN @ ELSE "closing"]]
           /\ publisher' = [publisher EXCEPT ![f] = PublisherAt(report, w.capture)]
           /\ IF w.cause # "none"
                THEN pending' = [pending EXCEPT ![r] = waiting] /\ Settle(r, report, "pending")
                ELSE UNCHANGED <<pending, completion>>
  <2>1. /\ TablesOK' /\ Shrunk /\ OwnsNext(r, "sealed") /\ ToldNext(r, report) /\ KeepsOutcomes(r)
        /\ \A s \in Runs \ {r} : Keeps(s)
    BY <1>1, <1>3, SealKeeps
  <2>2. PICK pc \in Working \cup {"closing"} :
          /\ worker' = [worker EXCEPT ![r] = [w EXCEPT !.report = report, !.sealed = TRUE, !.pc = pc]]
          /\ w.cause = "none" => pc = "closing"
    BY <1>3 DEF Worker
  <2>3. /\ [w EXCEPT !.report = report, !.sealed = TRUE, !.pc = pc] \in Worker
        /\ worker' \in [Runs -> Worker \cup {NoWorker}]
        /\ \A s \in Runs \ {r} : worker'[s] = worker[s]
        /\ worker'[r].report = report /\ worker'[r].sealed /\ worker'[r].pc = pc
        /\ worker'[r].cause = w.cause
    BY <1>1, <2>2 DEF TypeOK, Worker
  <2>4. PublisherAt(report, w.capture) \in Publisher /\ PublisherAt(report, w.capture).report = report
    BY <1>1, PublisherAtTyped
  <2>5. /\ publisher' \in [Publishers -> Publisher \cup {IdlePublisher}]
        /\ publisher'[f].report = report
        /\ \A s \in Runs \ {r} : publisher'[<<s, "finalizer">>] = publisher[<<s, "finalizer">>]
    BY <1>1, <1>3, <2>4 DEF TypeOK, Publishers
  <2>6. /\ pending' \in [Runs -> Pending \cup {None}]
        /\ completion' \in [Runs -> Completion \cup {None}]
        /\ \A s \in Runs \ {r} : completion'[s] = completion[s]
        /\ IF w.cause # "none" THEN Settled(r)' /\ completion'[r].report = report
                               ELSE completion'[r] = None
    <3>1. CASE w.cause # "none"
      <4>1. Settle(r, report, "pending") /\ ~Settled(r)
        BY <1>1, <1>3, <3>1 DEF Settled
      <4> QED
        BY <1>2, <1>3, <3>1, <4>1, SettledTyped DEF PublisherAnswers
    <3>2. CASE w.cause = "none"
      BY <1>1, <1>3, <3>2 DEF TypeOK
    <3> QED
      BY <3>1, <3>2
  <2>7. TypeOK'
    BY <2>1, <2>3, <2>5, <2>6 DEF TypeOK, TablesOK
  <2>8. \A s \in Runs \ {r} : RunOK(s)'
    BY <2>1, <2>3, <2>5, <2>6, RunKept
  <2>9. RunOK(r)'
    <3>1. FinalizerOK(r, publisher[f])'
      BY <2>1, <2>5 DEF FinalizerOK, ToldNext, Told, OwnsNext, Owns, Whole
    <3>2. CompletionOK(r, completion[r])'
      BY <2>1, <2>6 DEF CompletionOK, ToldNext, Told, OwnsNext, Owns, Whole
    <3>3. Active(r)' => LiveOK(r, worker[r])'
      <4> SUFFICES ASSUME Active(r)' PROVE LiveOK(r, worker[r])'
        OBVIOUS
      <4>1. w.cause = "none" /\ pc = "closing"
        BY <2>2, <2>6 DEF Active, Settled
      <4>2. fate'[r] # "new"
        BY <2>1 DEF ToldNext
      <4> QED
        BY <1>1, <2>1, <2>3, <4>1, <4>2
           DEF LiveOK, Decided, ToldNext, Told, OwnsNext, Owns, Whole
    <3> QED
      BY <3>1, <3>2, <3>3 DEF RunOK
  <2>10. RowsTrue' /\ PurgedOK'
    BY <2>1, RowsStay
  <2> QED
    BY <2>1, <2>7, <2>8, <2>9, <2>10
<1>4. CASE /\ worker' = [worker EXCEPT ![r] = IF w.cause # "none" THEN [w EXCEPT !.report = report]
                                                                  ELSE NoWorker]
           /\ pending' = [pending EXCEPT ![r] = waiting]
           /\ Settle(r, report, "unpersisted")
           /\ UNCHANGED <<tables, publisher>>
  <2>1. TablesOK' /\ Shrunk /\ \A s \in Runs : Keeps(s)
    BY <1>4, SameTables
  <2>2. /\ worker' \in [Runs -> Worker \cup {NoWorker}]
        /\ \A s \in Runs \ {r} : worker'[s] = worker[s]
    <3>1. [w EXCEPT !.report = report] \in Worker
      BY <1>1 DEF Worker
    <3>2. (IF w.cause # "none" THEN [w EXCEPT !.report = report] ELSE NoWorker) \in Worker \cup {NoWorker}
      BY <3>1
    <3> QED
      BY <1>4, <3>2 DEF TypeOK
  <2>3. /\ completion' \in [Runs -> Completion \cup {None}]
        /\ \A s \in Runs \ {r} : completion'[s] = completion[s]
        /\ Settled(r)' /\ completion'[r].report = report /\ completion'[r].outcome = "unpersisted"
    BY <1>1, <1>4, SettledTyped DEF Settled
  <2>4. TypeOK'
    BY <1>2, <1>4, <2>1, <2>2, <2>3 DEF TypeOK, TablesOK
  <2>5. \A s \in Runs \ {r} : RunOK(s)'
    BY <1>4, <2>1, <2>2, <2>3, RunKept
  <2>6. RunOK(r)'
    <3>1. FinalizerOK(r, publisher[f])'
      BY <1>4, <2>1, FinalizerKept DEF Keeps
    <3> QED
      BY <2>3, <3>1 DEF RunOK, Active, CompletionOK, Whole
  <2>7. RowsTrue' /\ PurgedOK'
    BY <2>1, RowsStay
  <2> QED
    BY <2>1, <2>4, <2>5, <2>6, <2>7
<1> QED
  BY <1>3, <1>4 DEF FinalizeRun

LEMMA EndedReports ==
  ASSUME NEW report \in RunningReports
  PROVE  /\ \A cause \in Terminations : /\ TerminatedReport(report, cause) \in TerminalReports
                                        /\ Whole(TerminatedReport(report, cause))
         /\ [report EXCEPT !.state = "failed"] \in TerminalReports
         /\ Whole([report EXCEPT !.state = "failed"])
<1>1. ASSUME NEW cause \in Terminations
      PROVE  TerminatedReport(report, cause) \in TerminalReports /\ Whole(TerminatedReport(report, cause))
  <2>1. PICK state \in {"failed", "interrupted"} :
          TerminatedReport(report, cause) = [report EXCEPT !.stop = cause, !.state = state]
    BY DEF TerminatedReport
  <2> QED
    BY <2>1 DEF RunningReports, TerminalReports, ReportsIn, Terminations, Stops, Whole
<1>2. /\ [report EXCEPT !.state = "failed"] \in TerminalReports
      /\ Whole([report EXCEPT !.state = "failed"])
  BY DEF RunningReports, TerminalReports, ReportsIn, Whole
<1> QED
  BY <1>1, <1>2

\* The caller of a run that is sealed but not published yet is told the sealed outcome.
LEMMA TerminateRunInv ==
  ASSUME RunInv, NEW r \in Runs, NEW cause \in Causes, TerminateRun(r, cause)
  PROVE  RunInv'
<1> USE DEF RunInv
<1> DEFINE report == worker[r].report
           stopped == [worker[r] EXCEPT !.cause = cause]
<1>1. Active(r) /\ cause \in Terminations /\ UNCHANGED <<sources, mutation, mode>>
  BY RunConstants DEF TerminateRun
<1>2. CASE /\ worker[r].sealed
           /\ SaveSealedRunProgressIfOwned(r, report)
           /\ Settle(r, report, "pending")
           /\ UNCHANGED processVars
  <2>1. LiveOK(r, worker[r])
    BY <1>1 DEF RunOK
  <2>2. report \in TerminalReports /\ report \in Reports /\ Told(r, report) /\ Whole(report)
    BY <1>2, <2>1 DEF LiveOK, Reports
  <2>3. TablesOK' /\ Shrunk /\ \A s \in Runs : Keeps(s)
    BY <1>2, <2>2, SaveSealedKeeps
  <2>4. UNCHANGED <<worker, publisher, pending>>
    BY <1>2 DEF processVars
  <2>5. /\ completion' \in [Runs -> Completion \cup {None}]
        /\ \A s \in Runs \ {r} : completion'[s] = completion[s]
        /\ Settled(r)' /\ completion'[r].report = report
    BY <1>1, <1>2, <2>2, SettledTyped DEF PublisherAnswers, Active
  <2>6. TypeOK'
    BY <1>1, <2>3, <2>4, <2>5 DEF TypeOK, TablesOK
  <2>7. \A s \in Runs \ {r} : RunOK(s)'
    BY <1>1, <2>3, <2>4, <2>5, RunKept
  <2>8. RunOK(r)'
    <3>1. FinalizerOK(r, publisher[<<r, "finalizer">>])'
      BY <2>3, <2>4, FinalizerKept DEF Keeps
    <3>2. ToldNext(r, report)
      BY <2>2, <2>3 DEF Keeps, KeepsOutcomes
    <3>3. CompletionOK(r, completion[r])'
      BY <2>2, <2>5, <3>2 DEF CompletionOK, ToldNext, Told, OwnsNext, Owns, Whole
    <3> QED
      BY <2>5, <3>1, <3>3 DEF RunOK, Active
  <2>9. RowsTrue' /\ PurgedOK'
    BY <1>1, <2>3, RowsStay
  <2> QED
    BY <2>3, <2>6, <2>7, <2>8, <2>9
<1>3. CASE ~worker[r].sealed /\ FinalizeRun(r, stopped, TerminatedReport(report, cause), 0)
  <2>1. Unsealed(r)
    BY <1>1, <1>3 DEF Unsealed
  <2>2. worker[r] \in Worker /\ report \in RunningReports
    BY <2>1, UnsealedFacts
  <2>3. stopped \in Worker /\ \E c \in Terminations : stopped = [worker[r] EXCEPT !.cause = c]
    BY <1>1, <2>2 DEF Worker
  <2>4. TerminatedReport(report, cause) \in TerminalReports /\ Whole(TerminatedReport(report, cause))
    BY <1>1, <2>2, EndedReports
  <2> QED
    BY <1>1, <1>3, <2>1, <2>3, <2>4, FinalizeInv
<1> QED
  BY <1>2, <1>3 DEF TerminateRun

-------------------------------------------------------------------------------
(* The worker *)

LEMMA AtUnsealed ==
  ASSUME RunInv, NEW r \in Runs, NEW pc \in Working, At(r, pc)
  PROVE  Unsealed(r)
<1>1. worker[r] # NoWorker /\ completion[r] = None
  BY DEF At, Working, NoWorker, CanContinue, Settled
<1>2. LiveOK(r, worker[r])
  BY <1>1 DEF RunInv, RunOK, Active, Started, Settled
<1>3. ~worker[r].sealed
  BY <1>2 DEF LiveOK, At, Working
<1> QED
  BY <1>1, <1>3 DEF Unsealed, Active, Started, Settled

LEMMA FailInv ==
  ASSUME RunInv, NEW r \in Runs, Unsealed(r), NEW failures \in Nat, Fail(r, failures),
         UNCHANGED <<sources, mutation, mode>>
  PROVE  RunInv'
<1> DEFINE report == [worker[r].report EXCEPT !.state = "failed"]
<1>1. worker[r] \in Worker /\ worker[r].report \in RunningReports
  BY UnsealedFacts
<1>2. report \in TerminalReports /\ Whole(report)
  BY <1>1, EndedReports
<1> QED
  BY <1>1, <1>2, FinalizeInv DEF Fail

\* What the worker may become while its batch stays active.
GoesOn(w) ==
  /\ w \in Worker /\ w.cause = "none" /\ ~w.sealed /\ w.pc \in Working
  /\ w.report \in RunningReports /\ Counted(w) /\ Captures(w)
  /\ w.pc \in {"dispatch", "sent"} => w.kind \in Kinds

LEMMA WorkerGoesOn ==
  ASSUME RunInv, NEW r \in Runs, Unsealed(r), NEW step, GoesOn(step),
         worker' = [worker EXCEPT ![r] = step],
         TablesOK', \A s \in Runs : Keeps(s), RowsTrue', PurgedOK',
         UNCHANGED <<sources, mutation, mode, publisher, pending, completion>>
  PROVE  RunInv'
<1> USE DEF RunInv
<1>1. /\ worker' \in [Runs -> Worker \cup {NoWorker}] /\ worker'[r] = step
      /\ \A s \in Runs \ {r} : worker'[s] = worker[s]
  BY DEF TypeOK, GoesOn
<1>2. TypeOK'
  BY <1>1 DEF TypeOK, TablesOK
<1>3. \A s \in Runs \ {r} : RunOK(s)'
  BY <1>1, RunKept
<1>4. RunOK(r)'
  <2>1. FinalizerOK(r, publisher[<<r, "finalizer">>])' /\ CompletionOK(r, completion[r])'
    BY FinalizerKept, CompletionKept DEF Keeps
  <2>2. mode = "up" /\ fate'[r] # "new" /\ OwnsNext(r, "active")
    BY UnsealedFacts DEF Keeps, KeepsOutcomes
  <2>3. LiveOK(r, worker[r])'
    BY <1>1, <2>2 DEF LiveOK, GoesOn, OwnsNext, Owns, Counted, Captures
  <2> QED
    BY <2>1, <2>3 DEF RunOK
<1> QED
  BY <1>2, <1>3, <1>4

LEMMA PersistInv ==
  ASSUME RunInv, NEW r \in Runs, Unsealed(r), NEW report, NEW step,
         GoesOn([step EXCEPT !.report = report]), report \in RunningReports,
         Persist(r, report, step), UNCHANGED <<sources, mutation, mode>>
  PROVE  RunInv'
<1>1. CASE Fail(r, 1)
  BY <1>1, FailInv
<1>2. CASE /\ SaveRunProgress(r, report)
           /\ worker' = [worker EXCEPT ![r] = [step EXCEPT !.report = report]]
           /\ UNCHANGED <<publisher, pending, completion>>
  <2>1. Owns(r, "active") /\ report \in Reports
    BY UnsealedFacts DEF Reports
  <2>2. TablesOK' /\ Shrunk /\ \A s \in Runs : Keeps(s)
    BY <1>2, <2>1, SaveKeeps DEF RunInv
  <2>3. RowsTrue' /\ PurgedOK'
    BY <2>2, RowsStay DEF RunInv
  <2> QED
    BY <1>2, <2>2, <2>3, WorkerGoesOn
<1> QED
  BY <1>1, <1>2 DEF Persist

\* A step keeps the capture, and sees to it that every pair stays counted.
LEMMA Continues ==
  ASSUME RunInv, NEW r \in Runs, Unsealed(r), NEW step \in Worker,
         step.capture = worker[r].capture, step.cause = "none", step.sealed = FALSE,
         step.pc \in Working, step.report \in RunningReports, Counted(step),
         step.pc \in {"dispatch", "sent"} => step.kind \in Kinds
  PROVE  GoesOn(step)
BY UnsealedFacts DEF GoesOn, Captures

LEMMA CountingTyped ==
  ASSUME NEW report \in RunningReports, NEW failed \in {0, 1}
  PROVE  /\ Counting(report, failed) \in RunningReports
         /\ Counting(report, failed).done = report.done + 1 /\ report.done \in Nat
<1>1. PICK done \in Nat, lost \in Nat : done = report.done + 1 /\ lost = report.failed + failed
  BY DEF RunningReports, ReportsIn
<1>2. Counting(report, failed) = [report EXCEPT !.done = done, !.failed = lost]
  BY <1>1 DEF Counting
<1> QED
  BY <1>1, <1>2 DEF RunningReports, ReportsIn

LEMMA TodoCounted ==
  ASSUME NEW todo \in SUBSET Pairs
  PROVE  /\ Cardinality(todo) \in Nat
         /\ \A p \in todo : Cardinality(todo \ {p}) = Cardinality(todo) - 1
         /\ todo = {} => Cardinality(todo) = 0
<1>1. IsFiniteSet(todo)
  BY RunConstants, FS_Subset
<1> QED
  BY <1>1, FS_CardinalityType, FS_RemoveElement, FS_EmptySet

\* Only the program counter moves, between two points with as many pairs in hand.
LEMMA OnlyMoves ==
  ASSUME RunInv, NEW r \in Runs, Unsealed(r), NEW pc \in Working,
         worker[r].pc \in {"dispatch", "sent"} <=> pc \in {"dispatch", "sent"}
  PROVE  /\ GoesOn([worker[r] EXCEPT !.pc = pc])
         /\ [[worker[r] EXCEPT !.pc = pc] EXCEPT !.report = worker[r].report] = [worker[r] EXCEPT !.pc = pc]
<1> DEFINE step == [worker[r] EXCEPT !.pc = pc]
<1>1. worker[r] \in Worker
  BY UnsealedFacts
<1>2. /\ step \in Worker /\ step.capture = worker[r].capture /\ step.cause = worker[r].cause
      /\ step.sealed = worker[r].sealed /\ step.pc = pc /\ step.report = worker[r].report
      /\ step.todo = worker[r].todo /\ step.kind = worker[r].kind
  BY <1>1 DEF Worker
<1>3. Counted(step)
  BY <1>2, UnsealedFacts DEF Counted
<1>4. GoesOn(step)
  BY <1>2, <1>3, UnsealedFacts, Continues
<1>5. [step EXCEPT !.report = worker[r].report] = step
  BY <1>1 DEF Worker
<1> QED
  BY <1>4, <1>5

LEMMA MovesInv ==
  ASSUME RunInv, NEW r \in Runs, Unsealed(r), NEW pc \in Working,
         worker[r].pc \in {"dispatch", "sent"} <=> pc \in {"dispatch", "sent"},
         worker' = [worker EXCEPT ![r].pc = pc], UNCHANGED tables,
         UNCHANGED <<sources, mutation, mode, publisher, pending, completion>>
  PROVE  RunInv'
<1>1. TablesOK' /\ Shrunk /\ \A s \in Runs : Keeps(s)
  BY SameTables DEF RunInv
<1>2. RowsTrue' /\ PurgedOK'
  BY <1>1, RowsStay DEF RunInv
<1> QED
  BY <1>1, <1>2, OnlyMoves, WorkerGoesOn

LEMMA BeginInv ==
  ASSUME RunInv, NEW r \in Runs, Begin(r)
  PROVE  RunInv'
<1>1. At(r, "begin") /\ UNCHANGED <<sources, mutation, mode>>
  BY DEF Begin
<1>2. Unsealed(r)
  BY <1>1, AtUnsealed DEF Working
<1>3. CASE Fail(r, 0)
  BY <1>1, <1>2, <1>3, FailInv
<1>4. CASE Persist(r, worker[r].report, [worker[r] EXCEPT !.pc = "next"])
  <2>1. GoesOn([[worker[r] EXCEPT !.pc = "next"] EXCEPT !.report = worker[r].report])
    BY <1>1, <1>2, OnlyMoves DEF At, Working
  <2>2. worker[r].report \in RunningReports
    BY <1>2, UnsealedFacts
  <2> QED
    BY <1>1, <1>2, <1>4, <2>1, <2>2, PersistInv
<1> QED
  BY <1>3, <1>4 DEF Begin

LEMMA NextPairInv ==
  ASSUME RunInv, NEW r \in Runs, NextPair(r)
  PROVE  RunInv'
<1>1. At(r, "next") /\ worker[r].pc = "next" /\ UNCHANGED <<sources, mutation, mode>>
  BY DEF NextPair, At
<1>2. Unsealed(r)
  BY <1>1, AtUnsealed DEF Working
<1>3. CASE Fail(r, 0)
  BY <1>1, <1>2, <1>3, FailInv
<1>4. CASE /\ worker' = [worker EXCEPT ![r].pc = "prepare"]
           /\ UNCHANGED <<tables, publisher, pending, completion>>
  BY <1>1, <1>2, <1>4, MovesInv DEF Working
<1> QED
  BY <1>3, <1>4 DEF NextPair

\* The pair in hand failed: it counts as done.
LEMMA PairFailsInv ==
  ASSUME RunInv, NEW r \in Runs, Unsealed(r), worker[r].pc \in {"dispatch", "sent"},
         NEW stop \in {"none", "limit"}, PairFails(r, stop), UNCHANGED <<sources, mutation, mode>>
  PROVE  RunInv'
<1> DEFINE report == Counting(worker[r].report, 1)
           step == [[worker[r] EXCEPT !.pc = "next", !.stop = stop] EXCEPT !.report = report]
<1>1. /\ worker[r] \in Worker /\ worker[r].report \in RunningReports /\ Counted(worker[r])
      /\ worker[r].cause = "none" /\ worker[r].sealed = FALSE
  BY UnsealedFacts
<1>2. report \in RunningReports /\ report.done = worker[r].report.done + 1 /\ worker[r].report.done \in Nat
  BY <1>1, CountingTyped
<1>3. /\ step \in Worker /\ step.capture = worker[r].capture /\ step.cause = "none"
      /\ step.sealed = FALSE /\ step.pc = "next" /\ step.report = report /\ step.todo = worker[r].todo
  <2>1. report \in Reports
    BY <1>2 DEF Reports
  <2> HIDE DEF report
  <2> QED
    BY <1>1, <2>1 DEF Worker, Stops, Working
<1>4. Cardinality(worker[r].todo) \in Nat
  BY <1>1, TodoCounted DEF Worker
<1>5. Counted(step)
  BY <1>1, <1>2, <1>3, <1>4 DEF Counted
<1>6. GoesOn(step)
  BY <1>2, <1>3, <1>5, Continues DEF Working
<1> QED
  BY <1>2, <1>6, PersistInv DEF PairFails

LEMMA PrepareInv ==
  ASSUME RunInv, NEW r \in Runs, NEW p \in Pairs, Prepare(r, p)
  PROVE  RunInv'
<1> DEFINE w == [worker[r] EXCEPT !.todo = @ \ {p}]
           kind == KindOf(Sendable(r, p))
<1>1. At(r, "prepare") /\ worker[r].pc = "prepare" /\ p \in worker[r].todo
      /\ UNCHANGED <<sources, mutation, mode>>
  BY DEF Prepare, At
<1>2. Unsealed(r)
  BY <1>1, AtUnsealed DEF Working
<1>3. /\ worker[r] \in Worker /\ worker[r].report \in RunningReports /\ Counted(worker[r])
      /\ worker[r].cause = "none" /\ worker[r].sealed = FALSE
  BY <1>2, UnsealedFacts
<1>4. PICK rest \in SUBSET Pairs : rest = worker[r].todo \ {p}
  BY <1>3 DEF Worker
<1>5. /\ w \in Worker /\ w.capture = worker[r].capture /\ w.cause = "none" /\ w.sealed = FALSE
      /\ w.report = worker[r].report /\ w.todo = rest /\ w.pc = "prepare"
  <2>1. w = [worker[r] EXCEPT !.todo = rest]
    BY <1>4
  <2> QED
    BY <1>1, <1>3, <2>1 DEF Worker
<1>6. /\ worker[r].report.done + Cardinality(rest) + 1 = Cardinality(Pairs)
      /\ Cardinality(rest) \in Nat /\ worker[r].report.done \in Nat
  <2>1. worker[r].todo \in SUBSET Pairs
    BY <1>3 DEF Worker
  <2>2. Cardinality(rest) = Cardinality(worker[r].todo) - 1
        /\ Cardinality(worker[r].todo) \in Nat /\ Cardinality(rest) \in Nat
    BY <1>1, <1>4, <2>1, TodoCounted
  <2>3. worker[r].report.done \in Nat
    BY <1>3 DEF RunningReports, ReportsIn
  <2> QED
    BY <1>1, <1>3, <2>2, <2>3 DEF Counted
<1> HIDE DEF w, kind
<1>7. ASSUME NEW failed \in {0, 1}, Persist(r, Counting(w.report, failed), [w EXCEPT !.pc = "next"])
      PROVE  RunInv'
  <2> DEFINE report == Counting(w.report, failed)
             step == [[w EXCEPT !.pc = "next"] EXCEPT !.report = report]
  <2>1. report \in RunningReports /\ report.done = worker[r].report.done + 1
    BY <1>3, <1>5, CountingTyped
  <2>2. report \in Reports
    BY <2>1 DEF Reports
  <2> HIDE DEF report
  <2>3. /\ step \in Worker /\ step.capture = worker[r].capture /\ step.cause = "none"
        /\ step.sealed = FALSE /\ step.pc = "next" /\ step.report = report /\ step.todo = rest
    BY <1>5, <2>2 DEF Worker, Working
  <2>4. Counted(step)
    BY <1>6, <2>1, <2>3 DEF Counted
  <2>5. GoesOn(step)
    BY <1>2, <2>1, <2>3, <2>4, Continues DEF Working
  <2> QED
    BY <1>1, <1>2, <1>7, <2>1, <2>5, PersistInv DEF report
<1>8. ASSUME Persist(r, w.report, [w EXCEPT !.pc = "dispatch", !.pair = p, !.kind = kind])
      PROVE  RunInv'
  <2> DEFINE step == [[w EXCEPT !.pc = "dispatch", !.pair = p, !.kind = kind] EXCEPT !.report = w.report]
  <2>1. kind \in Kinds
    BY DEF kind, KindOf, Kinds, NoteKinds
  <2>2. w.report \in Reports
    BY <1>3, <1>5 DEF Reports
  <2>3. /\ step \in Worker /\ step.capture = worker[r].capture /\ step.cause = "none"
        /\ step.sealed = FALSE /\ step.pc = "dispatch" /\ step.report = w.report /\ step.todo = rest
        /\ step.kind = kind
    BY <1>5, <2>1, <2>2 DEF Worker, Working
  <2>4. Counted(step)
    BY <1>5, <1>6, <2>3 DEF Counted
  <2>5. GoesOn(step)
    BY <1>2, <1>3, <1>5, <2>1, <2>3, <2>4, Continues DEF Working
  <2> QED
    BY <1>1, <1>2, <1>3, <1>5, <1>8, <2>5, PersistInv
<1> QED
  BY <1>7, <1>8 DEF Prepare, w, kind

LEMMA DispatchInv ==
  ASSUME RunInv, NEW r \in Runs, Dispatch(r)
  PROVE  RunInv'
<1>1. At(r, "dispatch") /\ worker[r].pc = "dispatch" /\ UNCHANGED <<sources, mutation, mode>>
  BY DEF Dispatch, At
<1>2. Unsealed(r)
  BY <1>1, AtUnsealed DEF Working
<1>3. CASE /\ worker' = [worker EXCEPT ![r].pc = "sent"]
           /\ UNCHANGED <<tables, publisher, pending, completion>>
  BY <1>1, <1>2, <1>3, MovesInv DEF Working
<1>4. CASE PairFails(r, "none")
  BY <1>1, <1>2, <1>4, PairFailsInv
<1> QED
  BY <1>3, <1>4 DEF Dispatch

LEMMA AttemptFailsInv ==
  ASSUME RunInv, NEW r \in Runs, AttemptFails(r)
  PROVE  RunInv'
<1>1. /\ At(r, "sent") /\ worker[r].pc = "sent" /\ worker' = [worker EXCEPT ![r].pc = "dispatch"]
      /\ UNCHANGED <<tables, sources, mutation, mode, publisher, pending, completion>>
  BY DEF AttemptFails, At
<1>2. Unsealed(r)
  BY <1>1, AtUnsealed DEF Working
<1> QED
  BY <1>1, <1>2, MovesInv DEF Working

LEMMA EvaluationFailsInv ==
  ASSUME RunInv, NEW r \in Runs, EvaluationFails(r)
  PROVE  RunInv'
<1>1. At(r, "sent") /\ worker[r].pc = "sent" /\ UNCHANGED <<sources, mutation, mode>>
  BY DEF EvaluationFails, At
<1>2. Unsealed(r)
  BY <1>1, AtUnsealed DEF Working
<1>3. PICK stop \in {"none", "limit"} : PairFails(r, stop)
  BY DEF EvaluationFails
<1> QED
  BY <1>1, <1>2, <1>3, PairFailsInv

LEMMA WorkerStopsInv ==
  ASSUME RunInv, NEW r \in Runs, WorkerStops(r)
  PROVE  RunInv'
<1> USE DEF RunInv
<1>1. /\ worker[r].pc \in Working /\ ~CanContinue(r) /\ worker' = [worker EXCEPT ![r] = NoWorker]
      /\ UNCHANGED tables /\ UNCHANGED <<sources, mutation, mode, publisher, pending, completion>>
  BY DEF WorkerStops, Working
<1>2. TablesOK' /\ Shrunk /\ \A s \in Runs : Keeps(s)
  BY <1>1, SameTables
<1>3. /\ worker' \in [Runs -> Worker \cup {NoWorker}] /\ worker'[r] = NoWorker
      /\ \A s \in Runs \ {r} : worker'[s] = worker[s]
  BY <1>1 DEF TypeOK
<1>4. TypeOK'
  BY <1>1, <1>2, <1>3 DEF TypeOK, TablesOK
<1>5. \A s \in Runs \ {r} : RunOK(s)'
  BY <1>1, <1>2, <1>3, RunKept
<1>6. RunOK(r)'
  <2>1. FinalizerOK(r, publisher[<<r, "finalizer">>])' /\ CompletionOK(r, completion[r])'
    BY <1>1, <1>2, FinalizerKept, CompletionKept DEF Keeps
  <2> QED
    BY <1>3, <2>1 DEF RunOK, Active, Started
<1>7. RowsTrue' /\ PurgedOK'
  BY <1>1, <1>2, RowsStay
<1> QED
  BY <1>2, <1>4, <1>5, <1>6, <1>7

LEMMA EvidenceTyped ==
  ASSUME NEW kind, NEW p, NEW src \in Sources
  PROVE  EvidenceOf(kind, p, src) \in Evidence
<1>1. /\ src.desc \in [Games -> Nat] /\ src.note \in [Games -> Nat] /\ src.epoch \in Nat
  BY DEF Sources
<1>2. [x \in Games |-> IF x \in p /\ kind # "D_ONLY" THEN src.desc[x] ELSE -1] \in [Games -> Int]
  BY <1>1
<1>3. [x \in Games |-> IF x \in p /\ kind # "C_ONLY" THEN src.note[x] ELSE -1] \in [Games -> Int]
  BY <1>1
<1>4. (IF kind # "C_ONLY" THEN src.epoch ELSE -1) \in Int
  BY <1>1
<1> QED
  BY <1>2, <1>3, <1>4 DEF EvidenceOf, Evidence

\* The rows of an answer, judged from what the sources still are.
LEMMA JudgedRowsTrue ==
  ASSUME TypeOK, NEW w \in Worker, w.capture = sources, w.kind \in Kinds
  PROVE  /\ JudgedRows(w) \in Rows
         /\ \A k \in Key : JudgedRows(w)[k] # NoRow => RowTrue(k, JudgedRows(w)[k])
<1> DEFINE row == [kind |-> w.kind, evidence |-> EvidenceOf(w.kind, w.pair, w.capture)]
<1>1. row \in Content
  BY EvidenceTyped DEF Content, Worker
<1>2. \A k \in Key : JudgedRows(w)[k] = IF k[1] = w.pair /\ k[2] \in SignalsOf(w.kind) THEN row ELSE NoRow
  BY DEF JudgedRows
<1>3. JudgedRows(w) \in Rows
  BY <1>1 DEF JudgedRows, Rows
<1>4. ASSUME NEW k \in Key, k[1] = w.pair PROVE RowTrue(k, row)
  <2>1. row.evidence = EvidenceOf(row.kind, k[1], sources)
    BY <1>4
  <2>2. row.kind = "C_ONLY" => row.evidence.epoch = -1
    BY <2>1 DEF EvidenceOf
  <2> HIDE DEF row
  <2> QED
    BY <2>1, <2>2 DEF RowTrue, StillTrue
<1> QED
  BY <1>2, <1>3, <1>4

LEMMA CheckpointInv ==
  ASSUME RunInv, NEW r \in Runs, Checkpoint(r)
  PROVE  RunInv'
<1> USE DEF RunInv
<1> DEFINE w == worker[r]
           report == Counting(w.report, 0)
           rows == JudgedRows(w)
<1>1. At(r, "sent") /\ w.pc = "sent" /\ LockFree /\ UNCHANGED <<sources, mutation, mode>>
  BY DEF Checkpoint, At
<1>2. Unsealed(r)
  BY <1>1, AtUnsealed DEF Working
<1>3. /\ w \in Worker /\ w.report \in RunningReports /\ Counted(w) /\ Captures(w)
      /\ w.cause = "none" /\ w.sealed = FALSE /\ w.kind \in Kinds
  BY <1>1, <1>2, UnsealedFacts
<1>4. CASE Fail(r, 1)
  BY <1>1, <1>2, <1>4, FailInv
<1>5. CASE PairFails(r, "none")
  BY <1>1, <1>2, <1>5, PairFailsInv
<1>6. CASE /\ PairAuthorized(r, sources)
           /\ CheckpointStagedPair(r, rows, report)
           /\ \E stop \in {"none", "limit"} :
                worker' = [worker EXCEPT ![r].pc = "next", ![r].report = report, ![r].stop = stop]
           /\ UNCHANGED <<publisher, pending, completion>>
  <2>1. w.capture = sources
    BY <1>3, <1>6 DEF PairAuthorized, SameAuthority, Captures
  <2>2. rows \in Rows /\ \A k \in Key : rows[k] # NoRow => RowTrue(k, rows[k])
    BY <1>3, <2>1, JudgedRowsTrue
  <2>3. /\ TablesOK' /\ \A s \in Runs : Keeps(s)
        /\ report \in RunningReports /\ judgments' = judgments
        /\ \A k \in Key : staged'[k] = IF rows[k] # NoRow THEN rows[k] ELSE staged[k]
    <3> HIDE DEF rows, report
    <3> QED
      BY <1>6, <2>2, CheckpointKeeps
  <2>4. PICK stop \in {"none", "limit"} :
          worker' = [worker EXCEPT ![r].pc = "next", ![r].report = report, ![r].stop = stop]
    BY <1>6
  <2>5. report.done = w.report.done + 1 /\ w.report.done \in Nat
    BY <1>3, CountingTyped
  <2> DEFINE step == [w EXCEPT !.pc = "next", !.report = report, !.stop = stop]
  <2>6. worker' = [worker EXCEPT ![r] = step]
    BY <1>3, <2>4 DEF TypeOK
  <2>7. /\ step \in Worker /\ step.capture = w.capture /\ step.cause = "none"
        /\ step.sealed = FALSE /\ step.pc = "next" /\ step.report = report /\ step.todo = w.todo
    <3>1. report \in Reports
      BY <2>3 DEF Reports
    <3> HIDE DEF report
    <3> QED
      BY <1>3, <3>1 DEF Worker, Stops, Working
  <2>8. Counted(step)
    <3>1. Cardinality(w.todo) \in Nat
      BY <1>3, TodoCounted DEF Worker
    <3> HIDE DEF step
    <3> QED
      BY <1>1, <1>3, <2>5, <2>7, <3>1 DEF Counted
  <2>9. GoesOn(step)
    BY <1>2, <2>3, <2>7, <2>8, Continues DEF Working
  <2>10. RowsTrue'
    <3> SUFFICES ASSUME NEW k \in Key, NEW row \in RowsAt(k)' PROVE RowTrue(k, row)'
      BY DEF RowsTrue
    <3>1. row \in RowsAt(k) \/ (row = rows[k] /\ rows[k] # NoRow)
      BY <2>3 DEF RowsAt
    <3>2. RowTrue(k, row)
      BY <2>2, <3>1 DEF RowsTrue
    <3> QED
      BY <1>1, <3>2 DEF RowTrue, StillTrue
  <2>11. PurgedOK'
    BY <1>1 DEF PurgedOK, LockFree
  <2> QED
    BY <1>1, <1>2, <1>6, <2>3, <2>6, <2>9, <2>10, <2>11, WorkerGoesOn
<1> QED
  BY <1>4, <1>5, <1>6 DEF Checkpoint

\* A run completes when no pair is left and none failed: then every pair is done.
LEMMA FinishInv ==
  ASSUME RunInv, NEW r \in Runs, Finish(r)
  PROVE  RunInv'
<1> DEFINE w == worker[r]
           report == [w.report EXCEPT !.state = OutcomeOf(w), !.stop = w.stop]
<1>1. At(r, "next") /\ w.pc = "next" /\ UNCHANGED <<sources, mutation, mode>>
      /\ (w.todo = {} \/ w.stop # "none") /\ FinalizeRun(r, w, report, 0)
  BY DEF Finish, At
<1>2. Unsealed(r)
  BY <1>1, AtUnsealed DEF Working
<1>3. w \in Worker /\ w.report \in RunningReports /\ Counted(w)
  BY <1>2, UnsealedFacts
<1>4. /\ report \in TerminalReports /\ report.done = w.report.done /\ report.failed = w.report.failed
      /\ report.state = OutcomeOf(w) /\ w.report.failed \in Nat /\ w.report.done \in Nat
  <2>1. OutcomeOf(w) \in {"failed", "completed"} /\ w.stop \in Stops
    BY <1>3 DEF OutcomeOf, Worker
  <2> QED
    BY <1>3, <2>1 DEF RunningReports, TerminalReports, ReportsIn
<1>5. Whole(report)
  <2> SUFFICES ASSUME OutcomeOf(w) = "completed"
               PROVE  w.report.done = Cardinality(Pairs) /\ w.report.failed = 0
    BY <1>4 DEF Whole
  <2>1. w.todo = {} /\ w.report.failed = 0
    BY <1>1, <1>4 DEF OutcomeOf
  <2>2. Cardinality(w.todo) = 0
    BY <2>1, FS_EmptySet
  <2> QED
    BY <1>1, <1>3, <1>4, <2>1, <2>2 DEF Counted
<1> QED
  BY <1>1, <1>2, <1>3, <1>4, <1>5, FinalizeInv

LEMMA ReserveInv ==
  ASSUME RunInv, NEW r \in Runs, NEW notes \in Consents, Reserve(r, notes)
  PROVE  RunInv'
<1> USE DEF RunInv
<1> DEFINE first == [NoReport EXCEPT !.pairCount = Cardinality(Pairs)]
           fresh == [pc |-> "begin", capture |-> sources, notes |-> notes, todo |-> Pairs,
                     pair |-> {}, kind |-> "none", stop |-> "none", cause |-> "none",
                     sealed |-> FALSE, report |-> first]
<1>1. /\ mode = "up" /\ LockFree /\ fate[r] = "new" /\ ReserveRunBatch(r, NoReport)
      /\ \A s \in Runs : ~Active(s)
      /\ UNCHANGED <<sources, mutation, mode, publisher, pending, completion>>
      /\ worker' = worker \/ worker' = [worker EXCEPT ![r] = fresh]
  BY DEF Reserve
<1>2. /\ TablesOK' /\ Shrunk /\ OwnsNext(r, "active") /\ fate'[r] = "open"
      /\ \A s \in Runs : KeepsOutcomes(s)
  BY <1>1, ReserveKeeps
<1>3. Cardinality(Pairs) \in Nat
  BY TodoCounted
<1>4. first \in RunningReports /\ first.done = 0 /\ first \in Reports
  BY <1>3 DEF NoReport, RunningReports, ReportsIn, Stops, Reports
<1>5. /\ fresh \in Worker /\ fresh.cause = "none" /\ fresh.sealed = FALSE /\ fresh.pc = "begin"
      /\ fresh.report = first /\ fresh.todo = Pairs /\ fresh.capture = sources
  <2>1. notes \in BOOLEAN /\ sources \in Sources
    BY RunConstants DEF TypeOK
  <2> HIDE DEF first
  <2> QED
    BY <1>4, <2>1 DEF Worker, Working, Stops
<1> HIDE DEF fresh
<1>6. worker' \in [Runs -> Worker \cup {NoWorker}] /\ \A s \in Runs \ {r} : worker'[s] = worker[s]
  BY <1>1, <1>5 DEF TypeOK
<1>7. TypeOK'
  BY <1>1, <1>2, <1>6 DEF TypeOK, TablesOK
<1>8. \A s \in Runs : FinalizerOK(s, publisher[<<s, "finalizer">>])' /\ CompletionOK(s, completion[s])'
  BY <1>1, <1>2, FinalizerKept, CompletionKept
<1>9. \A s \in Runs \ {r} : RunOK(s)'
  BY <1>1, <1>6, <1>8 DEF RunOK, Active, Started, Settled
<1>10. RunOK(r)'
  <2>1. CASE worker' = worker
    BY <1>1, <1>8, <2>1 DEF RunOK, Active, Started, Settled
  <2>2. CASE worker' = [worker EXCEPT ![r] = fresh]
    <3>1. worker'[r] = fresh
      BY <2>2 DEF TypeOK
    <3>2. Counted(worker[r])'
      <4>1. Counted(fresh)
        BY <1>3, <1>4, <1>5 DEF Counted
      <4> QED
        BY <3>1, <4>1 DEF Counted
    <3>3. Captures(worker[r])'
      BY <1>1, <1>5, <3>1 DEF Captures, TypeOK, Sources
    <3>4. LiveOK(r, worker[r])'
      BY <1>1, <1>2, <1>4, <1>5, <3>1, <3>2, <3>3 DEF LiveOK, OwnsNext, Owns, Working
    <3> QED
      BY <1>8, <3>4 DEF RunOK
  <2> QED
    BY <1>1, <2>1, <2>2
<1>11. RowsTrue' /\ PurgedOK'
  BY <1>1, <1>2, RowsStay
<1> QED
  BY <1>2, <1>7, <1>9, <1>10, <1>11

LEMMA WorkerStepInv ==
  ASSUME RunInv, NEW r \in Runs, WorkerStep(r)
  PROVE  RunInv'
BY BeginInv, NextPairInv, PrepareInv, DispatchInv, AttemptFailsInv, EvaluationFailsInv, CheckpointInv,
   FinishInv, WorkerStopsInv DEF WorkerStep

-------------------------------------------------------------------------------
(* Retries, crashes and the startup: nothing here starts, stops or answers a run *)

LEMMA QuietInv ==
  ASSUME RunInv, TypeOK', TablesOK', RowsTrue', PurgedOK',
         \A r \in Runs : /\ KeepsOutcomes(r) /\ (Active(r) => Keeps(r))
                         /\ worker'[r] \in {worker[r], NoWorker}
                         /\ publisher'[<<r, "finalizer">>] \in {publisher[<<r, "finalizer">>], IdlePublisher},
         UNCHANGED <<sources, completion>>,
         mode' = mode \/ mode # "up" \/ \A r \in Runs : worker'[r] = NoWorker
  PROVE  RunInv'
<1> USE DEF RunInv
<1>1. ASSUME NEW r \in Runs PROVE RunOK(r)'
  <2>1. CompletionOK(r, completion[r])'
    BY CompletionKept
  <2>2. FinalizerOK(r, publisher[<<r, "finalizer">>])'
    <3>1. CASE publisher'[<<r, "finalizer">>] = IdlePublisher
      BY <3>1 DEF FinalizerOK, IdlePublisher
    <3>2. CASE publisher'[<<r, "finalizer">>] = publisher[<<r, "finalizer">>]
      BY <3>2, FinalizerKept
    <3> QED
      BY <3>1, <3>2
  <2>3. Active(r)' => LiveOK(r, worker[r])'
    <3> SUFFICES ASSUME Active(r)' PROVE LiveOK(r, worker[r])'
      OBVIOUS
    <3>1. worker'[r] = worker[r] /\ Active(r) /\ worker'[r] # NoWorker
      BY DEF Active, Started, Settled
    <3>2. mode = "up"
      BY <3>1 DEF RunOK, LiveOK
    <3> QED
      BY <3>1, <3>2, LiveKept
  <2> QED
    BY <2>1, <2>2, <2>3 DEF RunOK
<1> QED
  BY <1>1

\* A publisher that is not a finalizer is set to work, or one has ended.
LEMMA RetryMovesInv ==
  ASSUME RunInv, NEW w \in Publishers, NEW state \in Publisher \cup {IdlePublisher}, Moved(w, state),
         w[2] = "retry" \/ state = IdlePublisher,
         pending' \in [Runs -> Pending \cup {None}],
         TablesOK', Shrunk, \A r \in Runs : KeepsOutcomes(r) /\ (Active(r) => Keeps(r)),
         UNCHANGED <<sources, mutation, worker, completion>>,
         mode' \in {"up", "starting", "purged", "recovering"}, mode' = mode \/ mode # "up"
  PROVE  RunInv'
<1> USE DEF RunInv
<1>1. publisher' \in [Publishers -> Publisher \cup {IdlePublisher}]
  BY DEF TypeOK, Moved
<1>2. \A r \in Runs :
        publisher'[<<r, "finalizer">>] \in {publisher[<<r, "finalizer">>], IdlePublisher}
  BY DEF TypeOK, Moved, Publishers
<1>3. TypeOK'
  BY <1>1 DEF TypeOK, TablesOK
<1>4. RowsTrue' /\ PurgedOK'
  BY RowsStay
<1> QED
  BY <1>2, <1>3, <1>4, QuietInv

LEMMA ResumeInv ==
  ASSUME RunInv, NEW r \in Runs, ~Active(r), NEW report \in Reports, NEW prepared \in Sources \cup {None},
         Resume(<<r, "retry">>, report, prepared), UNCHANGED <<sources, mutation, worker, completion>>,
         mode' \in {"up", "starting", "purged", "recovering"}, mode' = mode \/ mode # "up"
  PROVE  RunInv'
<1> USE DEF RunInv
<1> DEFINE w == <<r, "retry">>
           fresh == PublisherAt(report, prepared)
           waiting == [report |-> report, prepared |-> prepared]
<1>1. w \in Publishers /\ w[1] = r /\ w[2] = "retry"
  BY DEF Publishers
<1>2. fresh \in Publisher /\ Ended(fresh, "pending") \in Publisher
  BY PublisherAtTyped DEF PublisherAnswers
<1>3. /\ pending \in [Runs -> Pending \cup {None}]
      /\ [pending EXCEPT ![r] = waiting] \in [Runs -> Pending \cup {None}]
  BY DEF TypeOK, Pending
<1> HIDE DEF fresh, waiting
<1>4. CASE UNCHANGED tables /\ \E state \in {fresh, Ended(fresh, "pending")} : Moved(w, state)
           /\ pending' \in {pending, [pending EXCEPT ![r] = waiting]}
  <2>1. TablesOK' /\ Shrunk /\ \A s \in Runs : Keeps(s)
    BY <1>4, SameTables
  <2> QED
    BY <1>1, <1>2, <1>3, <1>4, <2>1, RetryMovesInv DEF Keeps
<1>5. CASE Owns(r, "active") /\ SealRunBatch(r, report) /\ Moved(w, fresh) /\ UNCHANGED pending
  <2>1. /\ TablesOK' /\ Shrunk /\ KeepsOutcomes(r) /\ \A s \in Runs \ {r} : Keeps(s)
    BY <1>5, SealKeeps
  <2>2. \A s \in Runs : KeepsOutcomes(s) /\ (Active(s) => Keeps(s))
    BY <2>1 DEF Keeps
  <2> QED
    BY <1>1, <1>2, <1>3, <1>5, <2>1, <2>2, RetryMovesInv
<1> QED
  BY <1>1, <1>4, <1>5 DEF Resume, fresh, waiting

LEMMA RecoveredTyped ==
  ASSUME TypeOK, batch # NoBatch
  PROVE  RecoveredReport \in Reports /\ batch.run \in Runs
<1>1. batch \in Batches
  BY DEF TypeOK, CacheTypeOK, Batches
<1>2. [batch.report EXCEPT !.state = "interrupted"] \in Reports
  BY <1>1 DEF Batches, Reports, RunningReports, TerminalReports, ReportsIn
<1> QED
  BY <1>1, <1>2 DEF RecoveredReport, Batches

LEMMA RetryPublicationInv ==
  ASSUME RunInv, NEW r \in Runs, RetryPublication(r)
  PROVE  RunInv'
<1> USE DEF RunInv
<1> DEFINE w == <<r, "retry">>
<1>1. /\ ~Active(r) /\ UNCHANGED <<sources, mutation, worker, completion>> /\ mode' = mode
      /\ mode' \in {"up", "starting", "purged", "recovering"}
  BY DEF RetryPublication, MayRetry, TypeOK
<1>2. w \in Publishers /\ w[2] = "retry" /\ pending[r] \in Pending \cup {None}
  BY DEF Publishers, TypeOK
<1>3. CASE /\ pending' = [pending EXCEPT ![r] = None] /\ UNCHANGED tables
           /\ Moved(w, Ended(PublisherAt(NoReport, None), IF ResolvedAs(r) THEN "final" ELSE "absent"))
  <2>1. (IF ResolvedAs(r) THEN "final" ELSE "absent") \in PublisherAnswers
    BY DEF PublisherAnswers
  <2>2. NoReport \in Reports
    BY DEF NoReport, Reports, RunningReports, ReportsIn, Stops
  <2>3. Ended(PublisherAt(NoReport, None), IF ResolvedAs(r) THEN "final" ELSE "absent") \in Publisher
    BY <2>1, <2>2, PublisherAtTyped
  <2>4. pending' \in [Runs -> Pending \cup {None}]
    BY <1>3 DEF TypeOK
  <2>5. TablesOK' /\ Shrunk /\ \A s \in Runs : Keeps(s)
    BY <1>3, SameTables
  <2> QED
    BY <1>1, <1>2, <1>3, <2>3, <2>4, <2>5, RetryMovesInv DEF Keeps
<1>4. CASE pending[r] # None /\ Resume(w, pending[r].report, pending[r].prepared)
  <2>1. pending[r].report \in Reports /\ pending[r].prepared \in Sources \cup {None}
    BY <1>2, <1>4 DEF Pending
  <2> QED
    BY <1>1, <1>4, <2>1, ResumeInv
<1>5. CASE (Owns(r, "active") \/ Owns(r, "sealed")) /\ Resume(w, RecoveredReport, None)
  <2>1. RecoveredReport \in Reports
    BY <1>5, RecoveredTyped DEF Owns
  <2> QED
    BY <1>1, <1>5, <2>1, ResumeInv
<1> QED
  BY <1>3, <1>4, <1>5 DEF RetryPublication

LEMMA RetryEndsInv ==
  ASSUME RunInv, NEW r \in Runs, RetryEnds(r)
  PROVE  RunInv'
<1> USE DEF RunInv
<1>1. /\ Moved(<<r, "retry">>, IdlePublisher)
      /\ UNCHANGED <<tables, sources, mutation, mode, worker, completion>>
      /\ pending' \in {pending, [pending EXCEPT ![r] = None]}
  BY DEF RetryEnds
<1>2. UNCHANGED tables
  BY DEF RetryEnds
<1>3. TablesOK' /\ Shrunk /\ \A s \in Runs : Keeps(s)
  BY <1>2, SameTables
<1>4. <<r, "retry">> \in Publishers /\ pending' \in [Runs -> Pending \cup {None}]
  BY <1>1 DEF Publishers, TypeOK
<1>5. mode' \in {"up", "starting", "purged", "recovering"}
  BY <1>1 DEF TypeOK
<1> QED
  BY <1>1, <1>3, <1>4, <1>5, RetryMovesInv DEF Keeps

\* The finalizer of r returns with the outcome that it was started with.
LEMMA FinalizerEndsInv ==
  ASSUME RunInv, NEW r \in Runs, FinalizerEnds(r)
  PROVE  RunInv'
<1> USE DEF RunInv
<1> DEFINE f == <<r, "finalizer">>
           p == publisher[f]
<1>1. /\ p.at = "done" /\ Settle(r, p.report, p.answer) /\ Moved(f, IdlePublisher)
      /\ worker' = [worker EXCEPT ![r] = IF @.pc = "closing" THEN NoWorker ELSE @]
      /\ UNCHANGED <<sources, mutation, mode>> /\ UNCHANGED tables
  BY DEF FinalizerEnds
<1>2. f \in Publishers
  BY DEF Publishers
<1>3. /\ p \in Publisher /\ p.answer \in PublisherAnswers /\ p.prepared \in Sources \cup {None}
      /\ p.report \in TerminalReports /\ p.report \in Reports
      /\ Told(r, p.report) /\ Whole(p.report)
  BY <1>1, <1>2, AtWork DEF RunOK, FinalizerOK, Publisher
<1>4. TablesOK' /\ Shrunk /\ \A s \in Runs : Keeps(s)
  BY <1>1, SameTables
<1>5. pending' \in [Runs -> Pending \cup {None}]
  <2>1. PICK left \in Pending \cup {None} : pending' = [pending EXCEPT ![r] = left]
    <3>1. [report |-> p.report, prepared |-> p.prepared] \in Pending
      BY <1>3 DEF Pending
    <3> QED
      BY <3>1 DEF FinalizerEnds
  <2> QED
    BY <2>1 DEF TypeOK
<1>6. /\ worker' \in [Runs -> Worker \cup {NoWorker}]
      /\ \A s \in Runs \ {r} : worker'[s] = worker[s]
  BY <1>1 DEF TypeOK
<1>7. /\ publisher' \in [Publishers -> Publisher \cup {IdlePublisher}] /\ publisher'[f] = IdlePublisher
      /\ \A s \in Runs \ {r} : publisher'[<<s, "finalizer">>] = publisher[<<s, "finalizer">>]
  BY <1>1, <1>2 DEF TypeOK, Moved, Publishers
<1>8. /\ completion' \in [Runs -> Completion \cup {None}]
      /\ Settled(r)' /\ \A s \in Runs \ {r} : completion'[s] = completion[s]
      /\ Settled(r) => completion' = completion
      /\ ~Settled(r) => completion'[r].report = p.report
  BY <1>1, <1>3, SettledTyped
<1>9. TypeOK'
  BY <1>1, <1>4, <1>5, <1>6, <1>7, <1>8 DEF TypeOK, TablesOK
<1>10. \A s \in Runs \ {r} : RunOK(s)'
  BY <1>1, <1>4, <1>6, <1>7, <1>8, RunKept
<1>11. RunOK(r)'
  <2>1. CompletionOK(r, completion[r])'
    <3>1. CASE Settled(r)
      BY <1>4, <1>8, <3>1, CompletionKept DEF Keeps
    <3>2. CASE ~Settled(r)
      <4>1. ToldNext(r, p.report)
        BY <1>3, <1>4 DEF Keeps, KeepsOutcomes
      <4> QED
        BY <1>3, <1>8, <3>2, <4>1 DEF CompletionOK, ToldNext, Told, OwnsNext, Owns, Whole
    <3> QED
      BY <3>1, <3>2
  <2>2. FinalizerOK(r, publisher[f])'
    BY <1>7 DEF FinalizerOK, IdlePublisher
  <2> QED
    BY <1>8, <2>1, <2>2 DEF RunOK, Active
<1>12. RowsTrue' /\ PurgedOK'
  BY <1>1, <1>4, RowsStay
<1> QED
  BY <1>4, <1>9, <1>10, <1>11, <1>12

LEMMA CrashInv ==
  ASSUME RunInv, Crash
  PROVE  RunInv'
<1> USE DEF RunInv
<1>1. /\ UNCHANGED tables /\ UNCHANGED <<sources, completion>> /\ mode' = "starting" /\ mutation' = None
      /\ worker' = [r \in Runs |-> NoWorker] /\ publisher' = [w \in Publishers |-> IdlePublisher]
      /\ pending' = [r \in Runs |-> None]
  BY DEF Crash
<1>2. TablesOK' /\ Shrunk /\ \A r \in Runs : Keeps(r)
  BY <1>1, SameTables
<1>3. TypeOK'
  BY <1>1, <1>2 DEF TypeOK, TablesOK
<1>4. RowsTrue' /\ PurgedOK'
  BY <1>1, <1>2, RowsStay
<1>5. \A r \in Runs : worker'[r] = NoWorker /\ publisher'[<<r, "finalizer">>] = IdlePublisher
  BY <1>1 DEF Publishers
<1> QED
  BY <1>1, <1>2, <1>3, <1>4, <1>5, QuietInv DEF Keeps

LEMMA StartupStepInv ==
  ASSUME RunInv, StartupStep
  PROVE  RunInv'
<1> USE DEF RunInv
<1>1. ASSUME StartupPurge PROVE RunInv'
  <2>1. /\ mode # "up" /\ mode' = "purged"
        /\ UNCHANGED <<sources, mutation, worker, publisher, pending, completion>>
        /\ PurgeDDependent \/ UNCHANGED tables
    BY <1>1 DEF StartupPurge, processVars
  <2>2. TablesOK' /\ Shrunk /\ \A r \in Runs : Keeps(r)
    BY <2>1, SameTables, PurgeKeeps DEF PurgeDDependent
  <2>3. TypeOK'
    BY <2>1, <2>2 DEF TypeOK, TablesOK
  <2>4. RowsTrue' /\ PurgedOK'
    BY <2>1, <2>2, RowsStay
  <2> QED
    BY <2>1, <2>2, <2>3, <2>4, QuietInv DEF Keeps
<1>2. ASSUME Reconcile PROVE RunInv'
  <2>1. mode # "up" /\ mode' \in {"up", "recovering"} /\ UNCHANGED <<sources, mutation, worker, completion>>
    BY <1>2 DEF Reconcile
  <2>2. CASE UNCHANGED tables /\ UNCHANGED <<publisher, pending>>
    <3>1. TablesOK' /\ Shrunk /\ \A r \in Runs : Keeps(r)
      BY <2>2, SameTables
    <3>2. TypeOK'
      BY <2>1, <2>2, <3>1 DEF TypeOK, TablesOK
    <3>3. RowsTrue' /\ PurgedOK'
      BY <2>1, <3>1, RowsStay
    <3> QED
      BY <2>1, <2>2, <3>1, <3>2, <3>3, QuietInv DEF Keeps
  <2>3. CASE batch # NoBatch /\ Resume(<<batch.run, "retry">>, RecoveredReport, None)
    <3>1. RecoveredReport \in Reports /\ batch.run \in Runs
      BY <2>3, RecoveredTyped
    <3>2. ~Active(batch.run)
      BY <2>1, <3>1 DEF RunOK, LiveOK
    <3> QED
      BY <2>1, <2>3, <3>1, <3>2, ResumeInv
  <2> QED
    BY <1>2, <2>2, <2>3 DEF Reconcile
<1>3. ASSUME Recovered PROVE RunInv'
  <2>1. PICK w \in Publishers : Moved(w, IdlePublisher)
    BY <1>3 DEF Recovered
  <2>2. mode # "up" /\ mode' = "up" /\ UNCHANGED <<sources, mutation, worker, pending, completion>>
        /\ UNCHANGED tables
    BY <1>3 DEF Recovered
  <2>3. TablesOK' /\ Shrunk /\ \A r \in Runs : Keeps(r)
    BY <2>2, SameTables
  <2>4. pending' \in [Runs -> Pending \cup {None}]
    BY <2>2 DEF TypeOK
  <2> QED
    BY <2>1, <2>2, <2>3, <2>4, RetryMovesInv DEF Keeps
<1> QED
  BY <1>1, <1>2, <1>3 DEF StartupStep

-------------------------------------------------------------------------------
(* The invariant *)

LEMMA InitRunInv == Init => RunInv
<1> SUFFICES ASSUME Init PROVE RunInv
  OBVIOUS
<1>1. /\ judgments = Empty /\ staged = Empty /\ batch = NoBatch /\ progress = NoProgress
      /\ token = 0 /\ lastRun = NoRun /\ fate = [r \in Runs |-> "new"]
  BY DEF Init, CacheInit
<1>2. /\ mutation = None /\ mode = "up" /\ worker = [r \in Runs |-> NoWorker]
      /\ publisher = [w \in Publishers |-> IdlePublisher]
      /\ pending = [r \in Runs |-> None] /\ completion = [r \in Runs |-> None]
  BY DEF Init
<1>3. sources \in Sources
  BY RunConstants DEF Init, Sources
<1>4. CacheTypeOK
  BY <1>1 DEF CacheTypeOK, Empty, Rows
<1>5. TypeOK
  BY <1>2, <1>3, <1>4 DEF TypeOK
<1>6. TablesOK
  BY <1>1, <1>4 DEF TablesOK, StagedBelongsToBatch, BatchMatchesFate, EveryRowValid, ProgressOK, Owns,
     ResolvedAs, Empty
<1>7. \A r \in Runs : RunOK(r)
  BY <1>2 DEF RunOK, Active, Started, FinalizerOK, IdlePublisher, CompletionOK, Publishers
<1>8. RowsTrue /\ PurgedOK
  BY <1>1, <1>2 DEF RowsTrue, RowsAt, PurgedOK, Empty
<1> QED
  BY <1>5, <1>6, <1>7, <1>8 DEF RunInv

LEMMA StutterInv ==
  ASSUME RunInv, UNCHANGED vars
  PROVE  RunInv'
<1> USE DEF RunInv
<1>1. UNCHANGED tables /\ UNCHANGED <<sources, mutation, mode, worker, publisher, pending, completion>>
  BY DEF vars, processVars
<1>2. TablesOK' /\ Shrunk /\ \A r \in Runs : Keeps(r)
  BY <1>1, SameTables
<1>3. TypeOK'
  BY <1>1, <1>2 DEF TypeOK, TablesOK
<1>4. RowsTrue' /\ PurgedOK'
  BY <1>1, <1>2, RowsStay
<1> QED
  BY <1>1, <1>2, <1>3, <1>4, QuietInv DEF Keeps

LEMMA PublisherStepInv ==
  ASSUME RunInv, NEW w \in Publishers, PublisherStep(w)
  PROVE  RunInv'
BY SnapshotInv, LoadCaptureInv, CommitInv DEF PublisherStep

LEMMA NextRunInv == RunInv /\ [Next]_vars => RunInv'
<1> SUFFICES ASSUME RunInv, [Next]_vars PROVE RunInv'
  OBVIOUS
<1>1. ASSUME NEW e \in Mutations, MutationBegins(e) PROVE RunInv'
  BY <1>1, MutationBeginsInv
<1>2. ASSUME NEW r \in Runs, NEW notes \in Consents, Reserve(r, notes) PROVE RunInv'
  BY <1>2, ReserveInv
<1>3. ASSUME NEW r \in Runs, NEW cause \in Causes, TerminateRun(r, cause) PROVE RunInv'
  BY <1>3, TerminateRunInv
<1>4. ASSUME NEW r \in Runs, WorkerStep(r) \/ FinalizerEnds(r) \/ RetryPublication(r) \/ RetryEnds(r)
      PROVE  RunInv'
  BY <1>4, WorkerStepInv, FinalizerEndsInv, RetryPublicationInv, RetryEndsInv
<1>5. ASSUME NEW w \in Publishers, PublisherStep(w) PROVE RunInv'
  BY <1>5, PublisherStepInv
<1>6. ASSUME MutationStep \/ Crash \/ StartupStep \/ UNCHANGED vars PROVE RunInv'
  BY <1>6, MutationStepInv, CrashInv, StartupStepInv, StutterInv
<1> QED
  BY <1>1, <1>2, <1>3, <1>4, <1>5, <1>6 DEF Next

\* In every reachable state the tables, the runs, the rows and the running mutation are as
\* RunInv says: the invariant that the theorems below follow from.
THEOREM RunInvariant == Spec => []RunInv
<1>1. Init => RunInv
  BY InitRunInv
<1>2. RunInv /\ [Next]_vars => RunInv'
  BY NextRunInv
<1> QED
  BY <1>1, <1>2, PTL DEF Spec

\* Every variable of the run service stays in its type.
THEOREM RunTypeCorrect == Spec => []TypeOK
<1>1. RunInv => TypeOK
  BY DEF RunInv
<1> QED
  BY <1>1, RunInvariant, PTL

\* No judgment, published or staged, outlives what it was judged from (validateJevCachedRow,
\* the purges before and after a save, the purge of a startup).
THEOREM JudgmentsStayTrue == Spec => []NoStaleJudgment
<1>1. RunInv => NoStaleJudgment
  BY DEF RunInv, RowsTrue, RowTrue, RowsAt, NoStaleJudgment
<1> QED
  BY <1>1, RunInvariant, PTL

\* The durable progress is the unresolved run's, and a sealed outcome is shown as pending: no
\* late write of a stopped worker replaces it.
THEOREM ProgressIsTheBatchs == Spec => []ProgressShowsBatch
<1>1. RunInv => ProgressShowsBatch
  <2> SUFFICES ASSUME RunInv, batch # NoBatch
               PROVE  /\ progress.run = batch.run
                      /\ batch.state = "sealed" => progress = ProgressOf(batch.run, batch.report, "pending")
    BY DEF ProgressShowsBatch
  <2>1. /\ progress # NoProgress /\ progress.run = batch.run
        /\ progress.pub = IF batch.state = "sealed" THEN "pending" ELSE "none"
        /\ batch.state = "sealed" => progress.report = batch.report
    BY DEF RunInv, TablesOK, ProgressOK
  <2>2. progress \in [run : Runs, report : Reports, pub : {"none", "pending", "published", "unchanged"}]
    BY <2>1 DEF RunInv, TypeOK, CacheTypeOK
  <2> QED
    BY <2>1, <2>2 DEF ProgressOf
<1> QED
  BY <1>1, RunInvariant, PTL

\* A run that is live owns the one unresolved batch, as its worker left it.
THEOREM LiveRunOwns == Spec => []LiveRunOwnsBatch
<1>1. RunInv => LiveRunOwnsBatch
  BY DEF RunInv, RunOK, LiveOK, Decided, LiveRunOwnsBatch
<1> QED
  BY <1>1, RunInvariant, PTL

\* The outcome the caller of a run was told is the durable one, unless it was reported as
\* unpersisted, whatever retries, later runs and restarts follow.
THEOREM ToldIsDurable == Spec => []ToldOutcomeIsDurable
<1>1. RunInv => ToldOutcomeIsDurable
  BY DEF RunInv, RunOK, CompletionOK, Told, ToldOutcomeIsDurable
<1> QED
  BY <1>1, RunInvariant, PTL

\* A run is reported completed only if every pair of its scope was done and none failed.
THEOREM CompletedIsWhole == Spec => []CompletedMeansWhole
<1>1. RunInv => CompletedMeansWhole
  BY DEF RunInv, RunOK, CompletionOK, Whole, CompletedMeansWhole
<1> QED
  BY <1>1, RunInvariant, PTL

-------------------------------------------------------------------------------
(* What readers see: only a promotion adds to it *)

OnlyGoes == \A k \in Key : judgments'[k] \in {judgments[k], NoRow}

LEMMA PurgeOnlyTakes ==
  ASSUME NEW keys, NEW kinds, Purge(keys, kinds)
  PROVE  OnlyGoes
<1>1. PICK gone : judgments' = Erase(judgments, gone)
  BY DEF Purge
<1> QED
  BY <1>1 DEF Erase, OnlyGoes

LEMMA FinalizeOnlyTakes ==
  ASSUME NEW r, NEW w, NEW report, NEW failures, FinalizeRun(r, w, report, failures)
  PROVE  judgments' = judgments
BY DEF FinalizeRun, SealRunBatch, tables

LEMMA PersistOnlyTakes ==
  ASSUME NEW r, NEW report, NEW step, Persist(r, report, step)
  PROVE  judgments' = judgments
BY FinalizeOnlyTakes DEF Persist, Fail, SaveRunProgress

LEMMA WorkerOnlyTakes ==
  ASSUME NEW r \in Runs, WorkerStep(r)
  PROVE  judgments' = judgments
<1> USE DEF tables
<1>1. CASE Begin(r)
  BY <1>1, FinalizeOnlyTakes, PersistOnlyTakes DEF Begin, Fail
<1>2. CASE NextPair(r)
  BY <1>2, FinalizeOnlyTakes DEF NextPair, Fail
<1>3. ASSUME NEW p \in Pairs, Prepare(r, p) PROVE judgments' = judgments
  BY <1>3, PersistOnlyTakes DEF Prepare
<1>4. CASE Dispatch(r)
  BY <1>4, PersistOnlyTakes DEF Dispatch, PairFails
<1>5. CASE EvaluationFails(r)
  BY <1>5, PersistOnlyTakes DEF EvaluationFails, PairFails
<1>6. CASE Checkpoint(r)
  BY <1>6, FinalizeOnlyTakes, PersistOnlyTakes DEF Checkpoint, CheckpointStagedPair, PairFails, Fail
<1>7. CASE Finish(r)
  BY <1>7, FinalizeOnlyTakes DEF Finish
<1>8. CASE AttemptFails(r) \/ WorkerStops(r)
  BY <1>8 DEF AttemptFails, WorkerStops
<1> QED
  BY <1>1, <1>2, <1>3, <1>4, <1>5, <1>6, <1>7, <1>8 DEF WorkerStep

LEMMA ResumeOnlyTakes ==
  ASSUME NEW w, NEW report, NEW prepared, Resume(w, report, prepared)
  PROVE  judgments' = judgments
BY DEF Resume, SealRunBatch, tables

\* A publisher, the owner and the startup.
LEMMA OthersOnlyTake ==
  /\ \A r \in Runs, notes \in Consents : Reserve(r, notes) => judgments' = judgments
  /\ \A r \in Runs, cause \in Causes : TerminateRun(r, cause) => judgments' = judgments
  /\ \A r \in Runs : FinalizerEnds(r) \/ RetryPublication(r) \/ RetryEnds(r) => judgments' = judgments
  /\ \A w \in Publishers : Snapshot(w) \/ LoadCapture(w) => judgments' = judgments
  /\ Crash \/ Reconcile \/ Recovered => judgments' = judgments
<1> USE DEF tables
<1>1. ASSUME NEW r \in Runs, NEW notes \in Consents, Reserve(r, notes) PROVE judgments' = judgments
  BY <1>1 DEF Reserve, ReserveRunBatch
<1>2. ASSUME NEW r \in Runs, NEW cause \in Causes, TerminateRun(r, cause) PROVE judgments' = judgments
  BY <1>2, FinalizeOnlyTakes DEF TerminateRun, SaveSealedRunProgressIfOwned
<1>3. ASSUME NEW r \in Runs, FinalizerEnds(r) \/ RetryPublication(r) \/ RetryEnds(r)
      PROVE  judgments' = judgments
  BY <1>3, ResumeOnlyTakes DEF FinalizerEnds, RetryPublication, RetryEnds
<1>4. ASSUME NEW w \in Publishers, Snapshot(w) \/ LoadCapture(w) PROVE judgments' = judgments
  BY <1>4 DEF Snapshot, LoadCapture, GivesUp, TriesAgain, SaveSealedRunProgressIfOwned
<1>5. ASSUME Crash \/ Reconcile \/ Recovered PROVE judgments' = judgments
  BY <1>5, ResumeOnlyTakes DEF Crash, Reconcile, Recovered
<1> QED
  BY <1>1, <1>2, <1>3, <1>4, <1>5

LEMMA MutationOnlyTakes ==
  ASSUME MutationStep \/ StartupPurge \/ \E e \in Mutations : MutationBegins(e)
  PROVE  OnlyGoes
<1>1. CASE UNCHANGED tables
  BY <1>1 DEF tables, OnlyGoes
<1>2. CASE PurgeDDependent
  BY <1>2, PurgeOnlyTakes DEF PurgeDDependent
<1>3. ASSUME NEW e \in Mutations, MutationBegins(e) PROVE OnlyGoes
  <2>1. PurgeBeforeSave(e)
    BY <1>3 DEF MutationBegins
  <2>2. CASE e[1] = "sources"
    BY <2>1, <2>2, PurgeOnlyTakes DEF PurgeBeforeSave, InvalidateGame
  <2>3. CASE e[1] # "sources"
    BY <1>1, <1>2, <2>1, <2>3 DEF PurgeBeforeSave
  <2> QED
    BY <2>2, <2>3
<1> QED
  BY <1>1, <1>2, <1>3 DEF MutationStep, MutationSaves, MutationSaveFails, RevocationCleansUp, StartupPurge

\* What a commit adds was eligible: it is current, so notes are permitted if it rests on one.
LEMMA CommitAddsPermitted ==
  ASSUME NEW w \in Publishers, Commit(w), NEW k \in Key,
         judgments'[k] # judgments[k], judgments'[k] # NoRow, judgments'[k].kind \in NoteKinds
  PROVE  sources.noteUse
<1> DEFINE p == publisher[w]
           rows == IF p.at = "empty" THEN Empty ELSE Only(staged, Eligible(p))
<1>1. CASE TriesAgain(w)
  BY <1>1 DEF TriesAgain, GivesUp, SaveSealedRunProgressIfOwned, tables
<1>2. CASE PromoteRunBatch(w[1], rows, p.rev, p.report)
  <2>1. judgments' = Overlay(judgments, rows)
    BY <1>2 DEF PromoteRunBatch
  <2>2. rows[k] # NoRow /\ judgments'[k] = rows[k]
    BY <2>1 DEF Overlay
  <2>3. k \in Eligible(p) /\ rows[k] = staged[k]
    BY <2>2 DEF Only, Empty
  <2>4. RowCurrent(staged[k], k, sources)
    BY <2>3 DEF Eligible
  <2> QED
    BY <2>2, <2>3, <2>4 DEF RowCurrent
<1> QED
  BY <1>1, <1>2 DEF Commit

\* Note judgments become visible only while the owner permits note use: a publisher asks the
\* sources again under the coordinator (validateStagedRows), and nobody else publishes.
THEOREM NotesVisibleWhenPermitted == Spec => NotesNeedPermission
<1>1. ASSUME [Next]_vars PROVE NotesWhenPermitted
  <2>1. CASE OnlyGoes \/ judgments' = judgments
    BY <2>1 DEF OnlyGoes, NotesWhenPermitted
  <2>2. ASSUME NEW w \in Publishers, Commit(w) PROVE NotesWhenPermitted
    BY <2>2, CommitAddsPermitted DEF NotesWhenPermitted
  <2>3. CASE UNCHANGED vars
    BY <2>1, <2>3 DEF vars, tables
  <2>4. CASE Next
    BY <2>1, <2>2, <2>4, WorkerOnlyTakes, OthersOnlyTake, MutationOnlyTakes
       DEF Next, PublisherStep, StartupStep
  <2> QED
    BY <1>1, <2>3, <2>4
<1>2. [Next]_vars => [NotesWhenPermitted]_vars
  BY <1>1
<1> QED
  BY <1>2, PTL DEF Spec, NotesNeedPermission

-------------------------------------------------------------------------------
(* The service implements JudgmentPublication *)

Publishing == Publication!Next \/ UNCHANGED Publication!pubVars

LEMMA NothingPublished ==
  ASSUME UNCHANGED <<judgments, staged, fate>>
  PROVE  Publishing
BY DEF Publishing, Publication!pubVars

LEMMA SealPublishes ==
  ASSUME TablesOK, NEW r \in Runs, NEW report, SealRunBatch(r, report)
  PROVE  Publishing
<1>1. UNCHANGED <<judgments, staged>>
  BY DEF SealRunBatch
<1>2. CASE Owns(r, "active") /\ fate' = [fate EXCEPT ![r] = "sealed"]
  <2>1. fate[r] = "open"
    BY <1>2 DEF TablesOK, BatchMatchesFate
  <2>2. Publication!Close(r)
    BY <1>1, <1>2, <2>1 DEF Publication!Close
  <2> QED
    BY <2>2 DEF Publishing, Publication!Next
<1>3. CASE fate' = fate
  BY <1>1, <1>3, NothingPublished
<1> QED
  BY <1>2, <1>3 DEF SealRunBatch

\* Purging withdraws.
LEMMA ShrunkPublishes ==
  ASSUME TablesOK', Shrunk, fate' = fate
  PROVE  Publishing
<1>1. judgments' \in Rows /\ staged' \in Rows
  BY DEF TablesOK, CacheTypeOK
<1>2. Publication!Withdraw
  BY <1>1 DEF Shrunk, Publication!Withdraw, Publication!Shrinks, Publication!Rows, Rows
<1> QED
  BY <1>2 DEF Publishing, Publication!Next

LEMMA PurgePublishes ==
  ASSUME TablesOK, NEW keys, NEW kinds, Purge(keys, kinds)
  PROVE  Publishing
<1>1. TablesOK' /\ Shrunk
  BY PurgeKeeps
<1>2. fate' = fate
  BY DEF Purge
<1> QED
  BY <1>1, <1>2, ShrunkPublishes

LEMMA FinalizePublishes ==
  ASSUME TablesOK, NEW r \in Runs, NEW w, NEW report, NEW failures, FinalizeRun(r, w, report, failures)
  PROVE  Publishing
BY SealPublishes, NothingPublished DEF FinalizeRun, tables

LEMMA PersistPublishes ==
  ASSUME TablesOK, NEW r \in Runs, NEW report, NEW step, Persist(r, report, step)
  PROVE  Publishing
BY FinalizePublishes, NothingPublished DEF Persist, Fail, SaveRunProgress

LEMMA ResumePublishes ==
  ASSUME TablesOK, NEW r \in Runs, NEW kind, NEW report, NEW prepared, Resume(<<r, kind>>, report, prepared)
  PROVE  Publishing
<1>1. CASE UNCHANGED tables
  BY <1>1, NothingPublished DEF tables
<1>2. CASE SealRunBatch(r, report)
  BY <1>2, SealPublishes
<1> QED
  BY <1>1, <1>2 DEF Resume

\* The rows of a pair are offered; a publisher answers, or promotes.
LEMMA CheckpointPublishes ==
  ASSUME RunInv, NEW r \in Runs, Checkpoint(r)
  PROVE  Publishing
<1> USE DEF RunInv
<1> DEFINE w == worker[r]
           rows == JudgedRows(w)
           report == Counting(w.report, 0)
<1>1. CASE Fail(r, 1) \/ PairFails(r, "none")
  BY <1>1, FinalizePublishes, PersistPublishes DEF Fail, PairFails
<1>2. CASE CheckpointStagedPair(r, rows, report) /\ PairAuthorized(r, sources)
  <2>1. At(r, "sent") /\ w.pc = "sent"
    BY DEF Checkpoint, At
  <2>2. /\ w \in Worker /\ Captures(w) /\ w.kind \in Kinds
    BY <2>1, AtUnsealed, UnsealedFacts DEF Working
  <2>3. w.capture = sources
    BY <1>2, <2>2 DEF PairAuthorized, SameAuthority, Captures
  <2>4. rows \in Rows
    BY <2>2, <2>3, JudgedRowsTrue
  <2> HIDE DEF rows, report
  <2>5. /\ TablesOK' /\ judgments' = judgments
        /\ \A k \in Key : staged'[k] = IF rows[k] # NoRow THEN rows[k] ELSE staged[k]
    BY <1>2, <2>4, CheckpointKeeps
  <2>6. fate[r] = "open" /\ fate' = fate
    BY <1>2 DEF CheckpointStagedPair, TablesOK, BatchMatchesFate
  <2>7. staged' \in Publication!Rows
    BY <2>5 DEF TablesOK, CacheTypeOK, Publication!Rows, Rows
  <2>8. \A k \in Key : staged'[k] \in Content \cup {staged[k]}
    BY <2>4, <2>5 DEF Rows
  <2>9. Publication!Offer(r)
    BY <2>5, <2>6, <2>7, <2>8 DEF Publication!Offer
  <2> QED
    BY <2>9 DEF Publishing, Publication!Next
<1> QED
  BY <1>1, <1>2 DEF Checkpoint

LEMMA WorkerPublishes ==
  ASSUME RunInv, NEW r \in Runs, WorkerStep(r)
  PROVE  Publishing
<1> USE DEF RunInv, tables
<1>1. CASE Begin(r)
  BY <1>1, FinalizePublishes, PersistPublishes DEF Begin, Fail
<1>2. CASE NextPair(r)
  BY <1>2, FinalizePublishes, NothingPublished DEF NextPair, Fail
<1>3. ASSUME NEW p \in Pairs, Prepare(r, p) PROVE Publishing
  BY <1>3, PersistPublishes DEF Prepare
<1>4. CASE Dispatch(r)
  BY <1>4, PersistPublishes, NothingPublished DEF Dispatch, PairFails
<1>5. CASE EvaluationFails(r)
  BY <1>5, PersistPublishes DEF EvaluationFails, PairFails
<1>6. CASE Checkpoint(r)
  BY <1>6, CheckpointPublishes
<1>7. CASE Finish(r)
  BY <1>7, FinalizePublishes DEF Finish
<1>8. CASE AttemptFails(r) \/ WorkerStops(r)
  BY <1>8, NothingPublished DEF AttemptFails, WorkerStops
<1> QED
  BY <1>1, <1>2, <1>3, <1>4, <1>5, <1>6, <1>7, <1>8 DEF WorkerStep

LEMMA PublisherPublishes ==
  ASSUME RunInv, NEW w \in Publishers, PublisherStep(w)
  PROVE  Publishing
<1> USE DEF RunInv
<1> DEFINE p == publisher[w]
           rows == IF p.at = "empty" THEN Empty ELSE Only(staged, Eligible(p))
<1>1. CASE GivesUp(w) \/ TriesAgain(w) \/ UNCHANGED tables
  BY <1>1, NothingPublished DEF GivesUp, TriesAgain, SaveSealedRunProgressIfOwned, tables
<1>2. CASE PromoteRunBatch(w[1], rows, p.rev, p.report)
  <2>1. rows \in Rows
    BY DEF Only, Empty, Rows, TypeOK, CacheTypeOK
  <2>2. w[1] \in Runs
    BY DEF Publishers
  <2> HIDE DEF rows
  <2>3. TablesOK'
    BY <1>2, <2>1, <2>2, PromoteKeeps
  <2>4. /\ judgments' = Overlay(judgments, rows) /\ staged' = Empty /\ Owns(w[1], "sealed")
        /\ fate' = [fate EXCEPT ![w[1]] = "published"]
        /\ \A k \in Held(rows) : rows[k] = staged[k]
    BY <1>2 DEF PromoteRunBatch, CanPromote
  <2>5. \A k \in Key : judgments'[k] = judgments[k] \/ (staged[k] # NoRow /\ judgments'[k] = staged[k])
    BY <2>4 DEF Overlay, Held
  <2>6. judgments' \in Publication!Rows
    BY <2>3 DEF TablesOK, CacheTypeOK, Publication!Rows, Rows
  <2>7. fate[w[1]] = "sealed"
    BY <2>2, <2>4 DEF TablesOK, BatchMatchesFate
  <2>8. Publication!Publish(w[1])
    BY <2>4, <2>5, <2>6, <2>7 DEF Publication!Publish, Publication!Nothing, Empty
  <2> QED
    BY <2>2, <2>8 DEF Publishing, Publication!Next
<1> QED
  BY <1>1, <1>2 DEF PublisherStep, Snapshot, LoadCapture, Commit

LEMMA ReservePublishes ==
  ASSUME TablesOK, NEW r \in Runs, NEW notes, Reserve(r, notes)
  PROVE  Publishing
<1>1. /\ fate[r] = "new" /\ batch = NoBatch /\ UNCHANGED <<judgments, staged>>
      /\ fate' = [fate EXCEPT ![r] = "open"]
  BY DEF Reserve, ReserveRunBatch
<1>2. \A s \in Runs : fate[s] \notin {"open", "sealed"}
  BY <1>1 DEF TablesOK, BatchMatchesFate, Owns
<1>3. Publication!Open(r)
  BY <1>1, <1>2 DEF Publication!Open, Publication!Unresolved
<1> QED
  BY <1>3 DEF Publishing, Publication!Next

LEMMA MutationPublishes ==
  ASSUME RunInv, MutationStep \/ StartupPurge \/ \E e \in Mutations : MutationBegins(e)
  PROVE  Publishing
<1>1. CASE UNCHANGED tables
  BY <1>1, NothingPublished DEF tables
<1>2. CASE PurgeDDependent
  BY <1>2, PurgePublishes DEF PurgeDDependent, RunInv
<1>3. ASSUME NEW e \in Mutations, MutationBegins(e) PROVE Publishing
  <2>1. PurgeBeforeSave(e)
    BY <1>3 DEF MutationBegins
  <2>2. CASE e[1] = "sources"
    BY <2>1, <2>2, PurgePublishes DEF PurgeBeforeSave, InvalidateGame, RunInv
  <2>3. CASE e[1] # "sources"
    BY <1>1, <1>2, <2>1, <2>3 DEF PurgeBeforeSave
  <2> QED
    BY <2>2, <2>3
<1> QED
  BY <1>1, <1>2, <1>3 DEF MutationStep, MutationSaves, MutationSaveFails, RevocationCleansUp, StartupPurge

LEMMA RunServicePublishes == RunInv /\ [Next]_vars => [Publication!Next]_Publication!pubVars
<1> SUFFICES ASSUME RunInv, [Next]_vars PROVE Publishing
  BY DEF Publishing
<1> USE DEF RunInv
<1>1. ASSUME NEW r \in Runs, NEW notes \in Consents, Reserve(r, notes) PROVE Publishing
  BY <1>1, ReservePublishes
<1>2. ASSUME NEW r \in Runs, NEW cause \in Causes, TerminateRun(r, cause) PROVE Publishing
  BY <1>2, FinalizePublishes, NothingPublished DEF TerminateRun, SaveSealedRunProgressIfOwned
<1>3. ASSUME NEW r \in Runs, FinalizerEnds(r) \/ RetryPublication(r) \/ RetryEnds(r) PROVE Publishing
  BY <1>3, ResumePublishes, NothingPublished DEF FinalizerEnds, RetryPublication, RetryEnds, tables
<1>4. ASSUME Crash \/ Reconcile \/ Recovered \/ UNCHANGED vars PROVE Publishing
  <2>1. CASE UNCHANGED tables
    BY <2>1, NothingPublished DEF tables
  <2>2. CASE batch # NoBatch /\ Resume(<<batch.run, "retry">>, RecoveredReport, None)
    <3>1. batch.run \in Runs
      BY <2>2, RecoveredTyped
    <3> QED
      BY <2>2, <3>1, ResumePublishes
  <2> QED
    BY <1>4, <2>1, <2>2 DEF Crash, Reconcile, Recovered, vars
<1> QED
  BY <1>1, <1>2, <1>3, <1>4, WorkerPublishes, PublisherPublishes, MutationPublishes DEF Next, StartupStep

\* Whatever mutations, retries, failing storage and crashes do, a reader sees whole runs, each
\* once, minus what was withdrawn: the run service implements JudgmentPublication under the
\* mapping published <- judgments, offered <- staged.
THEOREM RunServicePublishesWholeRuns == Spec => PublishesWholeRuns
<1>1. Init => Publication!Init
  BY DEF Init, CacheInit, Publication!Init, Publication!Nothing, Empty
<1> QED
  BY <1>1, RunServicePublishes, RunInvariant, PTL DEF Spec, PublishesWholeRuns, Publication!Spec
===============================================================================
