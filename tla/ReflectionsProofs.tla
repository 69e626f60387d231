-------------------------- MODULE ReflectionsProofs --------------------------
(***************************************************************************)
(* What the reflection files hold and show goes with the notes and the     *)
(* settings, whatever dies or fails between the writes of the files; an    *)
(* attempt that was overtaken saves nothing.  For any questions, games,    *)
(* requests, cached results and bounds.                                    *)
(***************************************************************************)
EXTENDS Reflections, FiniteSetTheorems, WellFoundedInduction, TLAPS

(***************************************************************************)
(* The operation in progress, and the run                                  *)
(***************************************************************************)
RecoverySteps == {"recover", "validate", "reset", "drop", "unlink"}
StepsOf(kind) ==
  RecoverySteps \cup
    CASE kind = "startup" -> {}
      [] kind = "note" -> {"stage", "journal", "save", "promote", "finish", "compensate"}
      [] kind = "set-enabled" -> {"stage", "journal", "promote", "promote-settings", "finish"}
      [] OTHER -> {"init", "body"}

JobOK ==
  /\ job.kind = "none" => job = Idle
  /\ job.kind # "none" => job.step \in StepsOf(job.kind)
  /\ job.step = "compensate" => job.mode = "failing"
  /\ job.mode = "failing" => job.kind = "note" /\ job.step \in {"compensate", "drop", "unlink"}
  /\ job.kind \in StateJobs \ {"set-enabled"} /\ job.step \in RecoverySteps => job.resets
  /\ job.kind = "startup" => ~validated
  /\ job.kind = "note" => job.arg \in Games
  /\ job.kind \in {"set-enabled", "start"} => job.arg \in Questions
  /\ job.kind = "set-enabled" => owner.kind \in {"enable", "disable"}
  /\ job.kind = "settings" => job.arg = 1 \/ refresh.phase = "admitted"
  /\ job.kind = "start" => refresh.phase = "starting"
  /\ job.kind = "complete" => refresh.phase = "publishing"
  /\ job.kind = "settle" => refresh.phase = "failing" /\ refresh.fence # Empty

Fenceless == {"idle", "admitted", "next", "starting", "published"}
Attempting == {"evidence", "model", "publishing"}

PhaseOK ==
  /\ refresh.phase \in Fenceless => refresh.fence = Empty
  /\ refresh.phase \in Attempting => refresh.fence # Empty
  /\ refresh.phase \in {"model", "publishing"} => refresh.evidence # Empty
  /\ refresh.phase \in {"next", "starting"} => refresh.todo # {}

\* The record in the registry, by the phase of the run.
OperationOK ==
  /\ ~op.defers /\ ~op.attached /\ op.pending = None
  /\ op.state # "terminal" => op.outcome = None /\ ~op.aborted
  /\ refresh.phase \in {"idle", "admitted"} => op = NoOperation
  /\ refresh.phase \notin {"idle", "admitted"} => op.state # "absent"
  /\ op.reserved <=> refresh.phase \in {"publishing", "published"}
  /\ op.reserved => op.state = "active"
  /\ op.state = "terminal" =>
       op.outcome = IF refresh.result = "completed" THEN "completed" ELSE "cancelled"
  /\ refresh.result = "completed" => refresh.phase = "ending"
  /\ refresh.result \in {"completed", "cancelled"} => op.state = "terminal"

(***************************************************************************)
(* The files                                                               *)
(***************************************************************************)
\* No answer of s is made from a note that changed, or answers a question switched off.
Honest(s, settings) ==
  \A q \in Questions :
    s.entry[q].cache # Empty => NotesCurrent(s.entry[q].cache) /\ settings[q]

NoneRuns(s) == \A q \in Questions : s.entry[q].attempt.state # "refreshing"

\* What a recovery may make of the journal is honest.
JournalOK ==
  LET j == disk.journal
  IN  j # Empty =>
        /\ j.kind = "source-purge" =>
             /\ j.prior <= collection.rev /\ j.target = j.prior + 1
             /\ collection.rev = j.prior => Honest(j.priorState, disk.settings)
             /\ collection.rev \in {j.prior, j.target} => Honest(j.staged, disk.settings)
             /\ NoneRuns(j.staged) /\ j.settings = disk.settings
        /\ j.kind = "settings" =>
             /\ Honest(j.staged, disk.settings) /\ Honest(j.staged, j.settings)
             /\ disk.stage => Honest(j.priorState, disk.settings)

\* Where a recovery, a transaction or the work on the state is.
StepOK ==
  LET j == disk.journal
  IN  /\ job.step \in {"validate", "stage", "journal"} => j = Empty
      /\ job.step \in {"journal", "save", "promote"} => disk.stage
      /\ job.step \in {"save", "promote", "promote-settings", "finish"} =>
           /\ j # Empty
           /\ j.kind = IF job.kind = "note" THEN "source-purge" ELSE "settings"
      /\ job.step = "save" =>
           /\ collection.rev = j.prior
           /\ \A q \in Questions : j.staged.entry[q].cache # Empty =>
                                     j.staged.entry[q].cache.deps[job.arg] = NoDependency
      /\ At("note", "promote") \/ At("note", "finish") => collection.rev = j.target
      /\ job.step \in {"promote-settings", "finish"} => disk.state = j.staged
      /\ job.step = "promote-settings" => ~disk.stage
      /\ At("set-enabled", "finish") => disk.settings = j.settings
      /\ job.step \in {"drop", "unlink"} => Honest(disk.state, disk.settings)
      /\ job.step = "init" => \/ Known /\ context.state = disk.state
                              \/ context = Unread /\ j = Empty
      /\ job.step = "body" => Known /\ context.state = disk.state

\* Without a journal the file is honest, once the startup has looked.
HonestOK ==
  \/ disk.journal # Empty
  \/ job.kind = "startup" /\ job.step \in {"recover", "validate", "reset"}
  \/ Honest(disk.state, disk.settings)

(***************************************************************************)
(* Memory.  What was read is of a generation, and the generation of what   *)
(* is staged never becomes that of something outdated.                     *)
(***************************************************************************)
Within(s, t) == \A q \in Questions : s[q] => t[q]

MemoryOK ==
  LET j == disk.journal
  IN  Known =>
        /\ context.state.gen = disk.state.gen => Within(context.settings, disk.settings)
        /\ j # Empty /\ context.state.gen = j.staged.gen =>
             Within(context.settings, disk.settings) /\ Within(context.settings, j.settings)
        /\ j # Empty /\ disk.stage /\ j.kind = "source-purge" =>
             j.staged.gen \notin {context.state.gen, disk.state.gen}

\* The generation of the file, and of what may be renamed over it.
Prospects ==
  {disk.state.gen} \cup IF disk.journal # Empty /\ disk.stage THEN {disk.journal.staged.gen}
                        ELSE {}

\* A fence that was overtaken is held at most by what is outdated, and stays so.
FenceOK ==
  refresh.fence # Empty /\ refresh.fenced /\ Known /\ HoldsFence(refresh.fence)
    => context.state.gen \notin Prospects

(***************************************************************************)
(* As long as storage has not failed                                       *)
(***************************************************************************)
\* What is shown as refreshing is the attempt of the run.
ShownOK ==
  Known => \A q \in Questions : context.state.entry[q].attempt.state = "refreshing" =>
             /\ refresh.phase \in Attempting \cup {"failing"} /\ refresh.fence # Empty
             /\ refresh.fence.question = q /\ HoldsFence(refresh.fence)

UnfailingOK ==
  faults = 0 =>
    /\ context # Broken /\ job.mode # "failing"
    /\ job.kind \notin {"startup", "note", "set-enabled"} => disk.journal = Empty
    /\ LiveAttemptIsRunning /\ (refresh.phase = "ending" => live = {})
    /\ ShownOK

ReflectionInv ==
  /\ TypeOK /\ JobOK /\ PhaseOK /\ OperationOK
  /\ JournalOK /\ StepOK /\ HonestOK /\ MemoryOK /\ FenceOK /\ UnfailingOK
-------------------------------------------------------------------------------
(* Generations *)

Less == {p \in Nat \X Nat : p[1] < p[2]}

LEMMA LessIsWellFounded == IsWellFoundedOn({p \in Nat \X Nat : p[1] < p[2]}, Nat)
BY NatLessThanWellFounded DEF OpToRel

LEMMA LeastOf ==
  ASSUME NEW S \in SUBSET Nat, S # {}
  PROVE  \E m \in S : \A n \in S : m <= n
<1>1. IsWellFoundedOn(Less, Nat)
  BY LessIsWellFounded DEF Less
<1>2. \E m \in S : \A n \in S : ~(<<n, m>> \in Less)
  BY <1>1, WFMin
<1>3. \A m, n \in Nat : m < n => <<m, n>> \in Less
  BY DEF Less
<1>4. \A m, n \in Nat : ~(n < m) => m <= n
  OBVIOUS
<1> QED BY <1>2, <1>3, <1>4

LEMMA TypeFacts ==
  ASSUME TypeOK
  PROVE  /\ disk \in Disk /\ context \in Context \cup {Unread, Broken} /\ refresh \in Refresh
         /\ disk.state \in State /\ disk.state.gen \in Nat
         /\ disk.settings \in [Questions -> BOOLEAN]
         /\ disk.journal # Empty =>
              /\ disk.journal \in Journal
              /\ disk.journal.kind \in {"source-purge", "settings"}
              /\ disk.journal.prior \in Nat /\ disk.journal.target \in Nat
              /\ disk.journal.priorState \in State /\ disk.journal.staged \in State
              /\ disk.journal.priorState.gen \in Nat /\ disk.journal.staged.gen \in Nat
              /\ disk.journal.settings \in [Questions -> BOOLEAN]
         /\ Known => /\ context \in Context /\ context.state \in State /\ context.state.gen \in Nat
                     /\ context.settings \in [Questions -> BOOLEAN]
         /\ refresh.fence # Empty =>
              /\ refresh.fence \in Fence /\ refresh.fence.question \in Questions
              /\ refresh.fence.batch \in Nat /\ refresh.fence.gen \in Nat
         /\ refresh.evidence # Empty => refresh.evidence \in Evidence
         /\ collection.rev \in Nat /\ collection.note \in [Games -> Nat]
<1>1. disk \in Disk /\ context \in Context \cup {Unread, Broken} /\ refresh \in Refresh
      /\ collection \in [rev : Nat, note : [Games -> Nat]]
  BY DEF TypeOK
<1>2. disk.state \in State /\ disk.settings \in [Questions -> BOOLEAN]
      /\ disk.journal \in Journal \cup {Empty}
  BY <1>1 DEF Disk
<1>3. refresh.fence \in Fence \cup {Empty} /\ refresh.evidence \in Evidence \cup {Empty}
  BY <1>1 DEF Refresh
<1>4. \A s \in State : s.gen \in Nat
  BY DEF State
<1>5. \A j \in Journal : /\ j.kind \in {"source-purge", "settings"}
                         /\ j.prior \in Nat /\ j.target \in Nat
                         /\ j.priorState \in State /\ j.staged \in State
                         /\ j.settings \in [Questions -> BOOLEAN]
  BY DEF Journal
<1>6. \A c \in Context : c.state \in State /\ c.settings \in [Questions -> BOOLEAN]
  BY DEF Context
<1>7. \A f \in Fence : f.question \in Questions /\ f.batch \in Nat /\ f.gen \in Nat
  BY DEF Fence
<1>8. Known => context \in Context
  BY <1>1 DEF Known
<1> QED BY <1>1, <1>2, <1>3, <1>4, <1>5, <1>6, <1>7, <1>8

LEMMA HeldIsFinite ==
  ASSUME TypeOK
  PROVE  IsFiniteSet(HeldGenerations) /\ HeldGenerations \subseteq Nat
<1> DEFINE A == {disk.state.gen}
           B == IF disk.journal = Empty THEN {}
                ELSE {disk.journal.staged.gen, disk.journal.priorState.gen}
           C == IF refresh.fence = Empty THEN {} ELSE {refresh.fence.gen}
           D == IF context \in {Unread, Broken} THEN {} ELSE {context.state.gen}
<1>1. HeldGenerations = ((A \cup B) \cup C) \cup D
  BY DEF HeldGenerations
<1>2. IsFiniteSet(A) /\ IsFiniteSet(C) /\ IsFiniteSet(D)
  BY FS_EmptySet, FS_Singleton
<1>3. \A x, y : IsFiniteSet({x, y})
  <2> TAKE x, y
  <2>1. {x, y} = {x} \cup {y}
    OBVIOUS
  <2>2. IsFiniteSet({x}) /\ IsFiniteSet({y})
    BY FS_Singleton
  <2>3. IsFiniteSet({x} \cup {y})
    BY <2>2, FS_Union, Zenon
  <2> QED BY <2>1, <2>3
<1>4. IsFiniteSet(B)
  BY <1>3, FS_EmptySet
<1>5. IsFiniteSet(HeldGenerations)
  BY <1>1, <1>2, <1>4, FS_Union
<1>6. HeldGenerations \subseteq Nat
  BY <1>1, TypeFacts DEF Known
<1> QED BY <1>5, <1>6

\* A new generation is one that nothing refers to.
LEMMA NewIsNew ==
  ASSUME TypeOK
  PROVE  /\ NewGeneration \in Nat /\ NewGeneration # disk.state.gen
         /\ disk.journal # Empty => NewGeneration # disk.journal.staged.gen
         /\ refresh.fence # Empty => NewGeneration # refresh.fence.gen
         /\ Known => NewGeneration # context.state.gen
<1> DEFINE H == HeldGenerations
           n == Cardinality(H)
           Free == {g \in 0 .. n : g \notin H}
<1>1. IsFiniteSet(H) /\ n \in Nat
  BY HeldIsFinite, FS_CardinalityType
<1>2. Free # {}
  <2>1. SUFFICES ASSUME 0 .. n \subseteq H
                 PROVE  FALSE
    OBVIOUS
  <2>2. Cardinality(0 .. n) = n - 0 + 1 /\ IsFiniteSet(0 .. n)
    BY <1>1, FS_Interval
  <2>3. Cardinality(0 .. n) <= n
    BY <1>1, <2>1, FS_Subset
  <2> QED BY <1>1, <2>2, <2>3
<1>3. Free \in SUBSET Nat
  BY <1>1
<1>4. PICK g \in Free : \A h \in Free : g <= h
  BY <1>2, <1>3, LeastOf
<1>5. \A h \in 0 .. n : h < g => h \in H
  BY <1>1, <1>4
<1>6. NewGeneration \in 0 .. n /\ NewGeneration \notin H
  BY <1>4, <1>5 DEF NewGeneration
<1> QED BY <1>1, <1>6 DEF HeldGenerations, Known
-------------------------------------------------------------------------------
(* Operations on the state of the reflections *)

\* t has answers that s has, and no others.
Shrinks(s, t) == \A q \in Questions : t.entry[q].cache \in {s.entry[q].cache, Empty}

LEMMA ShrunkIsHonest ==
  ASSUME NEW s, NEW t, NEW settings, Shrinks(s, t), Honest(s, settings)
  PROVE  Honest(t, settings)
BY DEF Shrinks, Honest

LEMMA HonestStays ==
  ASSUME collection'.note = collection.note
  PROVE  \A s, t : Honest(s, t)' <=> Honest(s, t)
BY DEF Honest, NotesCurrent

LEMMA EntryFacts ==
  ASSUME NEW s \in State, NEW q \in Questions
  PROVE  /\ s.entry[q] \in Entry /\ s.entry[q].attempt \in Attempt
         /\ s.entry[q].cache \in Result \cup {Empty}
         /\ s.entry[q].cache # Empty => s.entry[q].cache.deps \in [Games -> Int]
<1>1. s.entry[q] \in Entry
  BY DEF State
<1>2. s.entry[q].attempt \in Attempt /\ s.entry[q].cache \in Result \cup {Empty}
  BY <1>1 DEF Entry
<1>3. \A r \in Result : r.deps \in [Games -> Int]
  BY DEF Result
<1> QED BY <1>1, <1>2, <1>3

LEMMA AttemptFacts ==
  /\ \A outcome \in {"idle", "cancelled", "unavailable", "purged"} :
       Settled(outcome) \in Attempt /\ Settled(outcome).state = outcome
  /\ \A b \in Nat : Refreshing(b) \in Attempt /\ Refreshing(b).state = "refreshing"
BY DEF Settled, Refreshing, Attempt

LEMMA EmptyStateIs ==
  ASSUME NEW gen \in Nat
  PROVE  /\ EmptyState(gen) \in State /\ EmptyState(gen).gen = gen
         /\ \A q \in Questions : EmptyState(gen).entry[q].cache = Empty
<1> DEFINE e == [cache |-> Empty, attempt |-> Settled("idle")]
<1>1. e \in Entry
  BY AttemptFacts DEF Entry
<1> HIDE DEF e
<1>2. EmptyState(gen) = [gen |-> gen, entry |-> [q \in Questions |-> e]]
  BY DEF EmptyState, e
<1>3. e.cache = Empty
  BY DEF e
<1> QED BY <1>1, <1>2, <1>3 DEF State

\* An entry with another attempt.
LEMMA EntryIs ==
  ASSUME NEW e \in Entry, NEW a \in Attempt
  PROVE  LET f == [e EXCEPT !.attempt = a]
         IN  f \in Entry /\ f.cache = e.cache /\ f.attempt = a
BY DEF Entry

\* A state with its entries replaced, and one with one entry replaced.
LEMMA EntriesIs ==
  ASSUME NEW s \in State, NEW entries \in [Questions -> Entry]
  PROVE  LET t == [s EXCEPT !.entry = entries]
         IN  t \in State /\ t.gen = s.gen /\ t.entry = entries
BY DEF State

LEMMA GenerationIs ==
  ASSUME NEW s \in State, NEW gen \in Nat
  PROVE  LET t == [s EXCEPT !.gen = gen]
         IN  t \in State /\ t.gen = gen /\ t.entry = s.entry
BY DEF State

LEMMA EntryReplaced ==
  ASSUME NEW s \in State, NEW p \in Questions, NEW e \in Entry
  PROVE  LET t == [s EXCEPT !.entry[p] = e]
         IN  /\ t \in State /\ t.gen = s.gen
             /\ \A q \in Questions : t.entry[q] = IF q = p THEN e ELSE s.entry[q]
BY DEF State

LEMMA AttemptReplaced ==
  ASSUME NEW s \in State, NEW p \in Questions, NEW a \in Attempt
  PROVE  LET t == WithAttempt(s, p, a)
         IN  /\ t \in State /\ t.gen = s.gen
             /\ \A q \in Questions :
                  /\ t.entry[q].cache = s.entry[q].cache
                  /\ t.entry[q].attempt = IF q = p THEN a ELSE s.entry[q].attempt
<1> DEFINE e == [s.entry[p] EXCEPT !.attempt = a]
<1>1. e \in Entry /\ e.cache = s.entry[p].cache /\ e.attempt = a
  BY EntryFacts, EntryIs
<1>2. WithAttempt(s, p, a) = [s EXCEPT !.entry[p] = e]
  BY DEF WithAttempt
<1> HIDE DEF e
<1> QED BY <1>1, <1>2, EntryReplaced

LEMMA PurgedIs ==
  ASSUME NEW s \in State, NEW qs
  PROVE  LET t == Purged(s, qs)
         IN  /\ t \in State /\ t.gen = s.gen
             /\ \A q \in Questions : 
                  /\ t.entry[q].cache = IF q \in qs THEN Empty ELSE s.entry[q].cache
                  /\ q \in qs => t.entry[q].attempt.state = "purged"
                  /\ q \notin qs => t.entry[q] = s.entry[q]
<1> DEFINE e == [cache |-> Empty, attempt |-> Settled("purged")]
           entries == [q \in Questions |-> IF q \in qs THEN e ELSE s.entry[q]]
<1>1. e \in Entry /\ e.cache = Empty /\ e.attempt.state = "purged"
  BY AttemptFacts DEF Entry
<1>2. Purged(s, qs) = [s EXCEPT !.entry = entries]
  BY DEF Purged
<1> HIDE DEF e
<1>3. entries \in [Questions -> Entry]
  BY <1>1, EntryFacts
<1>4. \A q \in Questions : entries[q] = IF q \in qs THEN e ELSE s.entry[q]
  OBVIOUS
<1> HIDE DEF entries
<1> QED BY <1>1, <1>2, <1>3, <1>4, EntriesIs

LEMMA InterruptedIs ==
  ASSUME NEW s \in State
  PROVE  LET t == Interrupted(s)
         IN  /\ t \in State /\ t.gen = s.gen /\ NoneRuns(t)
             /\ \A q \in Questions : t.entry[q].cache = s.entry[q].cache
<1> DEFINE e(q) == [s.entry[q] EXCEPT !.attempt = Settled("unavailable")]
           entries == [q \in Questions |->
                         IF s.entry[q].attempt.state = "refreshing" THEN e(q) ELSE s.entry[q]]
<1>1. \A q \in Questions : /\ e(q) \in Entry /\ e(q).cache = s.entry[q].cache
                           /\ e(q).attempt.state = "unavailable"
  BY EntryFacts, EntryIs, AttemptFacts
<1>2. Interrupted(s) = [s EXCEPT !.entry = entries]
  BY DEF Interrupted
<1> HIDE DEF e
<1>3. entries \in [Questions -> Entry]
  BY <1>1, EntryFacts
<1>4. \A q \in Questions : entries[q] = IF s.entry[q].attempt.state = "refreshing"
                                        THEN e(q) ELSE s.entry[q]
  OBVIOUS
<1> HIDE DEF entries
<1>5. Interrupted(s) \in State /\ Interrupted(s).gen = s.gen /\ Interrupted(s).entry = entries
  BY <1>2, <1>3, EntriesIs
<1> QED BY <1>1, <1>4, <1>5 DEF NoneRuns

\* A note change leaves no answer that depends on the game, and no attempt running.
LEMMA NoteTargetIs ==
  ASSUME TypeOK, NEW s \in State, NEW g \in Games
  PROVE  LET t == NoteTarget(s, g)
         IN  /\ t \in State /\ t.gen = NewGeneration /\ NoneRuns(t) /\ Shrinks(s, t)
             /\ \A q \in Questions : t.entry[q].cache # Empty =>
                                       t.entry[q].cache.deps[g] = NoDependency
<1> DEFINE qs == {q \in Questions : s.entry[q].cache # Empty
                                     /\ s.entry[q].cache.deps[g] # NoDependency}
           p == Purged(s, qs)
           i == Interrupted(p)
<1>1. /\ p \in State
      /\ \A q \in Questions : p.entry[q].cache = IF q \in qs THEN Empty ELSE s.entry[q].cache
  <2> HIDE DEF qs
  <2> QED BY PurgedIs
<1>2. /\ i \in State /\ NoneRuns(i)
      /\ \A q \in Questions : i.entry[q].cache = p.entry[q].cache
  BY <1>1, InterruptedIs, Zenon
<1>3. NoteTarget(s, g) = [i EXCEPT !.gen = NewGeneration]
  BY DEF NoteTarget
<1> HIDE DEF p, i
<1>4. /\ NoteTarget(s, g) \in State /\ NoteTarget(s, g).gen = NewGeneration
      /\ NoteTarget(s, g).entry = i.entry
  BY <1>2, <1>3, NewIsNew, GenerationIs
<1> QED BY <1>1, <1>2, <1>4 DEF NoneRuns, Shrinks

LEMMA SettingsTargetIs ==
  ASSUME TypeOK, NEW s \in State, NEW p \in Questions, NEW enabled \in BOOLEAN
  PROVE  LET t == SettingsTarget(s, p, enabled)
         IN  /\ t \in State /\ t.gen = (IF enabled THEN s.gen ELSE NewGeneration)
             /\ Shrinks(s, t) /\ t.entry[p].cache = Empty
<1> DEFINE e == [cache |-> Empty, attempt |-> Settled("idle")]
           i == Interrupted(s)
           o == IF enabled THEN s ELSE [i EXCEPT !.gen = NewGeneration]
<1>1. e \in Entry /\ e.cache = Empty
  BY AttemptFacts DEF Entry
<1>2. i \in State /\ \A q \in Questions : i.entry[q].cache = s.entry[q].cache
  BY InterruptedIs, Zenon
<1>3. SettingsTarget(s, p, enabled) = [o EXCEPT !.entry[p] = e]
  BY DEF SettingsTarget
<1> HIDE DEF e, i
<1>4. /\ o \in State /\ o.gen = (IF enabled THEN s.gen ELSE NewGeneration)
      /\ \A q \in Questions : o.entry[q].cache = s.entry[q].cache
  BY <1>2, NewIsNew, GenerationIs
<1> HIDE DEF o
<1> QED BY <1>1, <1>3, <1>4, EntryReplaced DEF Shrinks

LEMMA ValidatedIs ==
  ASSUME TypeOK
  PROVE  /\ Validated \in State /\ Validated.gen \in {disk.state.gen, NewGeneration}
         /\ Honest(Validated, disk.settings) /\ Shrinks(disk.state, Validated)
<1> DEFINE s == disk.state
           off == {q \in Questions : ~disk.settings[q]
                     /\ (s.entry[q].cache # Empty \/ s.entry[q].attempt.state # "idle")}
           drifted == {q \in Questions \ off : s.entry[q].cache # Empty
                                                 /\ ~NotesCurrent(s.entry[q].cache)}
           p == Purged(s, drifted)
           i == Interrupted(p)
           e == [cache |-> Empty, attempt |-> Settled("idle")]
           entries == [q \in Questions |-> IF q \in off THEN e ELSE i.entry[q]]
           cleaned == [i EXCEPT !.entry = entries]
<1>1. e \in Entry /\ e.cache = Empty
  BY AttemptFacts DEF Entry
<1>2. s \in State
  BY TypeFacts
<1>3. /\ p \in State /\ p.gen = s.gen
      /\ \A q \in Questions : p.entry[q].cache = IF q \in drifted THEN Empty ELSE s.entry[q].cache
  <2> HIDE DEF s, drifted
  <2> QED BY <1>2, PurgedIs
<1>4. /\ i \in State /\ i.gen = s.gen
      /\ \A q \in Questions : i.entry[q].cache = p.entry[q].cache
  BY <1>3, InterruptedIs, Zenon
<1>5. Validated = IF off \cup drifted = {} THEN cleaned
                  ELSE [cleaned EXCEPT !.gen = NewGeneration]
  BY DEF Validated
<1> HIDE DEF e, p, i
<1>6. entries \in [Questions -> Entry]
  BY <1>1, <1>4, EntryFacts
<1>7. \A q \in Questions : entries[q] = IF q \in off THEN e ELSE i.entry[q]
  OBVIOUS
<1> HIDE DEF entries
<1>8. cleaned \in State /\ cleaned.gen = s.gen /\ cleaned.entry = entries
  BY <1>4, <1>6, EntriesIs
<1> HIDE DEF cleaned
<1>9. /\ Validated \in State /\ Validated.gen \in {s.gen, NewGeneration}
      /\ Validated.entry = entries
  BY <1>5, <1>8, NewIsNew, GenerationIs
<1>10. \A q \in Questions :
         /\ Validated.entry[q].cache \in {s.entry[q].cache, Empty}
         /\ q \in off \cup drifted => Validated.entry[q].cache = Empty
  BY <1>1, <1>3, <1>4, <1>7, <1>9
<1>11. \A q \in Questions \ (off \cup drifted) :
         s.entry[q].cache # Empty => NotesCurrent(s.entry[q].cache) /\ disk.settings[q]
  OBVIOUS
<1> HIDE DEF off, drifted
<1> QED BY <1>9, <1>10, <1>11 DEF Honest, Shrinks
-------------------------------------------------------------------------------
(* The record in the registry *)

LEMMA CancellationIs ==
  ASSUME op \in Operation, OperationOK, op' = Cancelled(op), UNCHANGED refresh
  PROVE  op' \in Operation /\ OperationOK'
<1>1. CASE ~CancelAccepted(op)
  <2>1. op' = op
    BY <1>1 DEF Cancelled
  <2> QED BY <2>1 DEF OperationOK
<1>2. CASE CancelAccepted(op)
  <2>1. op.state = "active" /\ ~op.reserved
    BY <1>2 DEF CancelAccepted, OperationOK
  <2>2. op' = [op EXCEPT !.state = "terminal", !.outcome = "cancelled",
                         !.aborted = @ \/ "cancelled" # "completed"]
    BY <1>2, <2>1 DEF Cancelled, CommittedOutcome
  <2>3. /\ op' \in Operation /\ op'.state = "terminal" /\ op'.outcome = "cancelled"
        /\ op'.reserved = op.reserved /\ op'.defers = op.defers /\ op'.attached = op.attached
        /\ op'.pending = op.pending
    BY <2>2 DEF Operation, Outcomes, Interruptions
  <2> QED BY <2>1, <2>3 DEF OperationOK, NoOperation
<1> QED BY <1>1, <1>2

\* The files, memory and the operation in progress are as they were, and the run keeps its
\* fence, or ends.
LEMMA RunLeaves ==
  ASSUME ReflectionInv, UNCHANGED <<disk, collection, memory, job, faultVars>>,
         batches' \in Nat, refresh' \in Refresh, op' \in Operation, PhaseOK', OperationOK',
         owner' \in Request \cup {NoOwner} \cup [kind : {"confirm"}, question : Questions],
         job.kind = "set-enabled" => owner' = owner,
         \/ refresh'.phase = refresh.phase
         \/ refresh.phase \notin {"admitted", "starting", "publishing", "failing"}
         \/ job = Idle
         \/ refresh.phase = "failing" /\ refresh.fence = Empty,
         \/ /\ refresh'.fence = refresh.fence
            /\ refresh.fence # Empty =>
                 /\ refresh'.fenced = refresh.fenced
                 /\ faults = 0 => \/ refresh'.phase \in Attempting \cup {"failing"}
                                  \/ refresh'.phase = refresh.phase
         \/ refresh.phase = "ending" /\ refresh'.phase = "idle" /\ refresh'.fence = Empty
  PROVE  ReflectionInv'
<1> USE DEF ReflectionInv, memory, faultVars
<1>1. TypeOK'
  BY DEF TypeOK
<1>2. JobOK'
  BY DEF JobOK, StepsOf, Idle, StateJobs
<1>3. JournalOK' /\ HonestOK'
  <2>2. JournalOK'
    BY HonestStays DEF JournalOK, NoneRuns
  <2>3. HonestOK'
    BY DEF HonestOK, Honest, NotesCurrent
  <2> QED BY <2>2, <2>3
<1>4. StepOK' /\ MemoryOK'
  BY DEF StepOK, MemoryOK, Honest, NotesCurrent, Known, Within, At
<1>5. FenceOK'
  BY DEF FenceOK, Prospects, HoldsFence, Known
<1>6. UnfailingOK'
  <2> SUFFICES ASSUME faults = 0
               PROVE  /\ context' # Broken /\ job'.mode # "failing"
                      /\ job'.kind \notin {"startup", "note", "set-enabled"} => disk'.journal = Empty
                      /\ LiveAttemptIsRunning' /\ (refresh'.phase = "ending" => live' = {})
                      /\ ShownOK'
    BY DEF UnfailingOK
  <2>1. LiveAttemptIsRunning' /\ (refresh'.phase = "ending" => live' = {})
    BY DEF UnfailingOK, LiveAttemptIsRunning, AttemptId, Attempting
  <2>2. ShownOK'
    BY DEF UnfailingOK, ShownOK, HoldsFence, Known, Attempting
  <2> QED BY <2>1, <2>2 DEF UnfailingOK
<1> QED BY <1>1, <1>2, <1>3, <1>4, <1>5, <1>6

LEMMA AcquireInv ==
  ASSUME ReflectionInv, NEW kind \in StateJobs \cup {"note"}, NEW arg \in Nat \cup Games,
         Acquire(kind, arg),
         UNCHANGED <<disk, collection, memory, owner, runVars, faultVars>>,
         kind = "note" => arg \in Games,
         kind \in {"set-enabled", "start"} => arg \in Questions,
         kind = "set-enabled" => owner.kind \in {"enable", "disable"},
         kind = "settings" => arg = 1 \/ refresh.phase = "admitted",
         kind = "start" => refresh.phase = "starting",
         kind = "complete" => refresh.phase = "publishing",
         kind = "settle" => refresh.phase = "failing" /\ refresh.fence # Empty
  PROVE  ReflectionInv'
<1> USE DEF ReflectionInv, memory, runVars, faultVars
<1> DEFINE step == IF kind \in StateJobs \ {"set-enabled"} /\ ~ShouldRecover
                   THEN "init" ELSE "recover"
           resets == kind \in StateJobs /\ ShouldRecover
<1>1. job = Idle /\ (kind \in StateJobs => ~Rejects)
  BY DEF Acquire
<1>2. /\ job' \in Job /\ job'.kind = kind /\ job'.step = step /\ job'.arg = arg
      /\ job'.resets = resets /\ job'.mode = "normal"
  BY DEF Acquire, Job, Steps, StateJobs
<1>3. step \in {"init", "recover"} /\ kind # "none" /\ kind # "startup"
  BY DEF StateJobs
<1>4. step = "init" => /\ kind \in StateJobs \ {"set-enabled"}
                       /\ Known /\ context.state = disk.state
  BY <1>1 DEF ShouldRecover, Rejects, Known
<1>5. kind \in StateJobs \ {"set-enabled"} /\ step = "recover" => resets
  OBVIOUS
<1> HIDE DEF step, resets
<1>6. TypeOK'
  BY <1>2 DEF TypeOK
<1>7. JobOK'
  BY <1>2, <1>3, <1>4, <1>5 DEF JobOK, StepsOf, StateJobs, RecoverySteps
<1>8. PhaseOK' /\ OperationOK'
  BY DEF PhaseOK, OperationOK
<1>9. JournalOK'
  BY HonestStays DEF JournalOK, NoneRuns
<1>10. StepOK'
  BY <1>2, <1>3, <1>4 DEF StepOK, At, Known
<1>11. HonestOK'
  BY <1>1 DEF HonestOK, Honest, NotesCurrent, Idle
<1>12. MemoryOK'
  BY DEF MemoryOK, Known, Within
<1>13. FenceOK'
  BY DEF FenceOK, Prospects, HoldsFence, Known
<1>14. UnfailingOK'
  BY <1>1, <1>2 DEF UnfailingOK, LiveAttemptIsRunning, AttemptId, ShownOK, HoldsFence, Known, Idle
<1> QED BY <1>6, <1>7, <1>8, <1>9, <1>10, <1>11, <1>12, <1>13, <1>14

LEMMA NextQuestionIs ==
  ASSUME TypeOK, refresh.todo # {}
  PROVE  NextQuestion \in refresh.todo /\ NextQuestion \in Questions
<1>1. refresh.todo \in SUBSET Questions /\ Questions \subseteq Nat
  BY ReflectionConstants DEF TypeOK, Refresh
<1>2. PICK m \in refresh.todo : \A n \in refresh.todo : m <= n
  BY <1>1, LeastOf
<1> QED BY <1>1, <1>2 DEF NextQuestion

LEMMA RunAcquiresInv ==
  ASSUME ReflectionInv, RunAcquires
  PROVE  ReflectionInv'
<1> USE DEF ReflectionInv
<1>1. UNCHANGED <<disk, collection, memory, owner, runVars, faultVars>>
  BY DEF RunAcquires
<1>2. CASE refresh.phase = "admitted" /\ Acquire("settings", 0)
  BY <1>1, <1>2, AcquireInv DEF StateJobs
<1>3. CASE refresh.phase = "starting" /\ Acquire("start", NextQuestion)
  <2>1. NextQuestion \in Questions /\ NextQuestion \in Nat
    BY <1>3, NextQuestionIs, ReflectionConstants DEF PhaseOK
  <2> QED BY <1>1, <1>3, <2>1, AcquireInv DEF StateJobs
<1>4. CASE refresh.phase = "publishing" /\ Acquire("complete", refresh.fence.question)
  <2>1. refresh.fence.question \in Nat
    BY <1>4, TypeFacts, ReflectionConstants DEF PhaseOK, Attempting
  <2> QED BY <1>1, <1>4, <2>1, AcquireInv DEF StateJobs
<1>5. CASE /\ refresh.phase = "failing" /\ refresh.fence # Empty
           /\ Acquire("settle", refresh.fence.question)
  <2>1. refresh.fence.question \in Nat
    BY <1>5, TypeFacts, ReflectionConstants
  <2> QED BY <1>1, <1>5, <2>1, AcquireInv DEF StateJobs
<1> QED BY <1>2, <1>3, <1>4, <1>5 DEF RunAcquires

LEMMA OwnerInv ==
  ASSUME ReflectionInv, Owner
  PROVE  ReflectionInv'
<1> USE DEF ReflectionInv
<1>1. CASE Cancel
  <2>1. op' \in Operation /\ OperationOK'
    BY <1>1, CancellationIs DEF Cancel, TypeOK
  <2>2. refresh' \in Refresh /\ PhaseOK' /\ batches' \in Nat
    BY <1>1 DEF Cancel, TypeOK, PhaseOK
  <2> QED BY <1>1, <2>1, <2>2, RunLeaves DEF Cancel, TypeOK
<1>2. ASSUME NEW r \in Requests, Ask(r)
      PROVE  ReflectionInv'
  <2>1. op' \in Operation /\ OperationOK'
    <3>1. CASE op' = op
      BY <1>2, <3>1 DEF Ask, TypeOK, OperationOK
    <3>2. CASE op' = Cancelled(op)
      BY <1>2, <3>2, CancellationIs DEF Ask, TypeOK
    <3> QED BY <1>2, <3>1, <3>2 DEF Ask
  <2>2. refresh' \in Refresh /\ PhaseOK' /\ batches' \in Nat
    BY <1>2 DEF Ask, TypeOK, PhaseOK
  <2>3. job.kind # "set-enabled" /\ owner' \in Request
    BY <1>2, ReflectionConstants DEF Ask, JobOK, NoOwner
  <2> QED BY <1>2, <2>1, <2>2, <2>3, RunLeaves DEF Ask
<1>3. CASE OwnerAcquires
  <2>1. UNCHANGED <<disk, collection, memory, owner, runVars, faultVars>>
    BY <1>3 DEF OwnerAcquires
  <2>2. owner.kind \in {"enable", "disable"} => owner.question \in Questions
    BY DEF TypeOK, Request, NoOwner
  <2>3. \A q \in Questions : q \in Nat
    BY ReflectionConstants
  <2>4. CASE owner.kind \in {"enable", "disable"} /\ Acquire("set-enabled", owner.question)
    BY <2>1, <2>2, <2>3, <2>4, AcquireInv DEF StateJobs
  <2>5. CASE owner.kind = "delete-all" /\ Acquire("purge", 0)
    BY <2>1, <2>5, AcquireInv DEF StateJobs
  <2>6. CASE owner.kind = "confirm" /\ Acquire("settings", 1)
    BY <2>1, <2>6, AcquireInv DEF StateJobs
  <2> QED BY <1>3, <2>4, <2>5, <2>6 DEF OwnerAcquires
<1>4. CASE OwnerRejected
  <2>1. refresh' \in Refresh /\ op' \in Operation /\ PhaseOK' /\ OperationOK' /\ batches' \in Nat
    BY <1>4 DEF OwnerRejected, runVars, TypeOK, PhaseOK, OperationOK
  <2> QED BY <1>4, <2>1, RunLeaves DEF OwnerRejected, runVars, JobOK, Idle
<1>5. CASE Read
  BY <1>5, AcquireInv DEF Read, StateJobs
<1>6. ASSUME NEW g \in Games, ChangeNote(g)
      PROVE  ReflectionInv'
  BY <1>6, AcquireInv DEF ChangeNote, StateJobs
<1>7. CASE ChangeOther
  <2> USE DEF memory, runVars, faultVars
  <2>1. /\ collection' \in [rev : Nat, note : [Games -> Nat]]
        /\ collection'.rev = collection.rev + 1 /\ collection'.note = collection.note
    BY <1>7 DEF ChangeOther, TypeOK
  <2>2. UNCHANGED <<disk, context, live, validated, job, owner, refresh, op, batches, faults, crashes>>
        /\ job = Idle
    BY <1>7 DEF ChangeOther
  <2>3. TypeOK'
    BY <2>1, <2>2 DEF TypeOK
  <2>4. JobOK' /\ PhaseOK' /\ OperationOK'
    BY <2>2 DEF JobOK, PhaseOK, OperationOK, StepsOf
  <2>5. JournalOK'
    <3>1. disk.journal # Empty => disk.journal.prior \in Nat /\ disk.journal.target \in Nat
          /\ collection.rev \in Nat
      BY TypeFacts
    <3>2. \A s, t : Honest(s, t)' <=> Honest(s, t)
      BY <2>1, HonestStays
    <3>3. ASSUME disk.journal # Empty, disk.journal.kind = "source-purge"
          PROVE  /\ disk.journal.prior <= collection'.rev
                 /\ collection'.rev # disk.journal.prior
                 /\ collection'.rev = disk.journal.target => collection.rev = disk.journal.prior
      BY <2>1, <3>1, <3>3 DEF JournalOK
    <3> QED BY <2>2, <3>2, <3>3 DEF JournalOK, NoneRuns
  <2>6. StepOK'
    BY <2>2 DEF StepOK, At, Idle
  <2>7. HonestOK'
    BY <2>1, <2>2 DEF HonestOK, Honest, NotesCurrent
  <2>8. MemoryOK' /\ FenceOK'
    BY <2>2 DEF MemoryOK, FenceOK, Prospects, HoldsFence, Known, Within
  <2>9. UnfailingOK'
    BY <2>2 DEF UnfailingOK, LiveAttemptIsRunning, AttemptId, ShownOK, HoldsFence, Known
  <2> QED BY <2>3, <2>4, <2>5, <2>6, <2>7, <2>8, <2>9
<1>8. ASSUME NEW asked \in {Questions} \cup {{q} : q \in Questions}, RequestRefresh(asked)
      PROVE  ReflectionInv'
  <2>1. /\ refresh' \in Refresh /\ refresh'.phase = "admitted" /\ refresh'.fence = Empty
        /\ refresh'.result = None /\ batches' \in Nat
    <3>1. asked \in SUBSET Questions
      BY <1>8
    <3>2. batches' = batches + 1 /\ batches + 1 \in Nat
      BY <1>8 DEF RequestRefresh, TypeOK
    <3>3. refresh' = [phase |-> "admitted", batch |-> batches + 1, todo |-> asked, fence |-> Empty,
                      evidence |-> Empty, result |-> None, fenced |-> FALSE]
      BY <1>8 DEF RequestRefresh, NoRefresh
    <3> QED BY <3>1, <3>2, <3>3 DEF Refresh, Phases
  <2>2. refresh.phase = "idle" /\ op' = op /\ refresh.fence = Empty
    BY <1>8 DEF RequestRefresh, PhaseOK, Fenceless
  <2>3. PhaseOK'
    BY <2>1 DEF PhaseOK, Attempting
  <2>4. op' \in Operation /\ OperationOK'
    BY <2>1, <2>2 DEF OperationOK, TypeOK, NoOperation, None
  <2> QED BY <1>8, <2>1, <2>2, <2>3, <2>4, RunLeaves DEF RequestRefresh, TypeOK, faultVars
<1> QED BY <1>1, <1>2, <1>3, <1>4, <1>5, <1>6, <1>7, <1>8 DEF Owner

LEMMA RunInv ==
  ASSUME ReflectionInv, Run
  PROVE  ReflectionInv'
<1> USE DEF ReflectionInv
<1> DEFINE Rest == UNCHANGED <<disk, collection, memory, job, owner, batches, faultVars>>
<1>0. Rest => /\ owner' \in Request \cup {NoOwner} \cup [kind : {"confirm"}, question : Questions]
              /\ batches' \in Nat
  BY DEF TypeOK
<1>1. refresh \in Refresh /\ op \in Operation
  BY DEF TypeOK
<1> HIDE DEF Rest
<1>2. CASE BeginQuestion
  <2>1. Rest /\ refresh' = [refresh EXCEPT !.phase = "starting"] /\ op' = op /\ refresh.phase = "next"
    BY <1>2 DEF BeginQuestion, RunStep, Rest
  <2>2. /\ refresh' \in Refresh /\ refresh'.phase = "starting" /\ refresh'.fence = refresh.fence
        /\ refresh'.todo = refresh.todo /\ refresh'.result = refresh.result
    BY <1>1, <2>1 DEF Refresh, Phases
  <2>3. refresh.fence = Empty /\ PhaseOK'
    BY <2>1, <2>2 DEF PhaseOK, Fenceless, Attempting
  <2>4. op' \in Operation /\ OperationOK'
    BY <1>1, <2>1, <2>2 DEF OperationOK
  <2> QED BY <1>0, <2>1, <2>2, <2>3, <2>4, RunLeaves DEF Rest
<1>3. CASE GatherEvidence
  <2>1. PICK deps \in [Games -> {NoDependency, FactsOnly}] :
          /\ Rest /\ op' = op /\ refresh.phase = "evidence"
          /\ refresh' = [refresh EXCEPT !.phase = "model",
                                        !.evidence = [rev |-> collection.rev, deps |-> deps]]
    BY <1>3 DEF GatherEvidence, RunStep, Rest
  <2>2. [rev |-> collection.rev, deps |-> deps] \in Evidence
    BY TypeFacts DEF Evidence, NoDependency, FactsOnly
  <2>3. /\ refresh' \in Refresh /\ refresh'.phase = "model" /\ refresh'.fence = refresh.fence
        /\ refresh'.fenced = refresh.fenced /\ refresh'.result = refresh.result
        /\ refresh'.evidence \in Evidence
    BY <1>1, <2>1, <2>2 DEF Refresh, Phases
  <2>4. PhaseOK'
    BY <2>1, <2>3, ReflectionConstants DEF PhaseOK, Fenceless, Attempting
  <2>5. op' \in Operation /\ OperationOK'
    BY <1>1, <2>1, <2>3 DEF OperationOK
  <2> QED BY <1>0, <2>1, <2>3, <2>4, <2>5, RunLeaves DEF Rest, Attempting
<1>4. ASSUME NEW g \in Games, ModelReadsNote(g)
      PROVE  ReflectionInv'
  <2>1. /\ Rest /\ op' = op /\ refresh.phase = "model"
        /\ refresh' = [refresh EXCEPT !.evidence.deps[g] = collection.note[g]]
    BY <1>4 DEF ModelReadsNote, RunStep, Rest
  <2>2. refresh.evidence \in Evidence /\ collection.note[g] \in Nat
    BY <2>1, TypeFacts DEF PhaseOK
  <2>3. PICK e : e = [refresh.evidence EXCEPT !.deps[g] = collection.note[g]]
    OBVIOUS
  <2>4. e \in Evidence
    BY <2>2, <2>3 DEF Evidence
  <2>5. refresh' = [refresh EXCEPT !.evidence = e]
    BY <2>1, <2>3
  <2>6. /\ refresh' \in Refresh /\ refresh'.phase = "model" /\ refresh'.fence = refresh.fence
        /\ refresh'.fenced = refresh.fenced /\ refresh'.result = refresh.result
        /\ refresh'.evidence \in Evidence
    BY <1>1, <2>1, <2>4, <2>5 DEF Refresh, Phases
  <2>7. PhaseOK'
    BY <2>1, <2>6, ReflectionConstants DEF PhaseOK, Fenceless, Attempting
  <2>8. op' \in Operation /\ OperationOK'
    BY <1>1, <2>1, <2>6 DEF OperationOK
  <2> QED BY <1>0, <2>1, <2>6, <2>7, <2>8, RunLeaves DEF Rest, Attempting
<1>5. CASE Submit
  <2>1. /\ Rest /\ op' = Reserved(op, FALSE) /\ refresh.phase = "model"
        /\ op.state = "active" /\ ~op.reserved
        /\ refresh' = [refresh EXCEPT !.phase = "publishing"]
    BY <1>5 DEF Submit, RunStep, Rest, MayReserve
  <2>2. /\ refresh' \in Refresh /\ refresh'.phase = "publishing" /\ refresh'.fence = refresh.fence
        /\ refresh'.fenced = refresh.fenced /\ refresh'.result = refresh.result
        /\ refresh'.evidence = refresh.evidence
    BY <1>1, <2>1 DEF Refresh, Phases
  <2>3. PhaseOK'
    BY <2>1, <2>2 DEF PhaseOK, Fenceless, Attempting
  <2>4. /\ op' \in Operation /\ op'.reserved /\ ~op'.defers /\ op'.state = "active"
        /\ op'.attached = op.attached /\ op'.pending = op.pending
        /\ op'.outcome = op.outcome /\ op'.aborted = op.aborted
    BY <1>1, <2>1 DEF Reserved, Operation
  <2>5. OperationOK'
    BY <2>1, <2>2, <2>4 DEF OperationOK
  <2> QED BY <1>0, <2>1, <2>2, <2>3, <2>4, <2>5, RunLeaves DEF Rest, Attempting
<1>6. CASE RunFails
  <2>1. /\ Rest /\ op' = op /\ refresh' = Caught
        /\ refresh.phase \in {"evidence", "model", "next"}
    BY <1>6 DEF RunFails, RunStep, Rest
  <2>2. /\ refresh' \in Refresh /\ refresh'.phase = "failing" /\ refresh'.fence = refresh.fence
        /\ refresh'.fenced = refresh.fenced
        /\ refresh'.result = IF op.aborted THEN "cancelled" ELSE "failed"
    BY <1>1, <2>1 DEF Refresh, Phases, Caught
  <2>3. PhaseOK'
    BY <2>1, <2>2 DEF PhaseOK, Fenceless, Attempting
  <2>4. op' \in Operation /\ OperationOK'
    BY <1>1, <2>1, <2>2 DEF OperationOK
  <2> QED BY <1>0, <2>1, <2>2, <2>3, <2>4, RunLeaves DEF Rest
<1>7. CASE Published
  <2> DEFINE rest == refresh.todo \ {NextQuestion}
  <2>1. /\ Rest /\ refresh.phase = "published" /\ rest \in SUBSET Questions
        /\ op.state = "active" /\ op.reserved
    BY <1>1, <1>7 DEF Published, RunStep, Rest, Refresh, OperationOK
  <2>2. CASE rest = {}
    <3>1. /\ refresh' = [refresh EXCEPT !.phase = "ending", !.todo = rest, !.evidence = Empty,
                                        !.result = "completed"]
          /\ op' = Committed(op, "completed")
      BY <1>7, <2>2 DEF Published, RunStep
    <3> HIDE DEF rest
    <3>2. /\ refresh' \in Refresh /\ refresh'.phase = "ending" /\ refresh'.fence = refresh.fence
          /\ refresh'.result = "completed"
      BY <1>1, <2>1, <3>1 DEF Refresh, Phases
    <3>3. PhaseOK' /\ refresh.fence = Empty
      BY <2>1, <3>2 DEF PhaseOK, Fenceless, Attempting
    <3>4. /\ op' \in Operation /\ op'.state = "terminal" /\ op'.outcome = "completed"
          /\ ~op'.reserved /\ ~op'.defers /\ op'.pending = None /\ op'.attached = op.attached
      BY <1>1, <2>1, <3>1 DEF Committed, CommittedOutcome, Operation, Outcomes, OwnOutcomes, None
    <3>5. OperationOK'
      BY <3>2, <3>4 DEF OperationOK
    <3> QED BY <1>0, <2>1, <3>2, <3>3, <3>4, <3>5, RunLeaves DEF Rest
  <2>3. CASE rest # {}
    <3>1. /\ refresh' = [refresh EXCEPT !.phase = "next", !.todo = rest, !.evidence = Empty]
          /\ op' = Released(op)
      BY <1>7, <2>3 DEF Published, RunStep
    <3> HIDE DEF rest
    <3>2. /\ refresh' \in Refresh /\ refresh'.phase = "next" /\ refresh'.fence = refresh.fence
          /\ refresh'.result = refresh.result /\ refresh'.todo = rest
      BY <1>1, <2>1, <3>1 DEF Refresh, Phases
    <3>3. PhaseOK' /\ refresh.fence = Empty
      BY <2>1, <2>3, <3>2 DEF PhaseOK, Fenceless, Attempting
    <3>4. op' = [op EXCEPT !.reserved = FALSE, !.defers = FALSE, !.pending = None]
      BY <2>1, <3>1 DEF Released, OperationOK
    <3>5. /\ op' \in Operation /\ op'.state = "active" /\ op'.outcome = op.outcome
          /\ op'.aborted = op.aborted
          /\ ~op'.reserved /\ ~op'.defers /\ op'.pending = None /\ op'.attached = op.attached
      BY <1>1, <2>1, <3>4 DEF Operation, None
    <3>6. OperationOK'
      BY <2>1, <3>2, <3>5 DEF OperationOK
    <3> QED BY <1>0, <2>1, <3>2, <3>3, <3>5, <3>6, RunLeaves DEF Rest
  <2> QED BY <2>2, <2>3
<1>8. CASE SkipSettling
  <2>1. /\ Rest /\ op' = op /\ refresh.phase = "failing"
        /\ refresh' = [refresh EXCEPT !.phase = "ending"]
        /\ refresh.fence = Empty \/ (Rejects /\ job = Idle)
    BY <1>8 DEF SkipSettling, RunStep, Rest
  <2>2. /\ refresh' \in Refresh /\ refresh'.phase = "ending" /\ refresh'.fence = refresh.fence
        /\ refresh'.result = refresh.result /\ refresh'.fenced = refresh.fenced
    BY <1>1, <2>1 DEF Refresh, Phases
  <2>3. PhaseOK'
    BY <2>1, <2>2 DEF PhaseOK, Fenceless, Attempting
  <2>4. op' \in Operation /\ OperationOK'
    BY <1>1, <2>1, <2>2 DEF OperationOK
  <2>5. faults = 0 => refresh.fence = Empty
    BY <2>1 DEF UnfailingOK, Rejects
  <2> QED BY <1>0, <2>1, <2>2, <2>3, <2>4, <2>5, RunLeaves DEF Rest
<1>9. CASE RunRejected
  <2>1. Rest /\ Rejects /\ job = Idle /\ faults # 0
    BY <1>9 DEF RunRejected, RunStep, Rest, UnfailingOK, Rejects
  <2>2. CASE refresh.phase = "admitted" /\ RunStep(NoRefresh, op)
    <3>1. refresh' \in Refresh /\ refresh'.phase = "idle" /\ refresh'.fence = Empty
          /\ refresh'.result = None /\ op' = op
      BY <2>2 DEF RunStep, NoRefresh, Refresh, Phases
    <3>2. PhaseOK' /\ refresh.fence = Empty
      BY <2>2, <3>1 DEF PhaseOK, Fenceless, Attempting
    <3>3. op' \in Operation /\ OperationOK'
      BY <1>1, <2>2, <3>1 DEF OperationOK, NoOperation, None
    <3> QED BY <1>0, <2>1, <3>1, <3>2, <3>3, RunLeaves DEF Rest
  <2>3. CASE refresh.phase = "starting" /\ RunStep(Caught, op)
    <3>1. /\ refresh' \in Refresh /\ refresh'.phase = "failing" /\ refresh'.fence = refresh.fence
          /\ refresh'.result = (IF op.aborted THEN "cancelled" ELSE "failed") /\ op' = op
      BY <1>1, <2>3 DEF RunStep, Caught, Refresh, Phases
    <3>2. PhaseOK' /\ refresh.fence = Empty
      BY <2>3, <3>1 DEF PhaseOK, Fenceless, Attempting
    <3>3. op' \in Operation /\ OperationOK'
      BY <1>1, <2>3, <3>1 DEF OperationOK
    <3> QED BY <1>0, <2>1, <3>1, <3>2, <3>3, RunLeaves DEF Rest
  <2>4. CASE /\ refresh.phase = "publishing"
             /\ RunStep([refresh EXCEPT !.phase = "failing", !.result = "failed"], Released(op))
    <3>1. /\ refresh' \in Refresh /\ refresh'.phase = "failing" /\ refresh'.fence = refresh.fence
          /\ refresh'.result = "failed" /\ refresh'.fenced = refresh.fenced /\ op' = Released(op)
      BY <1>1, <2>4 DEF RunStep, Refresh, Phases
    <3>2. PhaseOK'
      BY <2>4, <3>1 DEF PhaseOK, Fenceless, Attempting
    <3>3. op' = [op EXCEPT !.reserved = FALSE, !.defers = FALSE, !.pending = None]
      BY <2>4, <3>1 DEF Released, OperationOK
    <3>4. /\ op' \in Operation /\ op'.state = op.state /\ op'.outcome = op.outcome
          /\ op'.aborted = op.aborted
          /\ ~op'.reserved /\ ~op'.defers /\ op'.pending = None /\ op'.attached = op.attached
      BY <1>1, <3>3 DEF Operation, None
    <3>5. OperationOK'
      BY <2>4, <3>1, <3>4 DEF OperationOK
    <3> QED BY <1>0, <2>1, <3>1, <3>2, <3>4, <3>5, RunLeaves DEF Rest
  <2> QED BY <1>9, <2>2, <2>3, <2>4 DEF RunRejected
<1>10. CASE EndRun
  <2>1. /\ Rest /\ refresh.phase = "ending" /\ refresh' = NoRefresh
        /\ op' = CleanedUp(Terminalized(op, "failed"))
    BY <1>10 DEF EndRun, RunStep, Rest
  <2>2. refresh' \in Refresh /\ refresh'.phase = "idle" /\ refresh'.fence = Empty
        /\ refresh'.result = None
    BY <2>1 DEF NoRefresh, Refresh, Phases
  <2>3. PhaseOK'
    BY <2>2 DEF PhaseOK, Attempting
  <2>4. op' = NoOperation
    <3>1. op.state \in {"active", "terminal"} /\ ~op.reserved /\ ~op.attached
      BY <1>1, <2>1 DEF OperationOK, Operation
    <3>2. PICK o : o = Terminalized(op, "failed")
      OBVIOUS
    <3>3. o.state = "terminal" /\ ~o.attached
      BY <1>1, <3>1, <3>2 DEF Terminalized, CommittedOutcome, Operation
    <3> QED BY <2>1, <3>2, <3>3 DEF CleanedUp
  <2>5. op' \in Operation /\ OperationOK'
    BY <2>2, <2>4 DEF OperationOK, NoOperation, Operation, None
  <2> QED BY <1>0, <2>1, <2>2, <2>3, <2>5, RunLeaves DEF Rest
<1> QED BY <1>2, <1>3, <1>4, <1>5, <1>6, <1>7, <1>8, <1>9, <1>10, RunAcquiresInv DEF Run
-------------------------------------------------------------------------------
(* Recovery *)

LEMMA FencingIs ==
  ASSUME TypeOK, UNCHANGED refresh \/ FenceRefresh \/ \E gen : Overtaken(gen)
  PROVE  /\ refresh' \in Refresh
         /\ refresh'.phase = refresh.phase /\ refresh'.batch = refresh.batch
         /\ refresh'.todo = refresh.todo /\ refresh'.fence = refresh.fence
         /\ refresh'.evidence = refresh.evidence /\ refresh'.result = refresh.result
<1>1. refresh \in Refresh
  BY DEF TypeOK
<1>2. CASE UNCHANGED refresh
  BY <1>1, <1>2
<1>3. CASE FenceRefresh
  <2>1. refresh' = [refresh EXCEPT !.fenced = refresh.fenced \/ refresh.fence # Empty]
    BY <1>3 DEF FenceRefresh
  <2> QED BY <1>1, <2>1 DEF Refresh
<1>4. ASSUME NEW gen, Overtaken(gen)
      PROVE  /\ refresh' \in Refresh
             /\ refresh'.phase = refresh.phase /\ refresh'.batch = refresh.batch
             /\ refresh'.todo = refresh.todo /\ refresh'.fence = refresh.fence
             /\ refresh'.evidence = refresh.evidence /\ refresh'.result = refresh.result
  <2>1. refresh' = [refresh EXCEPT !.fenced = \/ refresh.fenced
                                              \/ refresh.fence # Empty /\ refresh.fence.gen # gen]
    BY <1>4 DEF Overtaken
  <2> QED BY <1>1, <2>1 DEF Refresh
<1> QED BY <1>2, <1>3, <1>4

\* A state of another generation overtakes an attempt of this one.
LEMMA OvertakenIs ==
  ASSUME TypeOK, NEW gen, Overtaken(gen)
  PROVE  refresh'.fenced => refresh.fenced \/ refresh.fence.gen # gen
<1>1. refresh \in Refresh
  BY DEF TypeOK
<1>2. refresh' = [refresh EXCEPT !.fenced = \/ refresh.fenced
                                            \/ refresh.fence # Empty /\ refresh.fence.gen # gen]
  BY DEF Overtaken
<1> QED BY <1>1, <1>2 DEF Refresh

\* The operation goes on, in a recovery or a transaction.
Continues ==
  /\ job.kind # "none" /\ job'.kind = job.kind /\ job'.arg = job.arg
  /\ job'.resets = job.resets /\ job'.mode = job.mode
  /\ job'.step \in StepsOf(job.kind)
  /\ job.kind \in StateJobs \ {"set-enabled"} /\ job'.step \in RecoverySteps =>
       job.step \in RecoverySteps
  /\ job.mode = "failing" => job'.step \in {"compensate", "drop", "unlink"}
  /\ job'.step = "compensate" => job.step = "compensate"

\* A step brings no generation back, and marks an attempt only when its own is gone.
Overtakes ==
  Known /\ context.state.gen \in Prospects' =>
    /\ context.state.gen \in Prospects
    /\ refresh'.fenced => refresh.fenced \/ refresh.fence.gen # context.state.gen

LEMMA JobLeaves ==
  ASSUME ReflectionInv, UNCHANGED <<live, op, batches, faultVars>>,
         collection' \in [rev : Nat, note : [Games -> Nat]],
         UNCHANGED refresh \/ FenceRefresh \/ (\E gen : Overtaken(gen)),
         context' \in {context, Unread},
         disk' \in Disk, job' \in Job, job' = Idle \/ (Continues /\ UNCHANGED owner),
         owner' \in Request \cup {NoOwner} \cup [kind : {"confirm"}, question : Questions],
         validated' \in BOOLEAN, job'.kind = "startup" => validated' = validated,
         job'.kind \in {"startup", "note", "set-enabled"} \/ disk'.journal \in {disk.journal, Empty},
         job' = Idle => disk'.journal = Empty \/ job.mode = "failing",
         Overtakes
  PROVE  TypeOK' /\ JobOK' /\ PhaseOK' /\ OperationOK' /\ FenceOK' /\ UnfailingOK'
<1> USE DEF ReflectionInv, faultVars
<1>1. /\ refresh' \in Refresh
      /\ refresh'.phase = refresh.phase /\ refresh'.batch = refresh.batch
      /\ refresh'.todo = refresh.todo /\ refresh'.fence = refresh.fence
      /\ refresh'.evidence = refresh.evidence /\ refresh'.result = refresh.result
  BY FencingIs
<1>2. TypeOK'
  BY <1>1 DEF TypeOK
<1>3. PhaseOK' /\ OperationOK'
  BY <1>1 DEF PhaseOK, OperationOK
<1>4. JobOK'
  <2>1. CASE job' = Idle
    BY <2>1 DEF JobOK, Idle, StateJobs, RecoverySteps
  <2>2. CASE Continues /\ UNCHANGED owner
    BY <1>1, <2>2 DEF JobOK, Continues
  <2> QED BY <2>1, <2>2
<1>5. FenceOK'
  <2> SUFFICES ASSUME refresh'.fence # Empty, refresh'.fenced, Known',
                      HoldsFence(refresh.fence)', context'.state.gen \in Prospects'
               PROVE  FALSE
    BY <1>1 DEF FenceOK
  <2>1. context' = context /\ Known
    BY DEF Known
  <2>2. HoldsFence(refresh.fence)
    BY <1>1, <2>1 DEF HoldsFence
  <2>3. context.state.gen \in Prospects /\ refresh.fenced
    BY <2>1, <2>2 DEF Overtakes, HoldsFence
  <2> QED BY <1>1, <2>1, <2>2, <2>3 DEF FenceOK
<1>6. UnfailingOK'
  <2> SUFFICES ASSUME faults = 0
               PROVE  /\ context' # Broken /\ job'.mode # "failing"
                      /\ job'.kind \notin {"startup", "note", "set-enabled"} => disk'.journal = Empty
                      /\ LiveAttemptIsRunning' /\ (refresh'.phase = "ending" => live' = {})
                      /\ ShownOK'
    BY DEF UnfailingOK
  <2>1. context' # Broken
    BY ReflectionConstants DEF UnfailingOK
  <2>2. job'.mode # "failing" /\ job.mode # "failing"
    BY DEF UnfailingOK, Continues, Idle
  <2>3. job'.kind \notin {"startup", "note", "set-enabled"} => disk'.journal = Empty
    BY <2>2 DEF UnfailingOK, Continues, Idle
  <2>4. LiveAttemptIsRunning' /\ (refresh'.phase = "ending" => live' = {})
    BY <1>1 DEF UnfailingOK, LiveAttemptIsRunning, AttemptId
  <2>5. ShownOK'
    BY <1>1 DEF UnfailingOK, ShownOK, HoldsFence, Known
  <2> QED BY <2>1, <2>2, <2>3, <2>4, <2>5
<1> QED BY <1>2, <1>3, <1>4, <1>5, <1>6

\* Nothing is written but that files disappear.
LEMMA FilesDrop ==
  ASSUME ReflectionInv, disk'.state = disk.state, disk'.settings = disk.settings,
         disk'.journal \in {disk.journal, Empty}, disk'.stage => disk.stage,
         context' \in {context, Unread, Broken}, UNCHANGED collection
  PROVE  JournalOK' /\ MemoryOK'
<1> USE DEF ReflectionInv
<1>1. JournalOK'
  BY HonestStays DEF JournalOK, NoneRuns
<1>2. MemoryOK'
  BY DEF MemoryOK, Known, Within
<1> QED BY <1>1, <1>2

LEMMA DiskFacts ==
  ASSUME TypeOK
  PROVE  /\ disk.stage \in BOOLEAN /\ disk.settingsStage \in BOOLEAN
         /\ disk.journal \in Journal \cup {Empty}
BY DEF TypeOK, Disk

\* The recovery has left no journal, and an honest file or a startup that validates it.
LEMMA WorkBegins ==
  ASSUME ReflectionInv, TransactionRecovered \/ ToWork,
         job.step \in RecoverySteps, job.mode # "failing", job.kind # "none",
         UNCHANGED <<validated, collection, live, owner, refresh, op, batches, faultVars>>,
         disk' \in Disk, disk'.state = disk.state, disk'.settings = disk.settings,
         disk'.journal = Empty, disk'.stage => disk.stage,
         Honest(disk.state, disk.settings) \/ (job.kind = "startup" /\ TransactionRecovered)
  PROVE  ReflectionInv'
<1> USE DEF ReflectionInv
<1>1. job \in Job /\ job.kind \in StateJobs \cup {"startup", "note"}
  BY DEF TypeOK, Job
<1> DEFINE validates == job' = [job EXCEPT !.step = "validate"] /\ UNCHANGED context
           first == IF job.kind \in {"note", "set-enabled"} THEN "stage" ELSE "init"
           goes == /\ job.kind # "startup" /\ job' = [job EXCEPT !.step = first]
                   /\ context' = IF job.resets THEN Unread ELSE context
           ends == job.kind = "startup" /\ job' = Idle /\ context' \in {Unread, context}
<1>2. validates \/ goes \/ ends
  BY <1>1 DEF TransactionRecovered, ToWork, GoTo
<1>3. CASE validates
  <2>1. /\ job' \in Job /\ job'.step = "validate" /\ job'.kind = job.kind /\ job'.arg = job.arg
        /\ job'.resets = job.resets /\ job'.mode = job.mode /\ context' = context
    BY <1>1, <1>3 DEF Job, Steps
  <2>2. Continues
    BY <2>1 DEF Continues, RecoverySteps, StepsOf
  <2>3. Overtakes
    BY DEF Overtakes, Prospects
  <2>4. TypeOK' /\ JobOK' /\ PhaseOK' /\ OperationOK' /\ FenceOK' /\ UnfailingOK'
    BY <2>1, <2>2, <2>3, JobLeaves DEF TypeOK, JobOK, Idle, Continues
  <2>5. JournalOK' /\ MemoryOK'
    BY <2>1, FilesDrop
  <2>6. StepOK'
    BY <2>1 DEF StepOK, At
  <2>7. HonestOK'
    BY <2>1, HonestStays DEF HonestOK
  <2> QED BY <2>4, <2>5, <2>6, <2>7
<1>4. CASE goes
  <2>1. /\ job' \in Job /\ job'.step = first /\ job'.kind = job.kind /\ job'.arg = job.arg
        /\ job'.resets = job.resets /\ job'.mode = job.mode
        /\ context' = IF job.resets THEN Unread ELSE context
    BY <1>1, <1>4 DEF Job, Steps
  <2>2. Continues
    BY <1>1, <1>4, <2>1 DEF Continues, RecoverySteps, StepsOf, StateJobs
  <2>3. Overtakes
    BY DEF Overtakes, Prospects
  <2>4. TypeOK' /\ JobOK' /\ PhaseOK' /\ OperationOK' /\ FenceOK' /\ UnfailingOK'
    BY <1>4, <2>1, <2>2, <2>3, JobLeaves DEF TypeOK, JobOK, Idle, Continues
  <2>5. JournalOK' /\ MemoryOK'
    BY <2>1, FilesDrop
  <2>6. job'.step = "init" => job.resets
    BY <1>1, <1>4, <2>1 DEF JobOK, StateJobs
  <2>7. StepOK'
    BY <2>1, <2>6 DEF StepOK, At
  <2>8. HonestOK'
    BY <1>4, HonestStays DEF HonestOK
  <2> QED BY <2>4, <2>5, <2>7, <2>8
<1>5. CASE ends
  <2>1. Overtakes
    BY DEF Overtakes, Prospects
  <2>2. job' \in Job
    BY <1>5 DEF Idle, Job, Steps
  <2>3. TypeOK' /\ JobOK' /\ PhaseOK' /\ OperationOK' /\ FenceOK' /\ UnfailingOK'
    BY <1>5, <2>1, <2>2, JobLeaves DEF TypeOK, Idle
  <2>4. JournalOK' /\ MemoryOK'
    BY <1>5, FilesDrop
  <2>5. StepOK'
    BY <1>5 DEF StepOK, At, Idle
  <2>6. Honest(disk.state, disk.settings)
    BY <1>1, <1>5 DEF TransactionRecovered, JobOK, GoTo, Job, Idle
  <2>7. HonestOK'
    BY <2>6, HonestStays DEF HonestOK
  <2> QED BY <2>3, <2>4, <2>5, <2>7
<1> QED BY <1>2, <1>3, <1>4, <1>5

\* The stage is renamed over the state.
LEMMA PromotedIs ==
  ASSUME ReflectionInv, Promoted, disk.journal # Empty, disk.stage,
         UNCHANGED <<collection, context>>
  PROVE  /\ disk' \in Disk /\ disk'.state = disk.journal.staged /\ ~disk'.stage
         /\ disk'.journal = disk.journal /\ disk'.settings = disk.settings
         /\ disk'.settingsStage = disk.settingsStage
         /\ \E gen : Overtaken(gen)
         /\ Overtakes /\ JournalOK' /\ MemoryOK'
<1> USE DEF ReflectionInv
<1>1. /\ disk' \in Disk /\ disk'.state = disk.journal.staged /\ ~disk'.stage
      /\ disk'.journal = disk.journal /\ disk'.settings = disk.settings
      /\ disk'.settingsStage = disk.settingsStage
  <2>1. disk' = [disk EXCEPT !.state = disk.journal.staged, !.stage = FALSE]
    BY DEF Promoted
  <2> QED BY <2>1, TypeFacts DEF Disk
<1>2. Overtaken(disk.journal.staged.gen)
  BY DEF Promoted
<1>3. Overtakes
  BY <1>1, <1>2, OvertakenIs DEF Overtakes, Prospects
<1>4. JournalOK'
  BY <1>1, HonestStays DEF JournalOK, NoneRuns
<1>5. MemoryOK'
  BY <1>1 DEF MemoryOK, Known, Within
<1> QED BY <1>1, <1>2, <1>3, <1>4, <1>5

LEMMA SettingsPromotedIs ==
  ASSUME ReflectionInv, disk.journal # Empty, disk.journal.kind = "settings",
         ~disk.stage, disk.state = disk.journal.staged,
         disk' = [disk EXCEPT !.settings = disk.journal.settings, !.settingsStage = FALSE],
         UNCHANGED <<collection, context>>
  PROVE  /\ disk' \in Disk /\ disk'.state = disk.state /\ ~disk'.stage
         /\ disk'.journal = disk.journal /\ disk'.settings = disk.journal.settings
         /\ JournalOK' /\ MemoryOK'
<1> USE DEF ReflectionInv
<1>1. /\ disk' \in Disk /\ disk'.state = disk.state /\ ~disk'.stage
      /\ disk'.journal = disk.journal /\ disk'.settings = disk.journal.settings
  BY TypeFacts DEF Disk
<1>2. JournalOK'
  BY <1>1, HonestStays DEF JournalOK
<1>3. MemoryOK'
  BY <1>1 DEF MemoryOK, Known, Within
<1> QED BY <1>1, <1>2, <1>3

\* The recovery of a journal goes on to its next step.
LEMMA RecoveryGoes ==
  ASSUME ReflectionInv, NEW step \in {"reset", "drop", "unlink"}, GoTo(step),
         job.step \in RecoverySteps \cup {"compensate"}, disk.journal # Empty,
         step = "reset" => job.step = "recover",
         step \in {"drop", "unlink"} => Honest(disk.state, disk.settings),
         UNCHANGED <<disk, context, validated, collection, live, owner, refresh, op, batches,
                     faultVars>>
  PROVE  ReflectionInv'
<1> USE DEF ReflectionInv
<1>1. /\ job' \in Job /\ job'.step = step /\ job'.kind = job.kind /\ job'.arg = job.arg
      /\ job'.resets = job.resets /\ job'.mode = job.mode
  BY DEF GoTo, TypeOK, Job, Steps
<1>2. Continues
  <2>1. job.kind # "none" /\ job.step \in StepsOf(job.kind)
    BY DEF JobOK, Idle, RecoverySteps
  <2>2. job.step = "compensate" => job.kind = "note"
    BY DEF JobOK
  <2>3. job.mode = "failing" => job.step # "recover"
    BY DEF JobOK
  <2> QED BY <1>1, <2>1, <2>2, <2>3 DEF Continues, RecoverySteps, StepsOf, StateJobs
<1>3. Overtakes
  BY DEF Overtakes, Prospects
<1>4. job'.kind \in {"startup", "note", "set-enabled"} \/ disk'.journal = disk.journal
  OBVIOUS
<1>5. TypeOK' /\ JobOK' /\ PhaseOK' /\ OperationOK' /\ FenceOK' /\ UnfailingOK'
  BY <1>1, <1>2, <1>3, JobLeaves DEF TypeOK, JobOK, Idle, Continues
<1>6. JournalOK' /\ MemoryOK'
  BY FilesDrop
<1>7. StepOK'
  BY <1>1, HonestStays DEF StepOK, At
<1>8. HonestOK'
  BY DEF HonestOK
<1> QED BY <1>5, <1>6, <1>7, <1>8

LEMMA RecoveryInv ==
  ASSUME ReflectionInv, Recovery
  PROVE  ReflectionInv'
<1> USE DEF ReflectionInv
<1>0. /\ UNCHANGED <<collection, live, owner, op, batches, faultVars>>
      /\ collection' \in [rev : Nat, note : [Games -> Nat]]
      /\ owner' \in Request \cup {NoOwner} \cup [kind : {"confirm"}, question : Questions]
      /\ validated \in BOOLEAN /\ job \in Job
  BY DEF Recovery, TypeOK
<1>1. CASE UNCHANGED validated /\ RecoverNothing
  <2>1. disk' = [disk EXCEPT !.stage = FALSE, !.settingsStage = FALSE]
        /\ job.step = "recover" /\ disk.journal = Empty /\ TransactionRecovered /\ UNCHANGED refresh
    BY <1>1 DEF RecoverNothing
  <2>2. /\ disk' \in Disk /\ disk'.state = disk.state /\ disk'.settings = disk.settings
        /\ disk'.journal = Empty /\ ~disk'.stage
    BY <2>1, TypeFacts DEF Disk
  <2>3. job.mode # "failing" /\ job.kind # "none"
    BY <2>1 DEF JobOK, Idle
  <2>4. Honest(disk.state, disk.settings) \/ (job.kind = "startup" /\ TransactionRecovered)
    BY <2>1 DEF HonestOK
  <2> QED BY <1>0, <1>1, <2>1, <2>2, <2>3, <2>4, WorkBegins DEF RecoverySteps
<1>2. CASE UNCHANGED validated /\ RecoverSource
  <2>1. /\ disk.journal # Empty /\ UNCHANGED context
        /\ job.step = "compensate" \/ (job.step = "recover" /\ disk.journal.kind = "source-purge")
    BY <1>2 DEF RecoverSource
  <2>2. disk.journal.kind \in {"source-purge", "settings"}
    BY <2>1, TypeFacts
  <2>3. CASE SourceIsPrior /\ GoTo("drop") /\ UNCHANGED <<disk, refresh>>
    <3>1. Honest(disk.state, disk.settings)
      BY <2>1, <2>2, <2>3 DEF SourceIsPrior, JournalOK
    <3> QED BY <1>0, <1>2, <2>1, <2>3, <3>1, RecoveryGoes DEF RecoverySteps
  <2>4. CASE disk.stage /\ Promoted /\ UNCHANGED job /\ SourceIsTarget
    <3>1. /\ disk' \in Disk /\ disk'.state = disk.journal.staged /\ ~disk'.stage
          /\ disk'.journal = disk.journal /\ disk'.settings = disk.settings
          /\ \E gen : Overtaken(gen)
          /\ Overtakes /\ JournalOK' /\ MemoryOK'
      BY <1>0, <2>1, <2>4, PromotedIs
    <3>2. Continues
      BY <2>1, <2>4 DEF Continues, JobOK, Idle, RecoverySteps
    <3>3. TypeOK' /\ JobOK' /\ PhaseOK' /\ OperationOK' /\ FenceOK' /\ UnfailingOK'
      BY <1>0, <1>2, <2>1, <2>4, <3>1, <3>2, JobLeaves DEF JobOK, Idle
    <3>4. StepOK' /\ HonestOK'
      BY <2>1, <2>4, <3>1 DEF StepOK, HonestOK, At
    <3> QED BY <3>1, <3>3, <3>4
  <2>5. CASE AlreadyPromoted /\ SourceIsTarget /\ GoTo("unlink") /\ UNCHANGED <<disk, refresh>>
    <3>1. Honest(disk.state, disk.settings)
      BY <2>1, <2>2, <2>5 DEF AlreadyPromoted, SourceIsTarget, JournalOK
    <3> QED BY <1>0, <1>2, <2>1, <2>5, <3>1, RecoveryGoes DEF RecoverySteps
  <2>6. CASE /\ IF job.step = "compensate" THEN job' = Idle ELSE GoTo("reset")
             /\ UNCHANGED <<disk, refresh>>
    <3>1. CASE job.step = "compensate"
      <4>0. job' = Idle /\ job.mode = "failing" /\ disk' \in Disk
        BY <2>6, <3>1, TypeFacts DEF JobOK
      <4>1. job' \in Job
        BY <4>0 DEF Idle, Job, Steps
      <4>2. Overtakes
        BY <2>6 DEF Overtakes, Prospects
      <4>3. TypeOK' /\ JobOK' /\ PhaseOK' /\ OperationOK' /\ FenceOK' /\ UnfailingOK'
        BY <1>0, <1>2, <2>1, <2>6, <4>0, <4>1, <4>2, JobLeaves DEF Idle
      <4>4. JournalOK' /\ MemoryOK'
        BY <1>0, <2>1, <2>6, FilesDrop
      <4>5. StepOK' /\ HonestOK'
        BY <2>1, <2>6, <4>0 DEF StepOK, HonestOK, At, Idle
      <4> QED BY <4>3, <4>4, <4>5
    <3>2. CASE job.step # "compensate"
      BY <1>0, <1>2, <2>1, <2>6, <3>2, RecoveryGoes DEF RecoverySteps
    <3> QED BY <3>1, <3>2
  <2> QED BY <1>2, <2>3, <2>4, <2>5, <2>6 DEF RecoverSource
<1>3. CASE UNCHANGED validated /\ CompensateNothing
  <2>1. /\ job.step = "compensate" /\ disk.journal = Empty /\ job' = Idle
        /\ UNCHANGED <<disk, context, refresh>>
    BY <1>3 DEF CompensateNothing
  <2>2. job' \in Job /\ disk' \in Disk
    BY <2>1, TypeFacts DEF Idle, Job, Steps
  <2>3. Overtakes
    BY <2>1 DEF Overtakes, Prospects
  <2>4. TypeOK' /\ JobOK' /\ PhaseOK' /\ OperationOK' /\ FenceOK' /\ UnfailingOK'
    BY <1>0, <1>3, <2>1, <2>2, <2>3, JobLeaves DEF Idle
  <2>5. JournalOK' /\ MemoryOK'
    BY <1>0, <2>1, FilesDrop
  <2>6. Honest(disk.state, disk.settings)
    BY <2>1 DEF HonestOK
  <2>7. StepOK' /\ HonestOK'
    BY <1>0, <2>1, <2>6, HonestStays DEF StepOK, HonestOK, At, Idle
  <2> QED BY <2>4, <2>5, <2>7
<1>4. CASE UNCHANGED validated /\ RecoverSettings
  <2> DEFINE j == disk.journal
             settingsPromoted == ~disk.settingsStage /\ disk.settings = j.settings
  <2>1. job.step = "recover" /\ j # Empty /\ j.kind = "settings" /\ UNCHANGED context
    BY <1>4 DEF RecoverSettings
  <2>2. CASE disk.stage /\ Promoted /\ UNCHANGED job
    <3>1. /\ disk' \in Disk /\ disk'.state = disk.journal.staged /\ ~disk'.stage
          /\ disk'.journal = disk.journal /\ disk'.settings = disk.settings
          /\ \E gen : Overtaken(gen)
          /\ Overtakes /\ JournalOK' /\ MemoryOK'
      BY <1>0, <2>1, <2>2, PromotedIs
    <3>2. Continues
      BY <2>1, <2>2 DEF Continues, JobOK, Idle, RecoverySteps
    <3>3. TypeOK' /\ JobOK' /\ PhaseOK' /\ OperationOK' /\ FenceOK' /\ UnfailingOK'
      BY <1>0, <1>4, <2>1, <2>2, <3>1, <3>2, JobLeaves DEF JobOK, Idle
    <3>4. StepOK' /\ HonestOK'
      BY <2>1, <2>2, <3>1 DEF StepOK, HonestOK, At
    <3> QED BY <3>1, <3>3, <3>4
  <2>3. CASE /\ AlreadyPromoted /\ disk.settingsStage
             /\ disk' = [disk EXCEPT !.settings = disk.journal.settings, !.settingsStage = FALSE]
             /\ UNCHANGED <<job, refresh>>
    <3>1. /\ disk' \in Disk /\ disk'.state = disk.state /\ ~disk'.stage
          /\ disk'.journal = disk.journal /\ JournalOK' /\ MemoryOK'
      BY <1>0, <2>1, <2>3, SettingsPromotedIs DEF AlreadyPromoted
    <3>2. Continues /\ Overtakes
      BY <2>1, <2>3, <3>1 DEF Continues, JobOK, Idle, RecoverySteps, Overtakes, Prospects
    <3>3. TypeOK' /\ JobOK' /\ PhaseOK' /\ OperationOK' /\ FenceOK' /\ UnfailingOK'
      BY <1>0, <1>4, <2>1, <2>3, <3>1, <3>2, JobLeaves DEF JobOK, Idle
    <3>4. StepOK' /\ HonestOK'
      BY <2>1, <2>3, <3>1 DEF StepOK, HonestOK, At
    <3> QED BY <3>1, <3>3, <3>4
  <2>4. CASE AlreadyPromoted /\ settingsPromoted /\ GoTo("drop") /\ UNCHANGED <<disk, refresh>>
    <3>1. Honest(disk.state, disk.settings)
      BY <2>1, <2>4 DEF AlreadyPromoted, JournalOK
    <3> QED BY <1>0, <1>4, <2>1, <2>4, <3>1, RecoveryGoes DEF RecoverySteps
  <2>5. CASE ~disk.stage /\ GoTo("reset") /\ UNCHANGED <<disk, refresh>>
    BY <1>0, <1>4, <2>1, <2>5, RecoveryGoes DEF RecoverySteps
  <2> QED BY <1>4, <2>2, <2>3, <2>4, <2>5 DEF RecoverSettings
<1>5. CASE UNCHANGED validated /\ Reset
  <2>1. PICK s : s = EmptyState(NewGeneration)
    OBVIOUS
  <2>2. /\ job.step = "reset" /\ disk' = [disk EXCEPT !.state = s]
        /\ IF disk.journal # Empty /\ disk.journal.kind = "settings" /\ disk.stage
           THEN UNCHANGED refresh ELSE FenceRefresh
        /\ GoTo("drop") /\ UNCHANGED context
    BY <1>5, <2>1 DEF Reset
  <2>3. /\ s \in State /\ s.gen = NewGeneration /\ \A q \in Questions : s.entry[q].cache = Empty
    BY <2>1, NewIsNew, EmptyStateIs
  <2>4. /\ disk' \in Disk /\ disk'.state = s /\ disk'.stage = disk.stage
        /\ disk'.journal = disk.journal /\ disk'.settings = disk.settings
    BY <2>2, <2>3, TypeFacts DEF Disk
  <2>5. /\ job' \in Job /\ job'.step = "drop" /\ job'.kind = job.kind /\ job'.arg = job.arg
        /\ job'.resets = job.resets /\ job'.mode = job.mode
    BY <1>0, <2>2 DEF GoTo, Job, Steps
  <2>6. Continues
    BY <2>2, <2>5 DEF Continues, JobOK, Idle, RecoverySteps, StepsOf
  <2>7. Overtakes
    <3>1. Known => context.state.gen # disk'.state.gen
      BY <2>3, <2>4, NewIsNew
    <3>2. CASE disk.journal # Empty /\ disk.journal.kind = "settings" /\ disk.stage
      BY <2>2, <2>4, <3>1, <3>2 DEF Overtakes, Prospects
    <3>3. CASE disk.journal # Empty /\ disk.journal.kind = "source-purge" /\ disk.stage
      BY <2>4, <3>1, <3>3 DEF Overtakes, Prospects, MemoryOK
    <3>4. CASE disk.journal = Empty \/ ~disk.stage
      BY <2>4, <3>1, <3>4 DEF Overtakes, Prospects
    <3> QED BY <3>2, <3>3, <3>4, TypeFacts
  <2>8. TypeOK' /\ JobOK' /\ PhaseOK' /\ OperationOK' /\ FenceOK' /\ UnfailingOK'
    BY <1>0, <1>5, <2>2, <2>4, <2>5, <2>6, <2>7, JobLeaves DEF JobOK, Idle, Continues
  <2>9. JournalOK'
    BY <1>0, <2>4, HonestStays DEF JournalOK, NoneRuns
  <2>10. MemoryOK'
    BY <2>2, <2>3, <2>4, NewIsNew DEF MemoryOK, Known, Within
  <2>11. Honest(s, disk.settings)
    BY <2>3 DEF Honest
  <2>12. StepOK' /\ HonestOK'
    BY <1>0, <2>4, <2>5, <2>11, HonestStays DEF StepOK, HonestOK, At
  <2> QED BY <2>8, <2>9, <2>10, <2>12
<1>6. CASE UNCHANGED validated /\ DropStages
  <2>1. /\ job.step = "drop" /\ disk' = [disk EXCEPT !.stage = FALSE, !.settingsStage = FALSE]
        /\ Overtaken(disk.state.gen) /\ GoTo("unlink") /\ UNCHANGED context
    BY <1>6 DEF DropStages
  <2>2. /\ disk' \in Disk /\ disk'.state = disk.state /\ ~disk'.stage
        /\ disk'.journal = disk.journal /\ disk'.settings = disk.settings
    BY <2>1, TypeFacts DEF Disk
  <2>3. /\ job' \in Job /\ job'.step = "unlink" /\ job'.kind = job.kind /\ job'.arg = job.arg
        /\ job'.resets = job.resets /\ job'.mode = job.mode
    BY <1>0, <2>1 DEF GoTo, Job, Steps
  <2>4. Continues
    BY <2>1, <2>3 DEF Continues, JobOK, Idle, RecoverySteps, StepsOf
  <2>5. Overtakes
    BY <2>1, <2>2, OvertakenIs DEF Overtakes, Prospects
  <2>6. TypeOK' /\ JobOK' /\ PhaseOK' /\ OperationOK' /\ FenceOK' /\ UnfailingOK'
    BY <1>0, <1>6, <2>1, <2>2, <2>3, <2>4, <2>5, JobLeaves DEF JobOK, Idle, Continues
  <2>7. JournalOK' /\ MemoryOK'
    BY <1>0, <2>1, <2>2, FilesDrop
  <2>8. StepOK' /\ HonestOK'
    BY <1>0, <2>1, <2>2, <2>3, HonestStays DEF StepOK, HonestOK, At
  <2> QED BY <2>6, <2>7, <2>8
<1>7. CASE UNCHANGED validated /\ UnlinkJournal
  <2>1. /\ job.step = "unlink" /\ UNCHANGED refresh
        /\ disk' = [disk EXCEPT !.journal = Empty, !.stage = FALSE, !.settingsStage = FALSE]
    BY <1>7 DEF UnlinkJournal
  <2>2. /\ disk' \in Disk /\ disk'.state = disk.state /\ disk'.settings = disk.settings
        /\ disk'.journal = Empty /\ ~disk'.stage
    BY <2>1, TypeFacts DEF Disk
  <2>3. Honest(disk.state, disk.settings) /\ job.kind # "none"
    BY <2>1 DEF StepOK, JobOK, Idle
  <2>4. CASE job.mode = "failing"
    <3>1. job' = Idle /\ UNCHANGED context
      BY <1>7, <2>4 DEF UnlinkJournal
    <3>2. job' \in Job /\ Overtakes
      BY <2>1, <2>2, <3>1 DEF Idle, Job, Steps, Overtakes, Prospects
    <3>3. TypeOK' /\ JobOK' /\ PhaseOK' /\ OperationOK' /\ FenceOK' /\ UnfailingOK'
      BY <1>0, <1>7, <2>1, <2>2, <3>1, <3>2, JobLeaves DEF Idle
    <3>4. JournalOK' /\ MemoryOK'
      BY <1>0, <2>2, <3>1, FilesDrop
    <3>5. StepOK' /\ HonestOK'
      BY <1>0, <2>2, <2>3, <3>1, HonestStays DEF StepOK, HonestOK, At, Idle
    <3> QED BY <3>3, <3>4, <3>5
  <2>5. CASE job.mode # "failing"
    <3>1. TransactionRecovered \/ ToWork
      BY <1>7, <2>5 DEF UnlinkJournal
    <3> QED BY <1>0, <1>7, <2>1, <2>2, <2>3, <2>5, <3>1, WorkBegins DEF RecoverySteps
  <2> QED BY <2>4, <2>5
<1>8. CASE ValidateStartup
  <2>1. PICK s : s = Validated
    OBVIOUS
  <2>2. /\ job.step = "validate" /\ disk' = [disk EXCEPT !.state = s] /\ validated' = TRUE
        /\ IF s.gen # disk.state.gen THEN FenceRefresh ELSE UNCHANGED refresh
        /\ ToWork
    BY <1>8, <2>1 DEF ValidateStartup
  <2>3. /\ s \in State /\ s.gen \in {disk.state.gen, NewGeneration} /\ Honest(s, disk.settings)
    BY <2>1, ValidatedIs
  <2>4. /\ disk' \in Disk /\ disk'.state = s /\ disk'.settings = disk.settings
        /\ disk'.journal = Empty /\ disk.journal = Empty
    BY <2>2, <2>3, TypeFacts DEF Disk, StepOK
  <2> DEFINE first == IF job.kind \in {"note", "set-enabled"} THEN "stage" ELSE "init"
  <2>5. job' = IF job.kind = "startup" THEN Idle ELSE [job EXCEPT !.step = first]
    BY <2>2 DEF ToWork
  <2>6. context' = IF job.resets THEN Unread ELSE context
    BY <2>2 DEF ToWork
  <2>7. job' \in Job /\ (job' = Idle \/ (Continues /\ job'.step = first))
    <3>1. CASE job.kind = "startup"
      BY <2>5, <3>1 DEF Idle, Job, Steps
    <3>2. CASE job.kind # "startup"
      <4>1. /\ job' \in Job /\ job'.step = first /\ job'.kind = job.kind /\ job'.arg = job.arg
            /\ job'.resets = job.resets /\ job'.mode = job.mode
        BY <1>0, <2>5, <3>2 DEF Job, Steps
      <4>2. job.kind # "none" /\ job.mode # "failing" /\ job.kind \in StateJobs \cup {"note"}
        BY <1>0, <2>2, <3>2 DEF JobOK, Idle, Job
      <4> QED BY <4>1, <4>2 DEF Continues, RecoverySteps, StepsOf, StateJobs
    <3> QED BY <3>1, <3>2
  <2>8. UNCHANGED refresh \/ FenceRefresh
    BY <2>2
  <2>9. Overtakes
    BY <2>2, <2>3, <2>4, NewIsNew DEF Overtakes, Prospects
  <2>10. job'.kind # "startup"
    BY <2>5, <2>7 DEF Idle, Continues
  <2>11. TypeOK' /\ JobOK' /\ PhaseOK' /\ OperationOK' /\ FenceOK' /\ UnfailingOK'
    BY <1>0, <2>2, <2>4, <2>6, <2>7, <2>8, <2>9, <2>10, JobLeaves
  <2>12. JournalOK' /\ HonestOK'
    BY <1>0, <2>3, <2>4, HonestStays DEF JournalOK, HonestOK
  <2>13. MemoryOK'
    BY <2>3, <2>4, <2>6, NewIsNew DEF MemoryOK, Known, Within
  <2>14. first = "init" /\ job' # Idle => job.resets
    BY <1>0, <2>2, <2>5 DEF JobOK, Job, Idle, RecoverySteps
  <2>15. StepOK'
    BY <2>4, <2>6, <2>7, <2>14 DEF StepOK, At, Idle
  <2> QED BY <2>11, <2>12, <2>13, <2>15
<1> QED BY <1>1, <1>2, <1>3, <1>4, <1>5, <1>6, <1>7, <1>8 DEF Recovery
-------------------------------------------------------------------------------
(* The work on the state *)

LEMMA SavesIs ==
  ASSUME TypeOK, Known, NEW s \in State, Saves(s)
  PROVE  /\ disk' \in Disk /\ disk'.state = s /\ disk'.stage = disk.stage
         /\ disk'.journal = disk.journal /\ disk'.settings = disk.settings
         /\ context' \in Context /\ context'.state = s /\ context'.settings = context.settings
         /\ Known'
<1>1. disk' = [disk EXCEPT !.state = s] /\ context' = [context EXCEPT !.state = s]
  BY DEF Saves
<1>2. disk \in Disk /\ context \in Context
  BY TypeFacts
<1>3. /\ disk' \in Disk /\ disk'.state = s /\ disk'.stage = disk.stage
      /\ disk'.journal = disk.journal /\ disk'.settings = disk.settings
  BY <1>1, <1>2 DEF Disk
<1>4. context' \in Context /\ context'.state = s /\ context'.settings = context.settings
  BY <1>1, <1>2 DEF Context
<1>5. Known'
  BY <1>4, ReflectionConstants DEF Known
<1> QED BY <1>3, <1>4, <1>5

\* What memory and the file hold when the operation proper runs.
LEMMA BodyFacts ==
  ASSUME ReflectionInv, job.step = "body"
  PROVE  /\ Known /\ context \in Context /\ context.state = disk.state
         /\ context.settings \in [Questions -> BOOLEAN]
         /\ context.state \in State /\ Within(context.settings, disk.settings)
         /\ job.kind \in StateJobs \ {"set-enabled"} /\ job # Idle
         /\ disk.journal = Empty => Honest(context.state, disk.settings)
         /\ faults = 0 => disk.journal = Empty
         /\ refresh.fence # Empty /\ refresh.fenced => ~HoldsFence(refresh.fence)
<1> USE DEF ReflectionInv
<1>1. Known /\ context.state = disk.state
  BY DEF StepOK
<1>2. /\ context \in Context /\ context.settings \in [Questions -> BOOLEAN]
      /\ context.state \in State /\ Within(context.settings, disk.settings)
  BY <1>1, TypeFacts DEF MemoryOK
<1>3. job.kind \in StateJobs \ {"set-enabled"} /\ job # Idle
  BY DEF TypeOK, Job, JobOK, StepsOf, RecoverySteps, Idle
<1>4. disk.journal = Empty => Honest(context.state, disk.settings)
  BY <1>1, <1>3 DEF HonestOK, StateJobs
<1>5. faults = 0 => disk.journal = Empty
  BY <1>3 DEF UnfailingOK, StateJobs
<1>6. refresh.fence # Empty /\ refresh.fenced => ~HoldsFence(refresh.fence)
  BY <1>1 DEF FenceOK, Prospects
<1> QED BY <1>1, <1>2, <1>3, <1>4, <1>5, <1>6

\* The operation is done, and has saved at most a state as honest as the one before.
LEMMA BodyEnds ==
  ASSUME ReflectionInv, job.step = "body", job' = Idle,
         UNCHANGED <<collection, validated, batches, faultVars>>,
         \/ UNCHANGED <<disk, context>>
         \/ \E s \in State : /\ Saves(s) /\ s.gen \in {disk.state.gen, NewGeneration}
                             /\ disk.journal = Empty => Honest(s, disk.settings),
         live' \subseteq Nat \X Questions, refresh' \in Refresh, op' \in Operation,
         batches' \in Nat,
         owner' \in Request \cup {NoOwner} \cup [kind : {"confirm"}, question : Questions]
  PROVE  TypeOK' /\ JobOK' /\ JournalOK' /\ StepOK' /\ HonestOK' /\ MemoryOK'
<1> USE DEF ReflectionInv, faultVars
<1>1. job' \in Job
  BY DEF Idle, Job, Steps
<1>2. JobOK'
  BY DEF JobOK, Idle, StateJobs, RecoverySteps
<1>3. StepOK'
  BY DEF StepOK, At, Idle
<1>4. CASE UNCHANGED <<disk, context>>
  <2>1. TypeOK'
    BY <1>1, <1>4 DEF TypeOK
  <2>2. JournalOK' /\ MemoryOK'
    BY <1>4, FilesDrop
  <2>3. HonestOK'
    BY <1>4, BodyFacts, HonestStays DEF HonestOK
  <2> QED BY <1>2, <1>3, <2>1, <2>2, <2>3
<1>5. ASSUME NEW s \in State, Saves(s), s.gen \in {disk.state.gen, NewGeneration},
             disk.journal = Empty => Honest(s, disk.settings)
      PROVE  TypeOK' /\ JournalOK' /\ HonestOK' /\ MemoryOK'
  <2>1. /\ disk' \in Disk /\ disk'.state = s /\ disk'.stage = disk.stage
        /\ disk'.journal = disk.journal /\ disk'.settings = disk.settings
        /\ context' \in Context /\ context'.state = s /\ context'.settings = context.settings
    BY <1>5, BodyFacts, SavesIs
  <2>2. TypeOK'
    BY <1>1, <2>1 DEF TypeOK
  <2>3. JournalOK'
    BY <2>1, HonestStays DEF JournalOK, NoneRuns
  <2>4. HonestOK'
    BY <1>5, <2>1, HonestStays DEF HonestOK
  <2>5. Known /\ context.state = disk.state /\ Within(context.settings, disk.settings)
    BY BodyFacts
  <2>6. MemoryOK'
    BY <1>5, <2>1, <2>5, NewIsNew DEF MemoryOK, Within
  <2> QED BY <2>2, <2>3, <2>4, <2>6
<1> QED BY <1>2, <1>3, <1>4, <1>5

\* The run's attempt, if there is one, is the only one: as long as storage has not failed.
LEMMA OneAttempt ==
  ASSUME ReflectionInv, Known, faults = 0
  PROVE  /\ refresh.fence = Empty => live = {} /\ NoneRuns(context.state)
         /\ refresh.fence # Empty =>
              /\ live \subseteq {AttemptId(refresh.fence)}
              /\ \A q \in Questions : q # refresh.fence.question =>
                   context.state.entry[q].attempt.state # "refreshing"
              /\ ~HoldsFence(refresh.fence) => NoneRuns(context.state)
BY DEF ReflectionInv, UnfailingOK, LiveAttemptIsRunning, ShownOK, NoneRuns

LEMMA UnfailingStays ==
  ASSUME ReflectionInv, job.step = "body", job' = Idle, UNCHANGED faults,
         disk'.journal = disk.journal, context' \in Context \/ UNCHANGED context,
         faults = 0 => /\ refresh'.phase = "ending" => live' = {}
                       /\ LiveAttemptIsRunning' /\ ShownOK'
  PROVE  UnfailingOK'
<1>1. context' # Broken
  BY BodyFacts, ReflectionConstants DEF Known
<1> QED BY <1>1, BodyFacts DEF UnfailingOK, Idle

LEMMA StartInv ==
  ASSUME ReflectionInv, StartBody
  PROVE  ReflectionInv'
<1> USE DEF ReflectionInv
<1> DEFINE p == job.arg
           f == [question |-> p, batch |-> refresh.batch, gen |-> context.state.gen]
           s == WithAttempt(context.state, p, Refreshing(refresh.batch))
<1>1. /\ job.kind = "start" /\ job.step = "body" /\ job' = Idle
      /\ UNCHANGED <<collection, validated, owner, op, batches, faultVars>>
  BY DEF StartBody, At
<1>2. p \in Questions /\ refresh.phase = "starting" /\ refresh.fence = Empty
  BY <1>1 DEF JobOK, PhaseOK, Fenceless
<1>3. refresh \in Refresh /\ refresh.batch \in Nat /\ live \subseteq Nat \X Questions /\ op \in Operation
  BY DEF TypeOK, Refresh
<1>4. /\ Known /\ context.state \in State /\ context.state = disk.state
      /\ disk.journal = Empty => Honest(context.state, disk.settings)
  BY <1>1, BodyFacts
<1>5. CASE context.settings[p]
  <2>1. /\ Saves(s) /\ live' = live \cup {AttemptId(f)}
        /\ refresh' = [refresh EXCEPT !.phase = "evidence", !.fence = f, !.fenced = FALSE]
    BY <1>5 DEF StartBody
  <2>2. Refreshing(refresh.batch) \in Attempt /\ Refreshing(refresh.batch).state = "refreshing"
    BY <1>3, AttemptFacts
  <2>3. /\ s \in State /\ s.gen = context.state.gen
        /\ \A q \in Questions :
             /\ s.entry[q].cache = context.state.entry[q].cache
             /\ s.entry[q].attempt = IF q = p THEN Refreshing(refresh.batch)
                                     ELSE context.state.entry[q].attempt
    BY <1>2, <1>4, <2>2, AttemptReplaced
  <2> HIDE DEF s
  <2>4. f \in Fence /\ f.question = p /\ f.batch = refresh.batch /\ f.gen = context.state.gen
    BY <1>2, <1>3, <1>4 DEF Fence, State
  <2> HIDE DEF f, p
  <2>5. /\ refresh' \in Refresh /\ refresh'.phase = "evidence" /\ refresh'.fence = f
        /\ ~refresh'.fenced /\ refresh'.result = refresh.result
    BY <1>3, <2>1, <2>4 DEF Refresh, Phases
  <2>6. f # Empty
    BY <2>4, ReflectionConstants
  <2>7. live' \subseteq Nat \X Questions
    BY <1>2, <1>3, <2>1, <2>4 DEF AttemptId
  <2>8. disk.journal = Empty => Honest(s, disk.settings)
    BY <1>4, <2>3 DEF Honest
  <2>9. TypeOK' /\ JobOK' /\ JournalOK' /\ StepOK' /\ HonestOK' /\ MemoryOK'
    BY <1>1, <1>3, <1>4, <2>1, <2>3, <2>5, <2>7, <2>8, BodyEnds DEF TypeOK
  <2>10. PhaseOK' /\ OperationOK'
    BY <1>1, <1>2, <2>5, <2>6 DEF PhaseOK, OperationOK, Fenceless
  <2>11. FenceOK'
    BY <2>5 DEF FenceOK, Prospects
  <2>12. /\ disk'.journal = disk.journal /\ context' \in Context /\ context'.state = s
    BY <1>4, <2>1, <2>3, SavesIs
  <2>13. ASSUME faults = 0
         PROVE  LiveAttemptIsRunning' /\ ShownOK'
    <3>1. live = {} /\ NoneRuns(context.state)
      BY <1>2, <1>4, <2>13, OneAttempt
    <3>2. LiveAttemptIsRunning'
      BY <2>1, <2>5, <2>6, <3>1 DEF LiveAttemptIsRunning, AttemptId
    <3>3. HoldsFence(refresh.fence)'
      BY <1>2, <2>3, <2>4, <2>5, <2>12 DEF HoldsFence
    <3>4. \A q \in Questions : q # p => s.entry[q].attempt.state # "refreshing"
      BY <2>3, <3>1 DEF NoneRuns
    <3> QED BY <2>4, <2>5, <2>6, <2>12, <3>2, <3>3, <3>4 DEF ShownOK, Attempting
  <2>14. UnfailingOK'
    BY <1>1, <2>5, <2>12, <2>13, UnfailingStays DEF faultVars
  <2> QED BY <2>9, <2>10, <2>11, <2>14
<1>6. CASE ~context.settings[p]
  <2>1. refresh' = Caught /\ UNCHANGED <<disk, context, live>>
    BY <1>6 DEF StartBody
  <2>2. /\ refresh' \in Refresh /\ refresh'.phase = "failing" /\ refresh'.fence = Empty
        /\ refresh'.result = IF op.aborted THEN "cancelled" ELSE "failed"
    BY <1>2, <1>3, <2>1 DEF Refresh, Phases, Caught
  <2>3. TypeOK' /\ JobOK' /\ JournalOK' /\ StepOK' /\ HonestOK' /\ MemoryOK'
    BY <1>1, <1>3, <2>1, <2>2, BodyEnds DEF TypeOK
  <2>4. PhaseOK' /\ OperationOK' /\ FenceOK'
    BY <1>1, <1>2, <2>2 DEF PhaseOK, OperationOK, FenceOK, Prospects, Fenceless, Attempting
  <2>5. ASSUME faults = 0
        PROVE  LiveAttemptIsRunning' /\ ShownOK'
    <3>1. live = {} /\ NoneRuns(context.state)
      BY <1>2, <1>4, <2>5, OneAttempt
    <3> QED BY <2>1, <3>1 DEF LiveAttemptIsRunning, ShownOK, NoneRuns
  <2>6. UnfailingOK'
    BY <1>1, <2>1, <2>2, <2>5, UnfailingStays DEF faultVars
  <2> QED BY <2>3, <2>4, <2>6
<1> QED BY <1>5, <1>6

LEMMA CompleteInv ==
  ASSUME ReflectionInv, CompleteBody
  PROVE  ReflectionInv'
<1> USE DEF ReflectionInv
<1> DEFINE f == refresh.fence
           p == f.question
           result == [batch |-> f.batch, rev |-> refresh.evidence.rev,
                      deps |-> refresh.evidence.deps]
           e == [cache |-> result, attempt |-> Settled("idle")]
           s == [context.state EXCEPT !.entry[p] = e]
<1>1. /\ job.kind = "complete" /\ job.step = "body" /\ job' = Idle
      /\ UNCHANGED <<collection, validated, owner, batches, faultVars>>
      /\ live' = live \ {AttemptId(f)}
  BY DEF CompleteBody, At
<1>2. refresh.phase = "publishing" /\ f # Empty /\ refresh.evidence # Empty
  BY <1>1 DEF JobOK, PhaseOK, Attempting
<1>3. /\ refresh \in Refresh /\ op \in Operation /\ live' \subseteq Nat \X Questions
      /\ p \in Questions /\ f.batch \in Nat /\ refresh.evidence \in Evidence
  BY <1>1, <1>2, TypeFacts DEF TypeOK
<1>4. /\ Known /\ context.state \in State /\ context.state = disk.state
      /\ disk.journal = Empty => Honest(context.state, disk.settings)
      /\ Within(context.settings, disk.settings)
      /\ refresh.fenced => ~HoldsFence(f)
  BY <1>1, <1>2, BodyFacts
<1>5. op.state = "active" /\ op.reserved /\ op.outcome = None /\ ~op.aborted
  BY <1>2 DEF OperationOK
<1>6. CASE /\ Publishable(f) /\ Saves(s) /\ UNCHANGED op
           /\ refresh' = [refresh EXCEPT !.phase = "published", !.fence = Empty]
  <2>1. result \in Result /\ result.deps = refresh.evidence.deps
    BY <1>3 DEF Evidence, Result
  <2> HIDE DEF result
  <2>2. e \in Entry /\ e.cache = result /\ e.attempt.state = "idle"
    BY <2>1, AttemptFacts DEF Entry
  <2> HIDE DEF e
  <2>3. /\ s \in State /\ s.gen = context.state.gen
        /\ \A q \in Questions : s.entry[q] = IF q = p THEN e ELSE context.state.entry[q]
    BY <1>3, <1>4, <2>2, EntryReplaced
  <2> HIDE DEF s
  <2>4. NotesCurrent(result) /\ disk.settings[p]
    BY <1>3, <1>4, <1>6, <2>1 DEF Publishable, Revalidated, NotesCurrent, Within
  <2>5. disk.journal = Empty => Honest(s, disk.settings)
    BY <1>4, <2>2, <2>3, <2>4 DEF Honest
  <2>6. /\ refresh' \in Refresh /\ refresh'.phase = "published" /\ refresh'.fence = Empty
        /\ refresh'.result = refresh.result
    BY <1>3, <1>6 DEF Refresh, Phases
  <2>7. TypeOK' /\ JobOK' /\ JournalOK' /\ StepOK' /\ HonestOK' /\ MemoryOK'
    BY <1>1, <1>3, <1>4, <1>6, <2>3, <2>5, <2>6, BodyEnds DEF TypeOK
  <2>8. PhaseOK' /\ OperationOK' /\ FenceOK'
    BY <1>2, <1>6, <2>6 DEF PhaseOK, OperationOK, FenceOK, Prospects, Fenceless, Attempting
  <2>9. disk'.journal = disk.journal /\ context' \in Context /\ context'.state = s
    BY <1>4, <1>6, <2>3, SavesIs
  <2>10. ASSUME faults = 0
         PROVE  LiveAttemptIsRunning' /\ ShownOK'
    <3>1. /\ live \subseteq {AttemptId(f)}
          /\ \A q \in Questions : q # p => context.state.entry[q].attempt.state # "refreshing"
      BY <1>2, <1>4, <2>10, OneAttempt
    <3>2. live' = {}
      BY <1>1, <3>1
    <3> QED BY <2>2, <2>3, <2>9, <3>1, <3>2 DEF LiveAttemptIsRunning, ShownOK
  <2>11. UnfailingOK'
    BY <1>1, <2>6, <2>9, <2>10, UnfailingStays DEF faultVars
  <2> QED BY <2>7, <2>8, <2>11
<1>7. CASE /\ refresh' = [refresh EXCEPT !.phase = "failing", !.result = "failed"]
           /\ op' = Released(op) /\ UNCHANGED <<disk, context>>
  <2>1. /\ refresh' \in Refresh /\ refresh'.phase = "failing" /\ refresh'.fence = f
        /\ refresh'.result = "failed" /\ refresh'.fenced = refresh.fenced
    BY <1>3, <1>7 DEF Refresh, Phases
  <2>2. op' = [op EXCEPT !.reserved = FALSE, !.defers = FALSE, !.pending = None]
    BY <1>5, <1>7 DEF Released, OperationOK
  <2>3. /\ op' \in Operation /\ op'.state = "active" /\ op'.outcome = op.outcome
        /\ op'.aborted = op.aborted
        /\ ~op'.reserved /\ ~op'.defers /\ op'.pending = None /\ op'.attached = op.attached
    BY <1>3, <1>5, <2>2 DEF Operation, None
  <2>4. TypeOK' /\ JobOK' /\ JournalOK' /\ StepOK' /\ HonestOK' /\ MemoryOK'
    BY <1>1, <1>3, <1>7, <2>1, <2>3, BodyEnds DEF TypeOK
  <2>5. PhaseOK' /\ OperationOK'
    BY <1>2, <1>5, <2>1, <2>3 DEF PhaseOK, OperationOK, Fenceless, Attempting
  <2>6. FenceOK'
    BY <1>4, <1>7, <2>1 DEF FenceOK, Prospects, HoldsFence
  <2>7. ASSUME faults = 0
        PROVE  LiveAttemptIsRunning' /\ ShownOK'
    <3>1. live \subseteq {AttemptId(f)}
      BY <1>2, <1>4, <2>7, OneAttempt
    <3>2. live' = {}
      BY <1>1, <3>1
    <3>3. ShownOK'
      BY <1>7, <2>1, <2>7 DEF UnfailingOK, ShownOK, HoldsFence, Known
    <3> QED BY <3>2, <3>3 DEF LiveAttemptIsRunning
  <2>8. UnfailingOK'
    BY <1>1, <1>7, <2>1, <2>7, UnfailingStays DEF faultVars
  <2> QED BY <2>4, <2>5, <2>6, <2>8
<1> QED BY <1>6, <1>7 DEF CompleteBody

LEMMA SettleInv ==
  ASSUME ReflectionInv, SettleBody
  PROVE  ReflectionInv'
<1> USE DEF ReflectionInv
<1> DEFINE f == refresh.fence
           outcome == IF refresh.result = "cancelled" THEN "cancelled" ELSE "unavailable"
           s == WithAttempt(context.state, f.question, Settled(outcome))
<1>1. /\ job.kind = "settle" /\ job.step = "body" /\ job' = Idle
      /\ UNCHANGED <<collection, validated, owner, op, batches, faultVars>>
      /\ live' = live \ {AttemptId(f)} /\ refresh' = [refresh EXCEPT !.phase = "ending"]
      /\ IF HoldsFence(f) THEN Saves(s) ELSE UNCHANGED <<disk, context>>
  BY DEF SettleBody, At
<1>2. refresh.phase = "failing" /\ f # Empty
  BY <1>1 DEF JobOK
<1>3. /\ refresh \in Refresh /\ op \in Operation /\ live' \subseteq Nat \X Questions
      /\ f.question \in Questions
  BY <1>1, <1>2, TypeFacts DEF TypeOK
<1>4. /\ Known /\ context.state \in State /\ context.state = disk.state
      /\ disk.journal = Empty => Honest(context.state, disk.settings)
  BY <1>1, BodyFacts
<1>5. /\ refresh' \in Refresh /\ refresh'.phase = "ending" /\ refresh'.fence = f
      /\ refresh'.result = refresh.result /\ refresh'.fenced = refresh.fenced
  BY <1>1, <1>3 DEF Refresh, Phases
<1>6. PhaseOK' /\ OperationOK'
  BY <1>1, <1>2, <1>5 DEF PhaseOK, OperationOK, Fenceless, Attempting
<1>7. faults = 0 => live' = {} /\ (~HoldsFence(f) => NoneRuns(context.state))
                      /\ \A q \in Questions : q # f.question =>
                           context.state.entry[q].attempt.state # "refreshing"
  BY <1>1, <1>2, <1>4, OneAttempt
<1>8. CASE HoldsFence(f)
  <2>1. Settled(outcome) \in Attempt /\ Settled(outcome).state # "refreshing"
    BY AttemptFacts
  <2> HIDE DEF outcome
  <2>2. /\ s \in State /\ s.gen = context.state.gen
        /\ \A q \in Questions :
             /\ s.entry[q].cache = context.state.entry[q].cache
             /\ s.entry[q].attempt = IF q = f.question THEN Settled(outcome)
                                     ELSE context.state.entry[q].attempt
    BY <1>3, <1>4, <2>1, AttemptReplaced
  <2> HIDE DEF s
  <2>3. disk.journal = Empty => Honest(s, disk.settings)
    BY <1>4, <2>2 DEF Honest
  <2>4. Saves(s)
    BY <1>1, <1>8
  <2>5. TypeOK' /\ JobOK' /\ JournalOK' /\ StepOK' /\ HonestOK' /\ MemoryOK'
    BY <1>1, <1>3, <1>4, <1>5, <2>2, <2>3, <2>4, BodyEnds DEF TypeOK
  <2>6. disk'.journal = disk.journal /\ context' \in Context /\ context'.state = s
    BY <1>4, <2>2, <2>4, SavesIs
  <2>7. Refreshing(f.batch).state = "refreshing"
    BY DEF Refreshing
  <2>8. FenceOK'
    BY <1>3, <1>5, <2>1, <2>2, <2>6, <2>7 DEF FenceOK, Prospects, HoldsFence
  <2>9. faults = 0 => LiveAttemptIsRunning' /\ ShownOK'
    BY <1>7, <2>1, <2>2, <2>6 DEF LiveAttemptIsRunning, ShownOK
  <2>10. UnfailingOK'
    BY <1>1, <1>7, <2>6, <2>9, UnfailingStays DEF faultVars
  <2> QED BY <1>6, <2>5, <2>8, <2>10
<1>9. CASE ~HoldsFence(f)
  <2>1. UNCHANGED <<disk, context>>
    BY <1>1, <1>9
  <2>2. TypeOK' /\ JobOK' /\ JournalOK' /\ StepOK' /\ HonestOK' /\ MemoryOK'
    BY <1>1, <1>3, <1>5, <2>1, BodyEnds DEF TypeOK
  <2>3. FenceOK'
    BY <1>5, <1>9, <2>1 DEF FenceOK, Prospects, HoldsFence
  <2>4. faults = 0 => LiveAttemptIsRunning' /\ ShownOK'
    BY <1>7, <1>9, <2>1 DEF LiveAttemptIsRunning, ShownOK, NoneRuns
  <2>5. UnfailingOK'
    BY <1>1, <1>7, <2>1, <2>4, UnfailingStays DEF faultVars
  <2> QED BY <1>6, <2>2, <2>3, <2>5
<1> QED BY <1>8, <1>9

LEMMA PurgeInv ==
  ASSUME ReflectionInv, PurgeBody
  PROVE  ReflectionInv'
<1> USE DEF ReflectionInv
<1> DEFINE p == Purged(context.state, Questions)
           s == [p EXCEPT !.gen = NewGeneration]
<1>1. /\ job.step = "body" /\ job' = Idle /\ Saves(s) /\ FenceRefresh /\ owner' = NoOwner
      /\ UNCHANGED <<collection, live, validated, op, batches, faultVars>>
  BY DEF PurgeBody, At
<1>2. /\ Known /\ context.state \in State
      /\ live' \subseteq Nat \X Questions /\ op' \in Operation /\ batches' \in Nat
  BY <1>1, BodyFacts DEF TypeOK
<1>3. /\ refresh' \in Refresh
      /\ refresh'.phase = refresh.phase /\ refresh'.batch = refresh.batch
      /\ refresh'.todo = refresh.todo /\ refresh'.fence = refresh.fence
      /\ refresh'.evidence = refresh.evidence /\ refresh'.result = refresh.result
  BY <1>1, FencingIs
<1>4. PhaseOK' /\ OperationOK'
  BY <1>1, <1>3 DEF PhaseOK, OperationOK
<1>5. /\ p \in State
      /\ \A q \in Questions : p.entry[q].cache = Empty /\ p.entry[q].attempt.state = "purged"
  BY <1>2, PurgedIs
<1> HIDE DEF p
<1>6. s \in State /\ s.gen = NewGeneration /\ s.entry = p.entry
  BY <1>5, NewIsNew, GenerationIs
<1> HIDE DEF s
<1>7. Honest(s, disk.settings)
  BY <1>5, <1>6 DEF Honest
<1>8. TypeOK' /\ JobOK' /\ JournalOK' /\ StepOK' /\ HonestOK' /\ MemoryOK'
  BY <1>1, <1>2, <1>3, <1>6, <1>7, BodyEnds
<1>9. disk'.journal = disk.journal /\ context' \in Context /\ context'.state = s
  BY <1>1, <1>2, <1>6, SavesIs
<1>10. FenceOK'
  BY <1>3, <1>6, <1>9, NewIsNew DEF FenceOK, Prospects, HoldsFence
<1>11. faults = 0 => LiveAttemptIsRunning' /\ ShownOK' /\ (refresh'.phase = "ending" => live' = {})
  BY <1>1, <1>3, <1>5, <1>6, <1>9 DEF UnfailingOK, LiveAttemptIsRunning, ShownOK, AttemptId
<1>12. UnfailingOK'
  BY <1>1, <1>9, <1>11, UnfailingStays DEF faultVars
<1> QED BY <1>4, <1>8, <1>10, <1>12

LEMMA StartedIs ==
  /\ Started \in Operation /\ Started.state = "active" /\ Started.outcome = None
  /\ ~Started.aborted /\ ~Started.attached /\ ~Started.reserved /\ ~Started.defers
  /\ Started.pending = None
<1>1. /\ NoOperation \in Operation /\ NoOperation.outcome = None /\ ~NoOperation.aborted
      /\ ~NoOperation.attached /\ ~NoOperation.reserved /\ ~NoOperation.defers
      /\ NoOperation.pending = None
  BY DEF NoOperation, Operation, None
<1>2. PICK o : o = NoOperation
  OBVIOUS
<1>3. Started = [o EXCEPT !.state = "active"]
  BY <1>2 DEF Started
<1> QED BY <1>1, <1>2, <1>3 DEF Operation

LEMMA SettingsInv ==
  ASSUME ReflectionInv, SettingsBody
  PROVE  ReflectionInv'
<1> USE DEF ReflectionInv
<1>1. /\ job.kind = "settings" /\ job.step = "body" /\ job' = Idle
      /\ UNCHANGED <<disk, collection, context, live, validated, faultVars>>
  BY DEF SettingsBody, At, memory
<1>2. refresh \in Refresh /\ op \in Operation /\ live' \subseteq Nat \X Questions
  BY <1>1 DEF TypeOK
<1>3. Known
  BY <1>1, BodyFacts
<1>4. CASE job.arg = 1
  <2>1. owner' = NoOwner /\ UNCHANGED <<refresh, op, batches>>
    BY <1>4 DEF SettingsBody, runVars
  <2>2. TypeOK' /\ JobOK' /\ JournalOK' /\ StepOK' /\ HonestOK' /\ MemoryOK'
    BY <1>1, <1>2, <2>1, BodyEnds DEF TypeOK
  <2>3. PhaseOK' /\ OperationOK' /\ FenceOK'
    BY <1>1, <2>1 DEF PhaseOK, OperationOK, FenceOK, Prospects, HoldsFence, Known
  <2>4. UnfailingOK'
    BY <1>1, <2>1, UnfailingStays
      DEF UnfailingOK, LiveAttemptIsRunning, AttemptId, ShownOK, HoldsFence, Known, faultVars
  <2> QED BY <2>2, <2>3, <2>4
<1>5. CASE job.arg # 1
  <2> DEFINE chosen == {q \in refresh.todo : context.settings[q]}
  <2>1. UNCHANGED <<owner, batches>>
        /\ IF chosen = {} THEN refresh' = NoRefresh /\ UNCHANGED op
           ELSE refresh' = [refresh EXCEPT !.phase = "next", !.todo = chosen] /\ op' = Started
    BY <1>5 DEF SettingsBody
  <2>2. refresh.phase = "admitted" /\ refresh.fence = Empty /\ op = NoOperation
        /\ refresh.result \notin {"completed", "cancelled"}
    BY <1>1, <1>5 DEF JobOK, PhaseOK, Fenceless, OperationOK, NoOperation
  <2>3. chosen \in SUBSET Questions
    BY <1>2 DEF Refresh
  <2> HIDE DEF chosen
  <2>4. /\ refresh' \in Refresh /\ refresh'.fence = Empty /\ op' \in Operation
        /\ PhaseOK' /\ OperationOK' /\ refresh'.phase # "ending"
    <3>1. CASE chosen = {}
      <4>0. refresh' = NoRefresh /\ op' = op
        BY <2>1, <3>1
      <4>1. /\ refresh' \in Refresh /\ refresh'.fence = Empty /\ refresh'.phase = "idle"
            /\ refresh'.result = None
        BY <2>2, <4>0 DEF NoRefresh, Refresh, Phases
      <4> QED BY <1>2, <2>2, <4>0, <4>1 DEF PhaseOK, OperationOK, Attempting, NoOperation, None
    <3>2. CASE chosen # {}
      <4>0. refresh' = [refresh EXCEPT !.phase = "next", !.todo = chosen] /\ op' = Started
        BY <2>1, <3>2
      <4>1. /\ refresh' \in Refresh /\ refresh'.fence = Empty /\ refresh'.phase = "next"
            /\ refresh'.todo = chosen /\ refresh'.result = refresh.result
        BY <1>2, <2>2, <2>3, <4>0 DEF Refresh, Phases
      <4>3. op' \in Operation
        BY <4>0, StartedIs
      <4>4. PhaseOK'
        BY <3>2, <4>1 DEF PhaseOK, Attempting
      <4>5. OperationOK'
        BY <2>2, <4>0, <4>1, StartedIs DEF OperationOK
      <4> QED BY <4>1, <4>3, <4>4, <4>5
    <3> QED BY <3>1, <3>2
  <2>5. TypeOK' /\ JobOK' /\ JournalOK' /\ StepOK' /\ HonestOK' /\ MemoryOK'
    BY <1>1, <1>2, <2>1, <2>4, BodyEnds DEF TypeOK
  <2>6. FenceOK'
    BY <2>4 DEF FenceOK, Prospects
  <2>7. faults = 0 => LiveAttemptIsRunning' /\ ShownOK'
    BY <1>1, <1>3, <2>2, OneAttempt DEF LiveAttemptIsRunning, ShownOK, NoneRuns
  <2>8. UnfailingOK'
    BY <1>1, <2>4, <2>7, UnfailingStays DEF faultVars
  <2> QED BY <2>4, <2>5, <2>6, <2>8
<1> QED BY <1>4, <1>5

LEMMA ReadInv ==
  ASSUME ReflectionInv, ReadBody
  PROVE  ReflectionInv'
<1> USE DEF ReflectionInv
<1>1. /\ job.step = "body" /\ job' = Idle
      /\ UNCHANGED <<disk, collection, memory, owner, runVars, faultVars>>
  BY DEF ReadBody, At
<1>2. UNCHANGED <<disk, collection, context, live, validated, owner, refresh, op, batches, faults>>
  BY <1>1 DEF memory, runVars, faultVars
<1>3. TypeOK' /\ JobOK' /\ JournalOK' /\ StepOK' /\ HonestOK' /\ MemoryOK'
  BY <1>1, <1>2, BodyEnds DEF TypeOK
<1>4. PhaseOK' /\ OperationOK' /\ FenceOK'
  BY <1>2 DEF PhaseOK, OperationOK, FenceOK, Prospects, HoldsFence, Known
<1>5. UnfailingOK'
  BY <1>1, <1>2, UnfailingStays
    DEF UnfailingOK, LiveAttemptIsRunning, AttemptId, ShownOK, HoldsFence, Known
<1> QED BY <1>3, <1>4, <1>5

\* Reading the files settles the attempts found running.
LEMMA InitializeInv ==
  ASSUME ReflectionInv, Initialize
  PROVE  ReflectionInv'
<1> USE DEF ReflectionInv
<1> DEFINE s == Interrupted(disk.state)
<1>1. /\ job.step = "init" /\ GoTo("body")
      /\ UNCHANGED <<collection, live, validated, owner, refresh, op, batches, faults, crashes>>
      /\ IF Known THEN UNCHANGED <<context, disk>>
         ELSE /\ context' = [settings |-> disk.settings, state |-> s]
              /\ disk' = [disk EXCEPT !.state = s]
  BY DEF Initialize, runVars, faultVars
<1>2. /\ job' \in Job /\ job'.step = "body" /\ job'.kind = job.kind /\ job'.arg = job.arg
      /\ job'.resets = job.resets /\ job'.mode = job.mode
  BY <1>1 DEF GoTo, TypeOK, Job, Steps
<1>3. job.kind \in StateJobs \ {"set-enabled"}
  BY <1>1 DEF TypeOK, Job, JobOK, StepsOf, RecoverySteps, Idle
<1>4. JobOK'
  BY <1>1, <1>2, <1>3 DEF JobOK, StepsOf, StateJobs, RecoverySteps
<1>5. PhaseOK' /\ OperationOK'
  BY <1>1 DEF PhaseOK, OperationOK
<1>6. disk.state \in State /\ disk \in Disk /\ disk.settings \in [Questions -> BOOLEAN]
  BY TypeFacts
<1>7. s \in State /\ s.gen = disk.state.gen /\ NoneRuns(s)
      /\ \A q \in Questions : s.entry[q].cache = disk.state.entry[q].cache
  BY <1>6, InterruptedIs
<1> HIDE DEF s
<1>8. CASE Known
  <2>1. UNCHANGED <<context, disk>>
    BY <1>1, <1>8
  <2>2. TypeOK'
    BY <1>1, <1>2, <2>1 DEF TypeOK
  <2>3. JournalOK' /\ MemoryOK'
    BY <1>1, <2>1, FilesDrop
  <2>4. StepOK'
    BY <1>1, <1>2, <1>8, <2>1 DEF StepOK, At, Known
  <2>5. HonestOK'
    BY <1>1, <1>2, <2>1, HonestStays DEF HonestOK
  <2>6. FenceOK' /\ UnfailingOK'
    BY <1>1, <1>2, <2>1
      DEF FenceOK, Prospects, UnfailingOK, LiveAttemptIsRunning, AttemptId, ShownOK, HoldsFence, Known
  <2> QED BY <1>4, <1>5, <2>2, <2>3, <2>4, <2>5, <2>6
<1>9. CASE ~Known
  <2>1. context' = [settings |-> disk.settings, state |-> s] /\ disk' = [disk EXCEPT !.state = s]
    BY <1>1, <1>9
  <2>2. /\ disk' \in Disk /\ disk'.state = s /\ disk'.stage = disk.stage
        /\ disk'.journal = disk.journal /\ disk'.settings = disk.settings
    BY <1>6, <1>7, <2>1 DEF Disk
  <2>3. context' \in Context /\ context'.state = s /\ context'.settings = disk.settings
    BY <1>6, <1>7, <2>1 DEF Context
  <2>4. Known' /\ context' # Broken
    BY <2>3, ReflectionConstants DEF Known
  <2>5. TypeOK'
    BY <1>1, <1>2, <2>2, <2>3 DEF TypeOK
  <2>6. disk.journal = Empty
    BY <1>1, <1>9 DEF StepOK
  <2>7. JournalOK' /\ MemoryOK'
    BY <2>2, <2>3, <2>6 DEF JournalOK, MemoryOK, Within
  <2>8. StepOK'
    BY <1>2, <2>2, <2>3, <2>4 DEF StepOK, At
  <2>9. Honest(disk.state, disk.settings)
    BY <1>1, <1>3, <2>6 DEF HonestOK
  <2>10. Honest(s, disk.settings)
    BY <1>7, <2>9 DEF Honest
  <2>11. HonestOK'
    BY <1>1, <2>2, <2>10, HonestStays DEF HonestOK
  <2>12. refresh.fence # Empty => ~HoldsFence(refresh.fence)'
    <3>1. Refreshing(refresh.fence.batch).state = "refreshing"
      BY DEF Refreshing
    <3> QED BY <1>1, <1>7, <2>3, <3>1, TypeFacts DEF HoldsFence, NoneRuns
  <2>13. FenceOK'
    BY <1>1, <2>12 DEF FenceOK, Prospects
  <2>14. UnfailingOK'
    BY <1>1, <1>2, <1>7, <2>2, <2>3, <2>4, <2>6
      DEF UnfailingOK, LiveAttemptIsRunning, AttemptId, ShownOK, NoneRuns
  <2> QED BY <1>4, <1>5, <2>5, <2>7, <2>8, <2>11, <2>13, <2>14
<1> QED BY <1>8, <1>9

LEMMA StateWorkInv ==
  ASSUME ReflectionInv, StateWork
  PROVE  ReflectionInv'
BY StartInv, CompleteInv, SettleInv, PurgeInv, SettingsInv, ReadInv, InitializeInv DEF StateWork
-------------------------------------------------------------------------------
(* The transactions *)

LEMMA TransactionFacts ==
  ASSUME ReflectionInv,
         job.step \in {"stage", "journal", "save", "promote", "promote-settings", "finish"}
  PROVE  /\ job \in Job /\ job.kind \in {"note", "set-enabled"}
         /\ job.kind = "note" => job.arg \in Games
         /\ job.kind = "set-enabled" => /\ job.arg \in Questions
                                        /\ owner.kind \in {"enable", "disable"}
         /\ job.step = "save" => job.kind = "note"
         /\ job.step = "promote-settings" => job.kind = "set-enabled"
         /\ job.mode # "failing"
         /\ disk.journal = Empty => Honest(disk.state, disk.settings)
<1> USE DEF ReflectionInv
<1>1. job \in Job
  BY DEF TypeOK
<1>2. job.kind \in {"note", "set-enabled"}
  BY <1>1 DEF Job, JobOK, Idle, StepsOf, RecoverySteps, StateJobs
<1>3. /\ job.step = "save" => job.kind = "note"
      /\ job.step = "promote-settings" => job.kind = "set-enabled"
  BY <1>2 DEF JobOK, StepsOf, RecoverySteps
<1> QED BY <1>1, <1>2, <1>3 DEF JobOK, HonestOK

\* The transaction goes on to its next step.
LEMMA TransactionGoes ==
  ASSUME ReflectionInv, NEW step \in {"journal", "save", "promote", "promote-settings", "finish"},
         GoTo(step), step \in StepsOf(job.kind),
         job.step \in {"stage", "journal", "save", "promote", "promote-settings"},
         UNCHANGED <<context, owner, live, validated, op, batches, faultVars>>,
         UNCHANGED refresh \/ FenceRefresh \/ (\E gen : Overtaken(gen)), disk' \in Disk, Overtakes,
         collection' \in [rev : Nat, note : [Games -> Nat]]
  PROVE  /\ job'.step = step /\ job'.kind = job.kind /\ job'.arg = job.arg
         /\ TypeOK' /\ JobOK' /\ PhaseOK' /\ OperationOK' /\ FenceOK' /\ UnfailingOK'
<1> USE DEF ReflectionInv
<1>1. job \in Job /\ job.kind \in {"note", "set-enabled"} /\ job.mode # "failing"
  BY TransactionFacts
<1>2. /\ job' \in Job /\ job'.step = step /\ job'.kind = job.kind /\ job'.arg = job.arg
      /\ job'.resets = job.resets /\ job'.mode = job.mode
  BY <1>1 DEF GoTo, Job, Steps
<1>3. Continues
  BY <1>1, <1>2 DEF Continues, RecoverySteps
<1>4. /\ owner' \in Request \cup {NoOwner} \cup [kind : {"confirm"}, question : Questions]
      /\ validated' \in BOOLEAN /\ job' # Idle
  BY <1>1, <1>2 DEF TypeOK, Idle
<1> QED BY <1>1, <1>2, <1>3, <1>4, JobLeaves

LEMMA StageInv ==
  ASSUME ReflectionInv, Stage, UNCHANGED <<live, validated, op, batches, faultVars>>
  PROVE  ReflectionInv'
<1> USE DEF ReflectionInv
<1>1. /\ job.step = "stage" /\ GoTo("journal") /\ UNCHANGED <<collection, context, refresh, owner>>
      /\ disk' = [disk EXCEPT !.stage = TRUE, !.settingsStage = job.kind = "set-enabled"]
      /\ disk.journal = Empty
  BY DEF Stage, StepOK
<1>2. /\ disk' \in Disk /\ disk'.state = disk.state /\ disk'.stage
      /\ disk'.journal = Empty /\ disk'.settings = disk.settings
  BY <1>1, TypeFacts DEF Disk
<1>3. "journal" \in StepsOf(job.kind) /\ Honest(disk.state, disk.settings)
      /\ collection' \in [rev : Nat, note : [Games -> Nat]] /\ job.kind # "startup"
  BY <1>1, TransactionFacts DEF StepsOf, TypeOK
<1>4. Overtakes
  BY <1>1, <1>2 DEF Overtakes, Prospects
<1>5. /\ job'.step = "journal" /\ job'.kind = job.kind
      /\ TypeOK' /\ JobOK' /\ PhaseOK' /\ OperationOK' /\ FenceOK' /\ UnfailingOK'
  BY <1>1, <1>2, <1>3, <1>4, TransactionGoes
<1>6. JournalOK' /\ StepOK'
  BY <1>2, <1>5 DEF JournalOK, StepOK, At
<1>7. HonestOK' /\ MemoryOK'
  BY <1>1, <1>2, <1>3, HonestStays DEF HonestOK, MemoryOK, Known, Within
<1> QED BY <1>5, <1>6, <1>7

LEMMA PublishJournalInv ==
  ASSUME ReflectionInv, PublishJournal, UNCHANGED <<live, validated, op, batches, faultVars>>
  PROVE  ReflectionInv'
<1> USE DEF ReflectionInv
<1> DEFINE isNote == job.kind = "note"
           enabled == owner.kind = "enable"
           staged == IF isNote THEN NoteTarget(disk.state, job.arg)
                     ELSE SettingsTarget(disk.state, job.arg, enabled)
           settings == IF isNote THEN disk.settings
                       ELSE [disk.settings EXCEPT ![job.arg] = enabled]
           entry == [kind |-> IF isNote THEN "source-purge" ELSE "settings",
                     prior |-> collection.rev,
                     target |-> IF isNote THEN collection.rev + 1 ELSE collection.rev,
                     priorState |-> disk.state, staged |-> staged, settings |-> settings]
           step == IF isNote THEN "save" ELSE "promote"
<1>1. /\ job.step = "journal" /\ GoTo(step) /\ UNCHANGED <<collection, context, refresh, owner>>
      /\ disk' = [disk EXCEPT !.journal = entry]
  BY DEF PublishJournal
<1>2. disk.journal = Empty /\ disk.stage /\ Honest(disk.state, disk.settings)
  BY <1>1, TransactionFacts DEF StepOK
<1>3. /\ job.kind \in {"note", "set-enabled"}
      /\ isNote => job.arg \in Games
      /\ ~isNote => job.arg \in Questions
  BY <1>1, TransactionFacts
<1>4. /\ disk \in Disk /\ disk.state \in State /\ collection.rev \in Nat
      /\ disk.settings \in [Questions -> BOOLEAN]
  BY TypeFacts
<1>5. staged \in State /\ Shrinks(disk.state, staged)
      /\ staged.gen = IF isNote \/ ~enabled THEN NewGeneration ELSE disk.state.gen
  BY <1>3, <1>4, NoteTargetIs, SettingsTargetIs
<1>6. isNote => /\ NoneRuns(staged)
                /\ \A q \in Questions : staged.entry[q].cache # Empty =>
                                          staged.entry[q].cache.deps[job.arg] = NoDependency
  BY <1>3, <1>4, NoteTargetIs
<1>7. ~isNote => staged.entry[job.arg].cache = Empty
  BY <1>3, <1>4, SettingsTargetIs
<1>8. /\ settings \in [Questions -> BOOLEAN]
      /\ isNote => settings = disk.settings
      /\ ~isNote => \A q \in Questions : settings[q] = IF q = job.arg THEN enabled
                                                       ELSE disk.settings[q]
  BY <1>3, <1>4
<1>9. /\ "save" \in StepsOf("note") /\ "promote" \in StepsOf("set-enabled")
      /\ step = IF isNote THEN "save" ELSE "promote"
  BY DEF StepsOf
<1> HIDE DEF staged, settings, step
<1>10. /\ entry \in Journal /\ entry # Empty
       /\ entry.kind = (IF isNote THEN "source-purge" ELSE "settings")
       /\ entry.prior = collection.rev /\ (isNote => entry.target = collection.rev + 1)
       /\ entry.priorState = disk.state /\ entry.staged = staged /\ entry.settings = settings
  <2>1. entry \in Journal
    BY <1>4, <1>5, <1>8 DEF Journal
  <2> QED BY <2>1, ReflectionConstants
<1> HIDE DEF entry
<1>11. /\ disk' \in Disk /\ disk'.state = disk.state /\ disk'.stage
       /\ disk'.journal = entry /\ disk'.settings = disk.settings
  BY <1>1, <1>2, <1>4, <1>10 DEF Disk
<1>12. Overtakes /\ collection' \in [rev : Nat, note : [Games -> Nat]]
  <2>1. Known /\ context.state.gen = staged.gen => context.state.gen = disk.state.gen
    BY <1>5, NewIsNew
  <2> QED BY <1>1, <1>10, <1>11, <2>1 DEF Overtakes, Prospects, TypeOK
<1>13. /\ job'.step = step /\ job'.kind = job.kind /\ job'.arg = job.arg
       /\ TypeOK' /\ JobOK' /\ PhaseOK' /\ OperationOK' /\ FenceOK' /\ UnfailingOK'
  BY <1>1, <1>3, <1>9, <1>11, <1>12, TransactionGoes
<1>14. Honest(staged, disk.settings) /\ Honest(staged, settings)
  <2>1. Honest(staged, disk.settings)
    BY <1>2, <1>5, ShrunkIsHonest
  <2> QED BY <2>1, <1>7, <1>8 DEF Honest
<1>15. JournalOK'
  BY <1>1, <1>2, <1>4, <1>6, <1>8, <1>10, <1>11, <1>14, HonestStays DEF JournalOK, NoneRuns
<1>16. StepOK'
  BY <1>1, <1>3, <1>6, <1>9, <1>10, <1>11, <1>13 DEF StepOK, At
<1>17. HonestOK'
  BY <1>10, <1>11 DEF HonestOK
<1>18. ASSUME Known
       PROVE  /\ context.state.gen = staged.gen =>
                   Within(context.settings, disk.settings) /\ Within(context.settings, settings)
              /\ isNote => staged.gen \notin {context.state.gen, disk.state.gen}
  <2>1. NewGeneration \notin {context.state.gen, disk.state.gen}
    BY <1>18, NewIsNew
  <2>2. context.state.gen = disk.state.gen => Within(context.settings, disk.settings)
    BY <1>18 DEF MemoryOK
  <2>3. ~isNote /\ enabled /\ Within(context.settings, disk.settings) =>
          Within(context.settings, settings)
    BY <1>8 DEF Within
  <2> QED BY <1>5, <2>1, <2>2, <2>3
<1>19. MemoryOK'
  BY <1>1, <1>10, <1>11, <1>18 DEF MemoryOK, Known, Within
<1> QED BY <1>13, <1>15, <1>16, <1>17, <1>19

\* The note is changed: what is staged depends on the game no more.
LEMMA SavedIs ==
  ASSUME ReflectionInv, At("note", "save"), UNCHANGED disk,
         collection' = [rev |-> collection.rev + 1,
                        note |-> [collection.note EXCEPT ![job.arg] = @ + 1]]
  PROVE  /\ collection' \in [rev : Nat, note : [Games -> Nat]]
         /\ collection'.rev = disk.journal.target /\ JournalOK' /\ HonestOK'
<1> USE DEF ReflectionInv
<1> DEFINE g == job.arg
           j == disk.journal
<1>1. /\ job.step = "save" /\ job.kind = "note" /\ g \in Games
      /\ collection.rev \in Nat /\ collection.note \in [Games -> Nat]
  BY TransactionFacts, TypeFacts DEF At
<1>2. /\ collection' \in [rev : Nat, note : [Games -> Nat]]
      /\ collection'.rev = collection.rev + 1
      /\ \A h \in Games : h # g => collection'.note[h] = collection.note[h]
  BY <1>1
<1>3. /\ j # Empty /\ j.kind = "source-purge" /\ collection.rev = j.prior
      /\ \A q \in Questions : j.staged.entry[q].cache # Empty =>
                                j.staged.entry[q].cache.deps[g] = NoDependency
  BY <1>1 DEF StepOK
<1>4. /\ j.target = j.prior + 1 /\ Honest(j.staged, disk.settings) /\ NoneRuns(j.staged)
      /\ j.settings = disk.settings
  BY <1>3 DEF JournalOK
<1>5. Honest(j.staged, disk.settings)'
  <2> SUFFICES ASSUME NEW q \in Questions, j.staged.entry[q].cache # Empty
               PROVE  NotesCurrent(j.staged.entry[q].cache)' /\ disk.settings[q]
    BY DEF Honest
  <2>1. /\ NotesCurrent(j.staged.entry[q].cache) /\ disk.settings[q]
        /\ j.staged.entry[q].cache.deps[g] = NoDependency
    BY <1>3, <1>4 DEF Honest
  <2> QED BY <1>2, <2>1 DEF NotesCurrent, NoDependency, FactsOnly
<1>6. j.prior <= collection'.rev /\ collection'.rev # j.prior /\ collection'.rev = j.target
  BY <1>1, <1>2, <1>3, <1>4
<1>7. JournalOK'
  BY <1>3, <1>4, <1>5, <1>6 DEF JournalOK, NoneRuns
<1>8. HonestOK'
  BY <1>3 DEF HonestOK
<1> QED BY <1>2, <1>6, <1>7, <1>8

LEMMA SaveCollectionInv ==
  ASSUME ReflectionInv, SaveCollection, UNCHANGED <<live, validated, op, batches, faultVars>>
  PROVE  ReflectionInv'
<1> USE DEF ReflectionInv
<1>1. /\ job.kind = "note" /\ job.step = "save" /\ GoTo("promote")
      /\ UNCHANGED <<disk, context, refresh, owner>>
  BY DEF SaveCollection, At
<1>2. /\ collection' \in [rev : Nat, note : [Games -> Nat]]
      /\ collection'.rev = disk.journal.target /\ JournalOK' /\ HonestOK'
  BY SavedIs DEF SaveCollection
<1>3. disk' \in Disk /\ Overtakes /\ "promote" \in StepsOf(job.kind)
  BY <1>1, TypeFacts DEF Overtakes, Prospects, StepsOf
<1>4. /\ job'.step = "promote" /\ job'.kind = job.kind
      /\ TypeOK' /\ JobOK' /\ PhaseOK' /\ OperationOK' /\ FenceOK' /\ UnfailingOK'
  BY <1>1, <1>2, <1>3, TransactionGoes
<1>5. StepOK' /\ MemoryOK'
  BY <1>1, <1>2, <1>4 DEF StepOK, MemoryOK, At, Known, Within
<1> QED BY <1>2, <1>4, <1>5

LEMMA PromoteInv ==
  ASSUME ReflectionInv, Promote, UNCHANGED <<live, validated, op, batches, faultVars>>
  PROVE  ReflectionInv'
<1> USE DEF ReflectionInv
<1> DEFINE step == IF job.kind = "note" THEN "finish" ELSE "promote-settings"
<1>1. /\ job.step = "promote" /\ Promoted /\ GoTo(step)
      /\ UNCHANGED <<collection, context, owner>>
  BY DEF Promote
<1>2. /\ disk.journal # Empty /\ disk.stage
      /\ disk.journal.kind = IF job.kind = "note" THEN "source-purge" ELSE "settings"
  BY <1>1 DEF StepOK
<1>3. /\ disk' \in Disk /\ disk'.state = disk.journal.staged /\ ~disk'.stage
      /\ disk'.journal = disk.journal /\ disk'.settings = disk.settings
      /\ \E gen : Overtaken(gen)
      /\ Overtakes /\ JournalOK' /\ MemoryOK'
  BY <1>1, <1>2, PromotedIs
<1>4. step \in StepsOf(job.kind) /\ collection' \in [rev : Nat, note : [Games -> Nat]]
  BY <1>1, TransactionFacts DEF StepsOf, TypeOK
<1>5. /\ job'.step = step /\ job'.kind = job.kind
      /\ TypeOK' /\ JobOK' /\ PhaseOK' /\ OperationOK' /\ FenceOK' /\ UnfailingOK'
  BY <1>1, <1>3, <1>4, TransactionGoes
<1>6. StepOK'
  BY <1>1, <1>2, <1>3, <1>5 DEF StepOK, At
<1>7. HonestOK'
  BY <1>2, <1>3 DEF HonestOK
<1> QED BY <1>3, <1>5, <1>6, <1>7

LEMMA PromoteSettingsInv ==
  ASSUME ReflectionInv, PromoteSettings, UNCHANGED <<live, validated, op, batches, faultVars>>
  PROVE  ReflectionInv'
<1> USE DEF ReflectionInv
<1>1. /\ job.step = "promote-settings" /\ GoTo("finish")
      /\ UNCHANGED <<collection, context, refresh, owner>>
      /\ disk' = [disk EXCEPT !.settings = disk.journal.settings, !.settingsStage = FALSE]
  BY DEF PromoteSettings
<1>2. job.kind = "set-enabled"
  BY <1>1, TransactionFacts
<1>3. /\ disk.journal # Empty /\ disk.journal.kind = "settings" /\ ~disk.stage
      /\ disk.state = disk.journal.staged
  BY <1>1, <1>2 DEF StepOK
<1>4. /\ disk' \in Disk /\ disk'.state = disk.state
      /\ disk'.journal = disk.journal /\ disk'.settings = disk.journal.settings
      /\ JournalOK' /\ MemoryOK'
  BY <1>1, <1>3, SettingsPromotedIs
<1>5. /\ Overtakes /\ "finish" \in StepsOf(job.kind)
      /\ collection' \in [rev : Nat, note : [Games -> Nat]]
  BY <1>1, <1>2, <1>4 DEF Overtakes, Prospects, StepsOf, TypeOK
<1>6. /\ job'.step = "finish" /\ job'.kind = job.kind
      /\ TypeOK' /\ JobOK' /\ PhaseOK' /\ OperationOK' /\ FenceOK' /\ UnfailingOK'
  BY <1>1, <1>4, <1>5, TransactionGoes
<1>7. StepOK' /\ HonestOK'
  BY <1>2, <1>3, <1>4, <1>6 DEF StepOK, HonestOK, At
<1> QED BY <1>4, <1>6, <1>7

\* What is in the file when a transaction ends.
LEMMA FinishFacts ==
  ASSUME ReflectionInv, job.step = "finish"
  PROVE  /\ disk.journal # Empty /\ Honest(disk.state, disk.settings)
         /\ job.kind = "note" => NoneRuns(disk.state)
<1> USE DEF ReflectionInv
<1>1. /\ disk.journal # Empty /\ disk.state = disk.journal.staged
      /\ disk.journal.kind = IF job.kind = "note" THEN "source-purge" ELSE "settings"
  BY DEF StepOK
<1>2. CASE job.kind = "note"
  <2>1. collection.rev = disk.journal.target
    BY <1>2 DEF StepOK, At
  <2> QED BY <1>1, <1>2, <2>1 DEF JournalOK
<1>3. CASE job.kind # "note"
  BY <1>1, <1>3 DEF JournalOK
<1> QED BY <1>1, <1>2, <1>3

LEMMA FinishInv ==
  ASSUME ReflectionInv, Finish, UNCHANGED <<live, validated, op, batches, faultVars>>
  PROVE  ReflectionInv'
<1> USE DEF ReflectionInv
<1>1. /\ job.step = "finish" /\ job' = Idle /\ UNCHANGED <<collection, refresh>>
      /\ disk' = [disk EXCEPT !.journal = Empty, !.stage = FALSE, !.settingsStage = FALSE]
      /\ context' \in {context, Unread}
      /\ IF job.kind = "note" THEN UNCHANGED owner ELSE owner' = [owner EXCEPT !.kind = "confirm"]
  BY DEF Finish
<1>2. /\ disk' \in Disk /\ disk'.state = disk.state /\ ~disk'.stage
      /\ disk'.journal = Empty /\ disk'.settings = disk.settings
  BY <1>1, TypeFacts DEF Disk
<1>3. owner' \in Request \cup {NoOwner} \cup [kind : {"confirm"}, question : Questions]
  <2>1. CASE job.kind = "note"
    BY <1>1, <2>1 DEF TypeOK
  <2>2. CASE job.kind # "note"
    <3>1. owner \in [kind : {"enable", "disable"}, question : Questions]
      BY <1>1, <2>2, TransactionFacts DEF TypeOK, Request, NoOwner
    <3>2. owner' = [owner EXCEPT !.kind = "confirm"]
      BY <1>1, <2>2
    <3>3. owner' \in [kind : {"confirm"}, question : Questions]
      BY <3>1, <3>2
    <3> QED BY <3>3
  <2> QED BY <2>1, <2>2
<1>4. job' \in Job /\ Overtakes /\ validated' \in BOOLEAN
      /\ collection' \in [rev : Nat, note : [Games -> Nat]]
  BY <1>1, <1>2 DEF Idle, Job, Steps, Overtakes, Prospects, TypeOK
<1>5. TypeOK' /\ JobOK' /\ PhaseOK' /\ OperationOK' /\ FenceOK' /\ UnfailingOK'
  BY <1>1, <1>2, <1>3, <1>4, JobLeaves DEF Idle
<1>6. JournalOK' /\ MemoryOK'
  BY <1>1, <1>2, FilesDrop
<1>7. StepOK' /\ HonestOK'
  BY <1>1, <1>2, FinishFacts, HonestStays DEF StepOK, HonestOK, At, Idle
<1> QED BY <1>5, <1>6, <1>7

LEMMA TransactionInv ==
  ASSUME ReflectionInv, Transaction
  PROVE  ReflectionInv'
BY StageInv, PublishJournalInv, SaveCollectionInv, PromoteInv, PromoteSettingsInv, FinishInv
  DEF Transaction
-------------------------------------------------------------------------------
(* Failures *)

LEMMA DiedInv ==
  ASSUME ReflectionInv, Died, UNCHANGED <<disk, collection>>,
         {batches', faults', crashes'} \subseteq Nat
  PROVE  ReflectionInv'
<1> USE DEF ReflectionInv
<1>1. /\ context' = Unread /\ live' = {} /\ validated' = FALSE /\ job' = Startup
      /\ owner' = NoOwner /\ refresh' = NoRefresh /\ op' = NoOperation
  BY DEF Died
<1>2. /\ Startup \in Job /\ Startup.kind = "startup" /\ Startup.step = "recover"
      /\ Startup.mode = "normal" /\ Startup.resets = FALSE
  <2>1. PICK i : i = Idle
    OBVIOUS
  <2>2. i \in Job /\ i.mode = "normal" /\ i.resets = FALSE
    BY <2>1 DEF Idle, Job, Steps
  <2>3. Startup = [i EXCEPT !.kind = "startup", !.step = "recover"]
    BY <2>1 DEF Startup
  <2> QED BY <2>2, <2>3 DEF Job, Steps
<1>3. /\ NoRefresh \in Refresh /\ NoRefresh.phase = "idle" /\ NoRefresh.fence = Empty
      /\ NoRefresh.result = None
  BY DEF NoRefresh, Refresh, Phases
<1>4. NoOperation \in Operation
  BY DEF NoOperation, Operation, None
<1>5. TypeOK'
  BY <1>1, <1>2, <1>3, <1>4 DEF TypeOK
<1>6. JobOK'
  BY <1>1, <1>2 DEF JobOK, StateJobs, StepsOf, RecoverySteps
<1>7. PhaseOK' /\ OperationOK'
  BY <1>1, <1>3 DEF PhaseOK, OperationOK, Attempting, NoOperation, None
<1>8. JournalOK' /\ MemoryOK'
  BY <1>1, FilesDrop
<1>9. StepOK' /\ HonestOK' /\ FenceOK'
  BY <1>1, <1>2, <1>3 DEF StepOK, HonestOK, FenceOK, Prospects, At
<1>10. UnfailingOK'
  BY <1>1, <1>2, <1>3, ReflectionConstants
    DEF UnfailingOK, LiveAttemptIsRunning, ShownOK, Known
<1> QED BY <1>5, <1>6, <1>7, <1>8, <1>9, <1>10

LEMMA SaveUnknownInv ==
  ASSUME ReflectionInv, SaveUnknown
  PROVE  ReflectionInv'
<1> USE DEF ReflectionInv
<1>1. /\ At("note", "save") /\ faults' = faults + 1
      /\ collection' = [rev |-> collection.rev + 1,
                        note |-> [collection.note EXCEPT ![job.arg] = @ + 1]]
      /\ job' = [job EXCEPT !.step = "compensate", !.mode = "failing"]
      /\ UNCHANGED <<disk, context, live, validated, owner, refresh, op, batches, crashes>>
  BY DEF SaveUnknown, memory, runVars
<1>2. collection' \in [rev : Nat, note : [Games -> Nat]] /\ JournalOK' /\ HonestOK'
  BY <1>1, SavedIs
<1>3. /\ job' \in Job /\ job'.step = "compensate" /\ job'.kind = job.kind /\ job'.arg = job.arg
      /\ job'.mode = "failing" /\ job.kind = "note"
  BY <1>1 DEF At, TypeOK, Job, Steps
<1>4. faults' \in Nat /\ faults' # 0
  BY <1>1 DEF TypeOK
<1>5. TypeOK'
  BY <1>1, <1>2, <1>3, <1>4 DEF TypeOK
<1>6. JobOK'
  BY <1>1, <1>3 DEF JobOK, StepsOf, StateJobs
<1>7. PhaseOK' /\ OperationOK' /\ FenceOK' /\ MemoryOK'
  BY <1>1 DEF PhaseOK, OperationOK, FenceOK, Prospects, MemoryOK, HoldsFence, Known, Within
<1>8. StepOK' /\ UnfailingOK'
  BY <1>3, <1>4 DEF StepOK, UnfailingOK, At
<1> QED BY <1>2, <1>5, <1>6, <1>7, <1>8

LEMMA StorageFailsInv ==
  ASSUME ReflectionInv, StorageFails
  PROVE  ReflectionInv'
<1> USE DEF ReflectionInv
<1> DEFINE reading == job.step = "init" /\ ~Known
           entered == reading \/ job.step = "body"
           ours == \/ job.kind \in {"start", "complete", "settle"}
                   \/ job.kind = "settings" /\ job.arg = 0
<1>1. /\ job # Idle /\ faults' = faults + 1 /\ UNCHANGED <<disk, collection, batches, crashes>>
      /\ faults' \in Nat /\ faults' # 0 /\ batches' \in Nat /\ crashes' \in Nat
  BY DEF StorageFails, TypeOK
<1>2. job \in Job /\ job.kind # "none" /\ refresh \in Refresh /\ op \in Operation
  BY <1>1 DEF TypeOK, JobOK
<1>3. UnfailingOK'
  BY <1>1 DEF UnfailingOK
<1>4. CASE /\ job.step = "validate"
           /\ job' = [job EXCEPT !.step = "reset", !.mode = "unvalidated"]
           /\ UNCHANGED <<memory, owner, refresh, op>>
  <2>1. UNCHANGED <<context, live, validated, owner, refresh, op>>
    BY <1>4 DEF memory
  <2>2. /\ job' \in Job /\ job'.step = "reset" /\ job'.kind = job.kind /\ job'.arg = job.arg
        /\ job'.mode = "unvalidated" /\ job'.resets = job.resets
    BY <1>2, <1>4 DEF Job, Steps
  <2>3. TypeOK'
    BY <1>1, <2>1, <2>2 DEF TypeOK
  <2>4. JobOK'
    BY <1>2, <1>4, <2>1, <2>2 DEF JobOK, StepsOf, RecoverySteps
  <2>5. PhaseOK' /\ OperationOK' /\ FenceOK'
    BY <1>1, <2>1 DEF PhaseOK, OperationOK, FenceOK, Prospects, HoldsFence, Known
  <2>6. JournalOK' /\ MemoryOK'
    BY <1>1, <2>1, FilesDrop
  <2>7. StepOK' /\ HonestOK'
    BY <1>1, <1>4, <2>2, HonestStays DEF StepOK, HonestOK, At
  <2> QED BY <1>3, <2>3, <2>4, <2>5, <2>6, <2>7
<1>5. CASE Died
  BY <1>1, <1>5, DiedInv
<1>6. CASE /\ job.step # "validate" /\ job.kind = "note"
           /\ IF job.mode # "failing" /\ job.step \notin {"promote", "finish"}
              THEN job' = [job EXCEPT !.step = "compensate", !.mode = "failing"]
              ELSE job' = Idle
           /\ UNCHANGED <<memory, owner, refresh, op>>
  <2>1. UNCHANGED <<context, live, validated, owner, refresh, op>>
    BY <1>6 DEF memory
  <2>2. /\ job' \in Job
        /\ \/ job' = Idle
           \/ /\ job'.step = "compensate" /\ job'.kind = "note" /\ job'.arg = job.arg
              /\ job'.mode = "failing"
    <3>1. CASE job' = Idle
      BY <3>1 DEF Idle, Job, Steps
    <3>2. CASE job' = [job EXCEPT !.step = "compensate", !.mode = "failing"]
      BY <1>2, <1>6, <3>2 DEF Job, Steps
    <3> QED BY <1>6, <3>1, <3>2
  <2>3. TypeOK'
    BY <1>1, <2>1, <2>2 DEF TypeOK
  <2>4. JobOK'
    BY <1>6, <2>2 DEF JobOK, StepsOf, StateJobs, RecoverySteps, Idle
  <2>5. PhaseOK' /\ OperationOK' /\ FenceOK'
    BY <1>1, <2>1 DEF PhaseOK, OperationOK, FenceOK, Prospects, HoldsFence, Known
  <2>6. JournalOK' /\ MemoryOK'
    BY <1>1, <2>1, FilesDrop
  <2>7. StepOK' /\ HonestOK'
    BY <1>1, <1>6, <2>2, HonestStays DEF StepOK, HonestOK, At, Idle
  <2> QED BY <1>3, <2>3, <2>4, <2>5, <2>6, <2>7
<1>7. CASE /\ job.step # "validate" /\ job.kind \notin {"startup", "note"}
           /\ job' = Idle
           /\ context' = IF reading THEN Broken ELSE context
           /\ live' = IF entered /\ job.kind \in {"complete", "settle"}
                      THEN live \ {AttemptId(refresh.fence)} ELSE live
           /\ owner' = IF ours \/ job.kind = "read" THEN owner ELSE NoOwner
           /\ refresh' = CASE ~ours -> refresh
                           [] ours /\ job.kind = "settings" -> NoRefresh
                           [] job.kind = "settle" -> [refresh EXCEPT !.phase = "ending"]
                           [] OTHER -> Caught
           /\ op' = IF job.kind = "complete" THEN Released(op) ELSE op
           /\ UNCHANGED validated
  <2>1. /\ job' = Idle /\ job' \in Job /\ context' \in {context, Broken} /\ UNCHANGED validated
        /\ live' \subseteq live /\ owner' \in {owner, NoOwner}
    BY <1>7 DEF Idle, Job, Steps
  <2>2. JobOK'
    BY <2>1 DEF JobOK, Idle, StateJobs, RecoverySteps
  <2>3. JournalOK' /\ MemoryOK'
    BY <1>1, <2>1, FilesDrop
  <2>4. StepOK' /\ HonestOK'
    BY <1>1, <1>7, <2>1, HonestStays DEF StepOK, HonestOK, At, Idle
  <2>5. /\ refresh' \in Refresh /\ op' \in Operation /\ PhaseOK' /\ OperationOK'
        /\ refresh'.fence # Empty => refresh'.fence = refresh.fence /\ refresh'.fenced = refresh.fenced
    <3>1. CASE ~ours
      <4>1. refresh' = refresh /\ op' = op
        BY <1>7, <3>1
      <4> QED BY <1>2, <4>1 DEF PhaseOK, OperationOK
    <3>2. CASE job.kind = "settings" /\ job.arg = 0
      <4>1. refresh' = NoRefresh /\ op' = op
        BY <1>7, <3>2
      <4>2. refresh.phase = "admitted"
        BY <3>2 DEF JobOK
      <4>3. op = NoOperation
        BY <4>2 DEF OperationOK
      <4>4. /\ refresh' \in Refresh /\ refresh'.phase = "idle" /\ refresh'.fence = Empty
            /\ refresh'.result = None
        BY <4>1 DEF NoRefresh, Refresh, Phases
      <4> QED BY <1>2, <4>1, <4>3, <4>4 DEF PhaseOK, OperationOK, Attempting, NoOperation, None
    <3>3. CASE job.kind = "settle"
      <4>1. refresh' = [refresh EXCEPT !.phase = "ending"] /\ op' = op
        BY <1>7, <3>3
      <4>2. refresh.phase = "failing"
        BY <3>3 DEF JobOK
      <4>3. /\ refresh' \in Refresh /\ refresh'.phase = "ending" /\ refresh'.fence = refresh.fence
            /\ refresh'.result = refresh.result /\ refresh'.fenced = refresh.fenced
        BY <1>2, <4>1 DEF Refresh, Phases
      <4>4. op' = op
        BY <4>1
      <4> QED BY <1>2, <4>2, <4>3, <4>4 DEF PhaseOK, OperationOK, Fenceless, Attempting
    <3>4. CASE job.kind \in {"start", "complete"}
      <4>1. refresh' = Caught
        BY <1>7, <3>4
      <4>2. /\ refresh' \in Refresh /\ refresh'.phase = "failing" /\ refresh'.fence = refresh.fence
            /\ refresh'.fenced = refresh.fenced
            /\ refresh'.result = IF op.aborted THEN "cancelled" ELSE "failed"
        BY <1>2, <4>1 DEF Caught, Refresh, Phases
      <4>3. PhaseOK'
        BY <4>2 DEF PhaseOK, Fenceless, Attempting
      <4>4. CASE job.kind = "start"
        <5>1. refresh.phase = "starting" /\ op' = op
          BY <1>7, <4>4 DEF JobOK
        <5> QED BY <1>2, <4>2, <4>3, <5>1 DEF OperationOK
      <4>5. CASE job.kind = "complete"
        <5>1. refresh.phase = "publishing" /\ op' = Released(op)
          BY <1>7, <4>5 DEF JobOK
        <5>2. op.state = "active" /\ op.reserved /\ ~op.aborted
          BY <5>1 DEF OperationOK
        <5>3. op' = [op EXCEPT !.reserved = FALSE, !.defers = FALSE, !.pending = None]
          BY <5>1, <5>2 DEF Released, OperationOK
        <5>4. /\ op' \in Operation /\ op'.state = "active" /\ op'.outcome = op.outcome
              /\ op'.aborted = op.aborted
              /\ ~op'.reserved /\ ~op'.defers /\ op'.pending = None /\ op'.attached = op.attached
          BY <1>2, <5>2, <5>3 DEF Operation, None
        <5>5. OperationOK'
          BY <4>2, <5>2, <5>4 DEF OperationOK
        <5> QED BY <4>2, <4>3, <5>4, <5>5
      <4> QED BY <3>4, <4>4, <4>5
    <3> QED BY <3>1, <3>2, <3>3, <3>4
  <2>6. FenceOK'
    BY <1>1, <2>1, <2>5 DEF FenceOK, Prospects, HoldsFence, Known
  <2>7. TypeOK'
    BY <1>1, <2>1, <2>5 DEF TypeOK
  <2> QED BY <1>3, <2>2, <2>3, <2>4, <2>5, <2>6, <2>7
<1>8. CASE RecoveryUnreadable
  <2>1. /\ job.step = "recover" /\ disk.journal # Empty
        /\ UNCHANGED <<context, live, validated, owner, refresh, op>>
    BY <1>8 DEF RecoveryUnreadable, memory
  <2>2. /\ job' \in Job /\ job'.step = "reset" /\ job'.kind = job.kind /\ job'.arg = job.arg
        /\ job'.mode = job.mode /\ job'.resets = job.resets
    BY <1>2, <1>8 DEF RecoveryUnreadable, GoTo, Job, Steps
  <2>3. TypeOK'
    BY <1>1, <2>1, <2>2 DEF TypeOK
  <2>4. JobOK'
    BY <1>2, <2>1, <2>2 DEF JobOK, StepsOf, RecoverySteps
  <2>5. PhaseOK' /\ OperationOK' /\ FenceOK'
    BY <1>1, <2>1 DEF PhaseOK, OperationOK, FenceOK, Prospects, HoldsFence, Known
  <2>6. JournalOK' /\ MemoryOK'
    BY <1>1, <2>1, FilesDrop
  <2>7. StepOK' /\ HonestOK'
    BY <1>1, <2>1, <2>2, HonestStays DEF StepOK, HonestOK, At
  <2> QED BY <1>3, <2>3, <2>4, <2>5, <2>6, <2>7
<1>9. \/ /\ job.step = "validate"
         /\ job' = [job EXCEPT !.step = "reset", !.mode = "unvalidated"]
         /\ UNCHANGED <<memory, owner, refresh, op>>
      \/ RecoveryUnreadable
      \/ Died
      \/ /\ job.step # "validate" /\ job.kind = "note"
         /\ IF job.mode # "failing" /\ job.step \notin {"promote", "finish"}
            THEN job' = [job EXCEPT !.step = "compensate", !.mode = "failing"]
            ELSE job' = Idle
         /\ UNCHANGED <<memory, owner, refresh, op>>
      \/ /\ job.step # "validate" /\ job.kind \notin {"startup", "note"}
         /\ job' = Idle
         /\ context' = IF reading THEN Broken ELSE context
         /\ live' = IF entered /\ job.kind \in {"complete", "settle"}
                    THEN live \ {AttemptId(refresh.fence)} ELSE live
         /\ owner' = IF ours \/ job.kind = "read" THEN owner ELSE NoOwner
         /\ refresh' = CASE ~ours -> refresh
                         [] ours /\ job.kind = "settings" -> NoRefresh
                         [] job.kind = "settle" -> [refresh EXCEPT !.phase = "ending"]
                         [] OTHER -> Caught
         /\ op' = IF job.kind = "complete" THEN Released(op) ELSE op
         /\ UNCHANGED validated
  BY Zenon DEF StorageFails
<1> QED BY <1>4, <1>5, <1>6, <1>7, <1>8, <1>9

-------------------------------------------------------------------------------
(* The invariant *)

LEMMA InitInv ==
  ASSUME Init
  PROVE  ReflectionInv
<1> DEFINE entries(cached) == [q \in Questions |->
                                 [cache |-> cached[q], attempt |-> Settled("idle")]]
           first(cached) == [gen |-> 0, entry |-> entries(cached)]
           results == {[batch |-> 0, rev |-> 1, deps |-> deps] : deps \in [Games -> Priors]}
<1>1. PICK cached \in [Questions -> {Empty} \cup results] :
        disk = [state |-> first(cached), settings |-> [q \in Questions |-> TRUE],
                journal |-> Empty, stage |-> FALSE, settingsStage |-> FALSE]
  BY DEF Init
<1>2. results \subseteq Result
  <2>1. ASSUME NEW deps \in [Games -> Priors]
        PROVE  [batch |-> 0, rev |-> 1, deps |-> deps] \in Result
    <3>1. deps \in [Games -> Int]
      BY ReflectionConstants
    <3> QED BY <3>1 DEF Result
  <2> QED BY <2>1
<1> HIDE DEF results
<1>3. entries(cached) \in [Questions -> Entry]
  BY <1>2, AttemptFacts DEF Entry
<1> HIDE DEF entries
<1>4. first(cached) \in State
  BY <1>3 DEF State
<1> HIDE DEF first
<1>5. /\ disk \in Disk /\ disk.journal = Empty
  BY <1>1, <1>4 DEF Disk
<1>6. /\ collection = [rev |-> 1, note |-> [g \in Games |-> 1]]
      /\ context = Unread /\ live = {} /\ validated = FALSE /\ job = Startup
      /\ owner = NoOwner /\ refresh = NoRefresh /\ op = NoOperation
      /\ batches = 0 /\ faults = 0 /\ crashes = 0
  BY DEF Init
<1>7. collection \in [rev : Nat, note : [Games -> Nat]]
  BY <1>6
<1>8. /\ Startup \in Job /\ Startup.kind = "startup" /\ Startup.step = "recover"
      /\ Startup.mode = "normal" /\ Startup.resets = FALSE
  <2>1. PICK i : i = Idle
    OBVIOUS
  <2>2. i \in Job /\ i.mode = "normal" /\ i.resets = FALSE
    BY <2>1 DEF Idle, Job, Steps
  <2>3. Startup = [i EXCEPT !.kind = "startup", !.step = "recover"]
    BY <2>1 DEF Startup
  <2> QED BY <2>2, <2>3 DEF Job, Steps
<1>9. /\ NoRefresh \in Refresh /\ NoRefresh.phase = "idle" /\ NoRefresh.fence = Empty
      /\ NoRefresh.result = None
  BY DEF NoRefresh, Refresh, Phases
<1>10. NoOperation \in Operation
  BY DEF NoOperation, Operation, None
<1>11. TypeOK
  <2>1. live \subseteq Nat \X Questions /\ {batches, faults, crashes} \subseteq Nat
    BY <1>6
  <2> QED BY <1>5, <1>6, <1>7, <1>8, <1>9, <1>10, <2>1 DEF TypeOK
<1>12. JobOK
  BY <1>6, <1>8 DEF JobOK, StateJobs, StepsOf, RecoverySteps
<1>13. PhaseOK /\ OperationOK
  BY <1>6, <1>9 DEF PhaseOK, OperationOK, Attempting, NoOperation, None
<1>14. JournalOK /\ StepOK /\ HonestOK /\ MemoryOK /\ FenceOK
  BY <1>5, <1>6, <1>8, <1>9 DEF JournalOK, StepOK, HonestOK, MemoryOK, FenceOK, Prospects, At, Known
<1>15. UnfailingOK
  BY <1>5, <1>6, <1>8, <1>9, ReflectionConstants
    DEF UnfailingOK, LiveAttemptIsRunning, ShownOK, Known
<1> QED BY <1>11, <1>12, <1>13, <1>14, <1>15 DEF ReflectionInv

LEMMA StutterInv ==
  ASSUME ReflectionInv, UNCHANGED vars
  PROVE  ReflectionInv'
<1> USE DEF ReflectionInv, vars
<1>1. TypeOK' /\ JobOK' /\ PhaseOK' /\ OperationOK'
  BY DEF TypeOK, JobOK, PhaseOK, OperationOK
<1>2. JournalOK' /\ MemoryOK'
  BY FilesDrop
<1>3. StepOK' /\ HonestOK'
  BY HonestStays DEF StepOK, HonestOK, At, Known
<1>4. FenceOK' /\ UnfailingOK'
  BY DEF FenceOK, Prospects, UnfailingOK, LiveAttemptIsRunning, AttemptId, ShownOK, HoldsFence, Known
<1> QED BY <1>1, <1>2, <1>3, <1>4

\* In every reachable state, whatever died or failed before: the operation in progress, the
\* run and its record go together, what the files hold and what a recovery may make of them
\* is honest, and memory is of a generation that never becomes that of something outdated.
THEOREM ReflectionInvariant == Spec => []ReflectionInv
<1>1. Init => ReflectionInv
  BY InitInv
<1>2. ReflectionInv /\ [Next]_vars => ReflectionInv'
  <2> SUFFICES ASSUME ReflectionInv, [Next]_vars
               PROVE  ReflectionInv'
    OBVIOUS
  <2>1. CASE Recovery
    BY <2>1, RecoveryInv
  <2>2. CASE StateWork
    BY <2>2, StateWorkInv
  <2>3. CASE Transaction
    BY <2>3, TransactionInv
  <2>4. CASE Run
    BY <2>4, RunInv
  <2>5. CASE Owner
    BY <2>5, OwnerInv
  <2>6. CASE StorageFails
    BY <2>6, StorageFailsInv
  <2>7. CASE SaveUnknown
    BY <2>7, SaveUnknownInv
  <2>8. CASE Crash
    BY <2>8, DiedInv DEF Crash, ReflectionInv, TypeOK
  <2>9. CASE UNCHANGED vars
    BY <2>9, StutterInv
  <2> QED BY <2>1, <2>2, <2>3, <2>4, <2>5, <2>6, <2>7, <2>8, <2>9 DEF Next
<1> QED BY <1>1, <1>2, PTL DEF Spec
-------------------------------------------------------------------------------
(* What is in the files between operations *)

\* Every variable of the reflections keeps its type, for all questions, games and bounds.
THEOREM ReflectionsTypeCorrect == Spec => []TypeOK
<1>1. ReflectionInv => TypeOK
  BY DEF ReflectionInv
<1> QED BY <1>1, ReflectionInvariant, PTL

\* Between operations, whatever died or failed between the writes of the files, no answer in
\* the file is made from a note that changed since, or answers a question switched off.
THEOREM HonestAtRest == Spec => []AtRestCacheIsHonest
<1>1. ReflectionInv => AtRestCacheIsHonest
  BY DEF ReflectionInv, HonestOK, Honest, AtRestCacheIsHonest, AtRest, CacheOf, Idle
<1> QED BY <1>1, ReflectionInvariant, PTL

\* A note change that is reported as made has left no answer from the note as it was, and no
\* attempt begun before it.
THEOREM AcceptedHasPurged == Spec => AcceptedChangeHasPurged
<1>1. ReflectionInv => [(At("note", "finish") /\ job' = Idle /\ disk'.journal = Empty) =>
                           \A q \in Questions :
                             /\ CacheOf(q) # Empty => NotesCurrent(CacheOf(q))
                             /\ disk.state.entry[q].attempt.state # "refreshing"]_vars
  BY FinishFacts DEF At, CacheOf, Honest, NoneRuns
<1> QED BY <1>1, ReflectionInvariant, PTL DEF AcceptedChangeHasPurged

-------------------------------------------------------------------------------
(* What a run saves, and what it reports *)

LEMMA OnlyWorkWrites ==
  ASSUME [Next]_vars, job.step = "body"
  PROVE  UNCHANGED disk \/ StateWork
<1>1. ~Recovery
  BY DEF Recovery, ValidateStartup, RecoverNothing, RecoverSource, CompensateNothing,
         RecoverSettings, Reset, DropStages, UnlinkJournal
<1>2. ~Transaction /\ ~SaveUnknown
  BY DEF Transaction, Stage, PublishJournal, SaveCollection, Promote, PromoteSettings, Finish,
         SaveUnknown, At
<1>3. Run \/ Owner => UNCHANGED disk
  BY DEF Run, RunAcquires, BeginQuestion, GatherEvidence, Submit, RunFails, Published,
         SkipSettling, RunRejected, EndRun, ModelReadsNote, RunStep,
         Owner, Cancel, OwnerAcquires, OwnerRejected, Read, ChangeOther, RequestRefresh, Ask,
         ChangeNote
<1>4. StorageFails \/ Crash \/ UNCHANGED vars => UNCHANGED disk
  BY DEF StorageFails, Crash, vars
<1> QED BY <1>1, <1>2, <1>3, <1>4 DEF Next

LEMMA SavedIsFenced ==
  ASSUME ReflectionInv, [Next]_vars, NEW q \in Questions,
         At("complete", "body"), CacheOf(q)' # CacheOf(q)
  PROVE  /\ CacheOf(q)'.rev = collection.rev /\ NotesCurrent(CacheOf(q)')
         /\ disk.settings[q] /\ ~refresh.fenced /\ ~op.aborted
<1> DEFINE f == refresh.fence
           p == f.question
           result == [batch |-> f.batch, rev |-> refresh.evidence.rev,
                      deps |-> refresh.evidence.deps]
           e == [cache |-> result, attempt |-> Settled("idle")]
           s == [context.state EXCEPT !.entry[p] = e]
<1>1. job.kind = "complete" /\ job.step = "body"
  BY DEF At
<1>2. CompleteBody
  <2>1. disk' # disk
    BY DEF CacheOf
  <2>2. StateWork
    BY <1>1, <2>1, OnlyWorkWrites
  <2> QED BY <1>1, <2>2 DEF StateWork, Initialize, StartBody, SettleBody, PurgeBody, SettingsBody,
                            ReadBody, At
<1>3. Publishable(f) /\ Saves(s)
  <2>1. disk' # disk
    BY DEF CacheOf
  <2> QED BY <1>2, <2>1 DEF CompleteBody
<1>4. /\ refresh.phase = "publishing" /\ f # Empty /\ refresh.evidence # Empty
      /\ op.reserved /\ ~op.aborted
  BY <1>1 DEF ReflectionInv, JobOK, PhaseOK, Attempting, OperationOK
<1>5. p \in Questions /\ f.batch \in Nat /\ refresh.evidence \in Evidence
  BY <1>4, TypeFacts DEF ReflectionInv
<1>6. /\ Known /\ context.state \in State /\ context.state = disk.state
      /\ Within(context.settings, disk.settings) /\ (refresh.fenced => ~HoldsFence(f))
  BY <1>1, <1>4, BodyFacts
<1>7. /\ result \in Result /\ result.deps = refresh.evidence.deps
      /\ result.rev = refresh.evidence.rev
  BY <1>5 DEF Evidence, Result
<1> HIDE DEF result
<1>8. e \in Entry /\ e.cache = result
  BY <1>7, AttemptFacts DEF Entry
<1> HIDE DEF e
<1>9. /\ s \in State
      /\ \A r \in Questions : s.entry[r] = IF r = p THEN e ELSE context.state.entry[r]
  BY <1>5, <1>6, <1>8, EntryReplaced
<1> HIDE DEF s
<1>10. disk'.state = s
  BY <1>3, <1>6, <1>9, SavesIs DEF ReflectionInv
<1>11. q = p /\ CacheOf(q)' = result
  BY <1>6, <1>8, <1>9, <1>10 DEF CacheOf
<1>12. NotesCurrent(result) /\ result.rev = collection.rev /\ context.settings[p] /\ HoldsFence(f)
  BY <1>3, <1>7 DEF Publishable, Revalidated, NotesCurrent
<1> QED BY <1>4, <1>5, <1>6, <1>11, <1>12 DEF Within

\* What a refresh saves is made from the sources as they are, for a question switched on, by an
\* attempt that nothing overtook and no accepted cancellation ended.
THEOREM PublicationFenced == Spec => PublicationIsFenced
<1>1. ReflectionInv /\ [Next]_vars =>
        [\A q \in Questions :
           (At("complete", "body") /\ CacheOf(q)' # CacheOf(q)) =>
             /\ CacheOf(q)'.rev = collection.rev /\ NotesCurrent(CacheOf(q)')
             /\ disk.settings[q] /\ ~refresh.fenced /\ ~op.aborted]_vars
  BY SavedIsFenced
<1> QED BY <1>1, ReflectionInvariant, PTL DEF Spec, PublicationIsFenced

\* When a run ends it reports "completed" exactly when the registry recorded it, so never after
\* an accepted cancellation, and a cancellation it reports is recorded as one.
THEOREM OutcomesTold == Spec => []OutcomesAgree
<1>1. ReflectionInv => OutcomesAgree
  BY DEF ReflectionInv, OperationOK, OutcomesAgree, None
<1> QED BY <1>1, ReflectionInvariant, PTL

-------------------------------------------------------------------------------
(* As long as storage has not failed *)

\* Recovery is suspended for no attempt but that of the run at work.
THEOREM LiveIsRunning == Spec => []LiveAttemptIsRunning
<1>1. ReflectionInv => LiveAttemptIsRunning
  BY DEF ReflectionInv, UnfailingOK, LiveAttemptIsRunning
<1> QED BY <1>1, ReflectionInvariant, PTL

\* A read shows no answer made from a note as it no longer is.
THEOREM NoSupersededShown == Spec => NoSupersededNoteShown
<1>1. ReflectionInv => [(At("read", "body") /\ job' = Idle /\ faults = 0) =>
                           \A q \in Questions :
                             (context.settings[q] /\ context.state.entry[q].cache # Empty) =>
                                NotesCurrent(context.state.entry[q].cache)]_vars
  BY BodyFacts DEF At, Honest
<1> QED BY <1>1, ReflectionInvariant, PTL DEF NoSupersededNoteShown

\* A read shows a question as refreshing only while a run is at work on it.
THEOREM RefreshingIsReal == Spec => RefreshingShownIsReal
<1>1. ReflectionInv => [(At("read", "body") /\ job' = Idle /\ faults = 0) =>
                           \A q \in Questions :
                             context.state.entry[q].attempt.state = "refreshing" =>
                               refresh.fence # Empty /\ refresh.fence.question = q]_vars
  BY BodyFacts DEF At, ReflectionInv, UnfailingOK, ShownOK
<1> QED BY <1>1, ReflectionInvariant, PTL DEF RefreshingShownIsReal
===============================================================================
