---------------------------- MODULE SourceStorage ----------------------------
(***************************************************************************)
(* The daemon's data files and what it remembers of them                   *)
(* (storage-service.ts, source-vector.ts, stored-source-revision.ts).      *)
(*                                                                         *)
(* Every operation runs under the coordinator, so there is one at a time;  *)
(* but each awaits the file system several times, and between two of its   *)
(* calls an editor outside the daemon may replace or delete any file, and  *)
(* each call may fail.  A rename may have happened although it failed.     *)
(*                                                                         *)
(* A signature is what `stat` says of a file (device, inode, size and      *)
(* times): here a number that no two writes share.                         *)
(***************************************************************************)
EXTENDS Integers, FiniteSets

CONSTANTS Files,       \* the files a capture reads (jevSourcePaths)
          Collection,  \* the one that is never cached; the others are `Settings`
          Data,        \* what a file may say
          Default,     \* what a missing file is created with
          None, Absent, Broken,
          Attempts,    \* attempts of a capture and of an authority read (3 in the code)
          Scenarios,   \* bound: the circumstances tried
          MaxSaves     \* bound: saves that write

Settings == Files \ {Collection}
Revision == Nat \cup {-1}  \* -1 when a file has none
Content == [data : Data \cup {Broken}, rev : Revision]
Writable == [data : Data, rev : Revision]

\* A file that is not canonical is rewritten when it is read.
Stored == [data : Data, rev : Revision, form : {"canonical", "legacy"}, sig : Nat]
          \cup [data : {Broken}, rev : {0}, form : {"broken"}, sig : Nat]
Text(d, r, fm) == [data |-> d, rev |-> r, form |-> fm]

Scenario ==
  [operations : SUBSET {"load", "save", "capture", "authority"},  \* the operations asked for
   unmarked   : SUBSET Settings,  \* those invalidateJevPath does not mark (niche-settings)
   found      : {"canonical", "legacy"},  \* the form of the files there are at the start
   missing    : SUBSET Files,  \* files there may not be yet
   texts      : SUBSET ({Text(x, r, fm) : x \in Data, r \in {-1, 1}, fm \in {"canonical", "legacy"}}
                        \cup {Text(Broken, 0, "broken")}),  \* what the editor may write
   edits      : Nat,  \* his writes and deletions
   faults     : Nat]  \* file system calls that fail

\* What the daemon remembers or returns of all the files, and where an operation stands.
Signature == Nat \cup {Absent}
Signatures == [Files -> Signature]
Snapshot == [sigs : [Files -> Nat], contents : [Files -> Content], epoch : Nat]
Capture == [sigs : [Files -> Nat], epoch : Nat]
Answer == [kind : {"capture", "authority"}, contents : [Files -> Content \cup {Absent}]]
Operation ==
  [kind : {"load", "save", "capture", "authority"},
   at : {"read", "write", "verify", "before", "after", "pass"},
   then : {"answer", "put", "collect", "create"},
   f : Files, todo : SUBSET Files, put : Writable \cup {None}, data : Data \cup {None},
   tries : 0 .. Attempts - 1, pass : 1 .. 3, sig : Nat,
   first : [Files -> Signature \cup {None}], seen : [Files -> Signature \cup {None}],
   got : [Files -> Content \cup {Absent, None}]]

ASSUME StorageConstants ==
  /\ Collection \in Files /\ IsFiniteSet(Files)
  /\ Default \in Data /\ Broken \notin Data
  /\ Attempts \in Nat \ {0} /\ MaxSaves \in Nat
  /\ Scenarios \subseteq Scenario
  /\ Absent \notin Nat \cup Content \cup Stored
  /\ None \notin Revision \cup {Absent} \cup Content \cup Data
  /\ None \notin Signatures \cup Snapshot \cup Capture \cup Answer \cup Operation

VARIABLES
  scenario,         \* bound: which circumstances; chosen once
  disk,             \* [Files -> Stored or Absent]
  cache,            \* sourceCache: [Settings -> Content or None]
  vector,           \* the revisions of the source vector: [Files -> revision or None]
  down,             \* the vector's unavailable sources
  established,      \* establishedJevPaths: files that once were there
  internal,         \* internalJevSignatures: [Files -> signature or None]
  unavailablePaths, \* unavailableJevPaths
  lastObserved,     \* lastObservedJevSignatures, or None
  externalEpoch,    \* externalJevEpoch
  snapshot,         \* jevSnapshotCache, or None
  lastAuthority,    \* lastSnapshotAuthority, or None
  op,               \* the operation under the coordinator and its local state, or None
  answer,           \* what the last capture or authority read returned, or None
  lastCapture,      \* history: signatures and epoch of the last capture that succeeded, or None
  instants,         \* history: what the files said at each moment of a capture or authority read
  outside,          \* history: the signatures the editor wrote
  clock, saves, faults  \* how many writes, saves and failed calls there have been

vectorVars == <<vector, down>>
freshnessVars == <<internal, unavailablePaths, snapshot>>
epochVars == <<lastObserved, externalEpoch>>
memory == <<cache, vectorVars, established, freshnessVars, epochVars, lastAuthority, lastCapture>>
world == <<disk, outside, clock, saves>>
vars == <<scenario, memory, world, op, answer, instants, faults>>

ContentOf(d) == IF d = Absent THEN Absent ELSE [data |-> d.data, rev |-> d.rev]
Contents(dk) == [f \in Files |-> ContentOf(dk[f])]
SignatureOf(d) == IF d = Absent THEN Absent ELSE d.sig
Nothing == [f \in Files |-> None]

Init ==
  /\ scenario \in Scenarios
  /\ \E gone \in SUBSET scenario.missing :
       disk = [f \in Files |->
         IF f \in gone THEN Absent
         ELSE [data |-> Default, rev |-> 0, form |-> scenario.found, sig |-> 0]]
  /\ cache = [f \in Settings |-> None]
  /\ vector = Nothing /\ internal = Nothing
  /\ down = {} /\ established = {} /\ unavailablePaths = {}
  /\ lastObserved = None /\ externalEpoch = 0
  /\ snapshot = None /\ lastAuthority = None
  /\ op = None /\ answer = None /\ lastCapture = None
  /\ instants = {} /\ outside = {} /\ clock = 0 /\ saves = 0 /\ faults = 0

NoFault == UNCHANGED faults
Fault == faults < scenario.faults /\ faults' = faults + 1

(***************************************************************************)
(* The editor                                                              *)
(***************************************************************************)
DiskBecomes(dk) == disk' = dk /\ clock' = clock + 1
Answers(o) == o # None /\ o.kind \in {"capture", "authority"}
InstantSeen == instants' = IF Answers(op) THEN instants \cup {Contents(disk')} ELSE {}

Edits(sig) ==
  {Absent} \cup {[data |-> t.data, rev |-> t.rev, form |-> t.form, sig |-> sig] : t \in scenario.texts}

Edit(f) ==
  /\ Cardinality(outside) < scenario.edits
  /\ \E d \in Edits(clock + 1) \ {disk[f]} : DiskBecomes([disk EXCEPT ![f] = d])
  /\ InstantSeen
  /\ outside' = outside \cup {clock + 1}
  /\ UNCHANGED <<memory, op, answer, saves, faults>>

(***************************************************************************)
(* What the operations do to the memory                                    *)
(***************************************************************************)
\* Mutant: what is cached already is not replaced.
PublishedOnce(f, c) ==
  /\ cache' = IF f \in Settings /\ cache[f] = None THEN [cache EXCEPT ![f] = c] ELSE cache
  /\ vector' = [vector EXCEPT ![f] = c.rev]
  /\ down' = down \ {f}

\* publishStoredSource, publishCollection
Published(f, c) ==
  /\ cache' = IF f = Collection THEN cache ELSE [cache EXCEPT ![f] = c]
  /\ vector' = [vector EXCEPT ![f] = c.rev]
  /\ down' = down \ {f}

Withdrawn(F) == cache' = [f \in Settings |-> IF f \in F THEN None ELSE cache[f]]

\* invalidateJevPath, but for the vector
Invalidated(f) ==
  /\ snapshot' = None
  /\ internal' = [internal EXCEPT ![f] = None]
  /\ unavailablePaths' = unavailablePaths \cup {f}

\* After an atomic write and its verification.
Blessed(f, sig) ==
  /\ internal' = [internal EXCEPT ![f] = sig]
  /\ unavailablePaths' = unavailablePaths \ {f}
  /\ UNCHANGED snapshot

\* Mutant: a file the daemon never wrote has nothing to be compared with.
EpochIfWritten(seen) ==
  LET changed == IF lastObserved = None THEN {}
                 ELSE {f \in Files : /\ internal[f] # None
                                     /\ seen[f] \notin {lastObserved[f], internal[f]}}
  IN /\ externalEpoch' = externalEpoch + Cardinality(changed)
     /\ internal' = [f \in Files |-> IF f \in changed THEN None ELSE internal[f]]
     /\ lastObserved' = seen

\* publishJevExternalEpoch
EpochPublished(seen) ==
  LET changed == IF lastObserved = None THEN {}
                 ELSE {f \in Files : seen[f] \notin {lastObserved[f], internal[f]}}
  IN /\ externalEpoch' = externalEpoch + Cardinality(changed)
     /\ internal' = [f \in Files |-> IF f \in changed THEN None ELSE internal[f]]
     /\ lastObserved' = seen

(***************************************************************************)
(* An operation and where it stands.  `then` is what a read is for:        *)
(* "answer" (nothing follows), "put" (a save), "collect" (the reads of a   *)
(* capture) or "create" (its missing files).                               *)
(***************************************************************************)
Begun(kind, at, todo) ==
  [kind |-> kind, at |-> at, then |-> "answer", f |-> Collection, todo |-> todo, put |-> None,
   data |-> None, tries |-> 0, pass |-> 1, sig |-> 0,
   first |-> Nothing, seen |-> Nothing, got |-> Nothing]

Goes(next) == op' = next /\ UNCHANGED <<answer, instants>>
Finished(result) == op' = None /\ answer' = result /\ instants' = {}
Begin(next) == op' = next /\ answer' = None /\ instants' = IF Answers(next) THEN {Contents(disk)} ELSE {}

\* The loops `for (let attempt = 0; attempt < 3; attempt++)`
NextAttempt(o, at) ==
  IF o.tries + 1 < Attempts
  THEN Goes([Begun(o.kind, at, Files) EXCEPT !.tries = o.tries + 1])
  ELSE Finished(None)

\* The operation o has read or written f, which holds c.
Continue(o, f, c) ==
  LET rest == o.todo \ {f}
  IN CASE o.then = "answer" -> Finished(None)
       [] o.then = "put" /\ f # Collection /\ c.data = o.data -> Finished(None)
       [] o.then = "put" /\ (f = Collection \/ c.data # o.data) ->
            Goes([o EXCEPT !.at = "write", !.then = "answer",
                           !.put = [data |-> o.data, rev |-> c.rev + 1]])
       [] o.then = "collect" ->
            Goes([o EXCEPT !.got[f] = c, !.todo = IF rest = {} THEN Files ELSE rest,
                           !.at = IF rest = {} THEN "after" ELSE "read"])
       [] o.then = "create" /\ rest # {} -> Goes([o EXCEPT !.todo = rest, !.at = "read"])
       [] o.then = "create" /\ rest = {} -> NextAttempt(o, "before")

(***************************************************************************)
(* Starting an operation.  A load of cached settings, a save of unchanged  *)
(* ones and everything else that answers from memory changes nothing and   *)
(* is a stuttering step.                                                   *)
(***************************************************************************)
Usable(f) == f # Collection /\ cache[f] # None /\ f \notin down

Idle == op = None /\ NoFault /\ UNCHANGED <<disk, outside, clock>>

\* loadCollection, loadStoredSource
StartLoad(f) ==
  /\ Idle /\ "load" \in scenario.operations /\ ~Usable(f)
  /\ Withdrawn({f} \cap down)
  /\ Begin([Begun("load", "read", {f}) EXCEPT !.f = f])
  /\ UNCHANGED <<vectorVars, established, freshnessVars, epochVars, lastAuthority, lastCapture, saves>>

\* saveStoredSource; for the collection, a mutation: its load and then saveCollection
StartSave(f, x) ==
  /\ Idle /\ "save" \in scenario.operations
  /\ saves < MaxSaves /\ saves' = saves + 1
  /\ Usable(f) => cache[f].data # x
  /\ LET o == [Begun("save", "read", {f}) EXCEPT !.f = f, !.data = x, !.then = "put"]
     IN Begin(IF Usable(f)
              THEN [o EXCEPT !.at = "write", !.then = "answer",
                             !.put = [data |-> x, rev |-> cache[f].rev + 1]]
              ELSE o)
  /\ UNCHANGED memory

\* captureJevSourceSnapshot, readCollectionSnapshotAuthority
StartCapture ==
  /\ Idle /\ "capture" \in scenario.operations
  /\ Begin(Begun("capture", "before", Files))
  /\ UNCHANGED <<memory, saves>>

StartAuthority ==
  /\ Idle /\ "authority" \in scenario.operations
  /\ Begin(Begun("authority", "pass", Files))
  /\ UNCHANGED <<memory, saves>>

(***************************************************************************)
(* Reading a file, and writing it                                          *)
(***************************************************************************)
At(step) == op # None /\ op.at = step

\* A capture reads the collection before the others (readJevSourceFiles).
Reads(f) ==
  /\ At("read") /\ f \in op.todo
  /\ op.then = "collect" /\ Collection \in op.todo => f = Collection

MayCreate(f) == f \notin established /\ op.then # "collect"

\* A canonical file: its content is published and the operation continues.
ReadFile(f) ==
  /\ Reads(f) /\ NoFault
  /\ disk[f] # Absent /\ disk[f].form = "canonical"
  /\ established' = established \cup {f}
  /\ Published(f, ContentOf(disk[f]))
  /\ Continue(op, f, ContentOf(disk[f]))
  /\ UNCHANGED <<freshnessVars, epochVars, lastAuthority, lastCapture, world>>

\* One to be created or migrated is written before anything is published.
ReadRewrites(f) ==
  /\ Reads(f) /\ NoFault
  /\ \/ /\ disk[f] = Absent /\ MayCreate(f)
        /\ Goes([op EXCEPT !.at = "write", !.f = f, !.put = [data |-> Default, rev |-> 0]])
        /\ UNCHANGED established
     \/ /\ disk[f] # Absent /\ disk[f].form = "legacy"
        /\ Goes([op EXCEPT !.at = "write", !.f = f,
                           !.put = [data |-> disk[f].data, rev |-> disk[f].rev + 1]])
        /\ established' = established \cup {f}
  /\ UNCHANGED <<cache, vectorVars, freshnessVars, epochVars, lastAuthority, lastCapture, world>>

\* Gone, unreadable or malformed.
ReadFails(f) ==
  /\ Reads(f)
  /\ \/ disk[f] = Absent /\ ~MayCreate(f) /\ NoFault
     \/ disk[f] # Absent /\ disk[f].form = "broken" /\ NoFault
     \/ Fault
  /\ established' = IF disk[f] = Absent THEN established ELSE established \cup {f}
  /\ down' = down \cup {f}
  /\ snapshot' = IF op.kind = "capture" THEN None ELSE snapshot
  /\ Finished(None)
  /\ UNCHANGED <<cache, vector, internal, unavailablePaths, epochVars>>
  /\ UNCHANGED <<lastAuthority, lastCapture, world>>

Written == [disk EXCEPT ![op.f] =
  [data |-> op.put.data, rev |-> op.put.rev, form |-> "canonical", sig |-> clock + 1]]

\* atomicWrite: the file is replaced at once
Rename ==
  /\ At("write") /\ NoFault
  /\ DiskBecomes(Written) /\ InstantSeen
  /\ Invalidated(op.f)
  /\ established' = established \cup {op.f}
  /\ op' = [op EXCEPT !.at = "verify", !.sig = clock + 1]
  /\ UNCHANGED <<cache, vectorVars, epochVars, lastAuthority, lastCapture, outside, saves, answer>>

\* Mutant: the source stays available.
WriteGivenUpQuietly ==
  /\ Invalidated(op.f)
  /\ Withdrawn(IF op.kind = "save" /\ op.then = "answer" THEN {op.f} ELSE {})
  /\ Finished(None)
  /\ UNCHANGED <<vectorVars, established, epochVars, lastAuthority, lastCapture, outside, saves>>

\* The write is known to have failed, or not known to have succeeded.
WriteGivenUp ==
  /\ Invalidated(op.f)
  /\ down' = down \cup {op.f}
  /\ Withdrawn(IF op.kind = "save" /\ op.then = "answer" THEN {op.f} ELSE {})
  /\ Finished(None)
  /\ UNCHANGED <<vector, established, epochVars, lastAuthority, lastCapture, outside, saves>>

RenameFails ==
  /\ At("write") /\ Fault
  /\ DiskBecomes(Written) \/ UNCHANGED <<disk, clock>>
  /\ WriteGivenUp

\* writeAtomically looks at the file again before it trusts it.
Verify ==
  /\ At("verify") /\ NoFault
  /\ SignatureOf(disk[op.f]) = op.sig
  /\ Blessed(op.f, op.sig)
  /\ Published(op.f, op.put)
  /\ Continue(op, op.f, op.put)
  /\ UNCHANGED <<established, epochVars, lastAuthority, lastCapture, world>>

VerifyFails ==
  /\ At("verify")
  /\ Fault \/ (SignatureOf(disk[op.f]) # op.sig /\ NoFault)
  /\ WriteGivenUp
  /\ UNCHANGED <<disk, clock>>

(***************************************************************************)
(* A capture: what the files are, what they say, what they are             *)
(***************************************************************************)
Observing(f) == op # None /\ op.at \in {"before", "after"} /\ f \in op.todo

Observe(f) ==
  /\ Observing(f) /\ NoFault
  /\ Goes([op EXCEPT !.seen[f] = SignatureOf(disk[f]), !.todo = @ \ {f}])
  /\ IF disk[f] = Absent
     THEN Invalidated(f) /\ down' = down \cup ({f} \ scenario.unmarked)
     ELSE UNCHANGED <<freshnessVars, down>>
  /\ UNCHANGED <<cache, vector, established, epochVars, lastAuthority, lastCapture, world>>

ObserveFails(f) ==
  /\ Observing(f) /\ Fault
  /\ Invalidated(f) /\ down' = down \cup ({f} \ scenario.unmarked)
  /\ Finished(None)
  /\ UNCHANGED <<cache, vector, established, epochVars, lastAuthority, lastCapture, world>>

Missing(seen) == {f \in Files : seen[f] = Absent}

Captured(s) ==
  /\ Finished([kind |-> "capture", contents |-> s.contents])
  /\ lastCapture' = [sigs |-> s.sigs, epoch |-> s.epoch]

Observed(step) == At(step) /\ op.todo = {} /\ NoFault

Collecting == [op EXCEPT !.at = "read", !.then = "collect", !.todo = Files,
                         !.first = op.seen, !.seen = Nothing]

\* An established file may not be missing; one that never was is created.
FileMissing ==
  /\ Observed("before") /\ Missing(op.seen) # {}
  /\ EpochPublished(op.seen)
  /\ IF snapshot # None \/ Missing(op.seen) \cap established # {}
     THEN Finished(None)
     ELSE Goes([op EXCEPT !.at = "read", !.then = "create", !.todo = Missing(op.seen)])
  /\ snapshot' = None
  /\ UNCHANGED <<cache, vectorVars, established, unavailablePaths, lastAuthority, lastCapture, world>>

SnapshotReused ==
  /\ Observed("before") /\ Missing(op.seen) = {}
  /\ snapshot # None /\ snapshot.sigs = op.seen /\ unavailablePaths = {}
  /\ EpochPublished(op.seen)
  /\ Captured(snapshot)
  /\ UNCHANGED <<cache, vectorVars, established, unavailablePaths, snapshot, lastAuthority, world>>

ReadsBegin ==
  /\ Observed("before") /\ Missing(op.seen) = {}
  /\ ~(snapshot # None /\ snapshot.sigs = op.seen /\ unavailablePaths = {})
  /\ EpochPublished(op.seen)
  /\ snapshot' = None
  /\ Goes(Collecting)
  /\ UNCHANGED <<cache, vectorVars, established, unavailablePaths, lastAuthority, lastCapture, world>>

\* Mutant: only whether the files are there is looked at again.
StillThere(first, seen) == \A f \in Files : (first[f] = Absent) = (seen[f] = Absent)

\* sameFileSignatures
Stable(first, seen) == first = seen

CaptureSucceeds ==
  /\ Observed("after") /\ Stable(op.first, op.seen) /\ Missing(op.seen) = {}
  /\ EpochPublished(op.seen)
  /\ unavailablePaths' = {}
  /\ snapshot' = [sigs |-> op.seen, contents |-> op.got, epoch |-> externalEpoch']
  /\ Captured(snapshot')
  /\ UNCHANGED <<cache, vectorVars, established, lastAuthority, world>>

CaptureRetries ==
  /\ Observed("after") /\ ~(Stable(op.first, op.seen) /\ Missing(op.seen) = {})
  /\ NextAttempt(op, "before")
  /\ UNCHANGED <<memory, world>>

(***************************************************************************)
(* An authority read: every file three times, and nothing in between       *)
(***************************************************************************)
AuthorityReads(f) ==
  /\ At("pass") /\ f \in op.todo /\ NoFault
  /\ Goes([op EXCEPT !.seen[f] = SignatureOf(disk[f]), !.todo = @ \ {f},
                     !.got[f] = IF op.pass < 3 THEN ContentOf(disk[f]) ELSE @])
  /\ UNCHANGED <<memory, world>>

AuthorityReadFails(f) ==
  /\ At("pass") /\ f \in op.todo /\ Fault
  /\ Finished(None)
  /\ UNCHANGED <<memory, world>>

NextPass ==
  /\ Observed("pass") /\ op.pass < 3
  /\ op.pass > 1 => Stable(op.first, op.seen)
  /\ Goes([op EXCEPT !.pass = @ + 1, !.first = op.seen, !.seen = Nothing, !.todo = Files])
  /\ UNCHANGED <<memory, world>>

AuthorityRetries ==
  /\ Observed("pass") /\ op.pass > 1 /\ ~Stable(op.first, op.seen)
  /\ NextAttempt(op, "pass")
  /\ UNCHANGED <<memory, world>>

\* Mutant: the first authority read has nothing to compare with.
FencedLater(seen) == {f \in Files : lastAuthority # None /\ seen[f] # lastAuthority[f]}

\* What this process has not seen at this signature before may not be served from memory.
Fenced(seen) == {f \in Files : lastAuthority = None \/ seen[f] # lastAuthority[f]}

AuthoritySucceeds ==
  /\ Observed("pass") /\ op.pass = 3 /\ Stable(op.first, op.seen)
  /\ LET fenced == Fenced(op.seen)
     IN /\ Withdrawn(fenced)
        /\ down' = down \cup fenced
        /\ unavailablePaths' = unavailablePaths \cup fenced
        /\ snapshot' = IF fenced = {} THEN snapshot ELSE None
        /\ internal' = IF Collection \in fenced THEN [internal EXCEPT ![Collection] = None]
                       ELSE internal
  /\ established' = Files
  /\ lastAuthority' = op.seen
  /\ Finished([kind |-> "authority", contents |-> op.got])
  /\ UNCHANGED <<vector, epochVars, lastCapture, world>>

(***************************************************************************)
Starting == \/ \E f \in Files : StartLoad(f)
            \/ \E f \in Files, x \in Data : StartSave(f, x)
            \/ StartCapture \/ StartAuthority

Reading == \E f \in Files : ReadFile(f) \/ ReadRewrites(f) \/ ReadFails(f)
Writing == Rename \/ RenameFails \/ Verify \/ VerifyFails

Capturing == \/ \E f \in Files : Observe(f) \/ ObserveFails(f)
             \/ FileMissing \/ SnapshotReused \/ ReadsBegin
             \/ CaptureSucceeds \/ CaptureRetries

Authorizing == \/ \E f \in Files : AuthorityReads(f) \/ AuthorityReadFails(f)
               \/ NextPass \/ AuthorityRetries \/ AuthoritySucceeds

Next ==
  /\ (\E f \in Files : Edit(f)) \/ Starting \/ Reading \/ Writing \/ Capturing \/ Authorizing
  /\ UNCHANGED scenario

Spec == Init /\ [][Next]_vars
(***************************************************************************)
(* Properties                                                              *)
(***************************************************************************)
\* Types.
TypeOK ==
  /\ scenario \in Scenarios
  /\ disk \in [Files -> Stored \cup {Absent}]
  /\ cache \in [Settings -> Content \cup {None}]
  /\ vector \in [Files -> Revision \cup {None}]
  /\ down \subseteq Files /\ established \subseteq Files /\ unavailablePaths \subseteq Files
  /\ internal \in [Files -> Nat \cup {None}]
  /\ lastObserved \in Signatures \cup {None} /\ lastAuthority \in Signatures \cup {None}
  /\ externalEpoch \in Nat
  /\ snapshot \in Snapshot \cup {None}
  /\ op \in Operation \cup {None}
  /\ answer \in Answer \cup {None} /\ lastCapture \in Capture \cup {None}
  /\ outside \subseteq 1 .. clock
  /\ clock \in Nat

\* A capture and an authority read look at one file after another while the editor works, and a
\* capture may answer from memory: the files they found nevertheless said together, at one moment
\* between the call and the answer, what is returned of them.  A file an authority read missed was
\* missing at such a moment too; two such files, which nothing identifies, each at its own.
AnswersAreOneInstant ==
  [][answer' # None /\ op' = None /\ op # None =>
       \A g \in Files : \E i \in instants :
         /\ i[g] = answer'.contents[g]
         /\ \A f \in Files : answer'.contents[f] # Absent => i[f] = answer'.contents[f]]_vars

\* Between operations, whatever failed and wherever: for a source the vector calls available, the
\* revision readers compare and the cached settings are those of the file, as long as the file is
\* the one the daemon wrote.
VectorIsHonest ==
  op = None =>
    \A f \in Files \ down :
      vector[f] # None /\ disk[f] # Absent /\ SignatureOf(disk[f]) \notin outside =>
        /\ vector[f] = disk[f].rev
        /\ f \in Settings => cache[f] = ContentOf(disk[f])

\* Once an authority read has found all files, no cached settings that may still be served say
\* anything else than the file it identified.
AuthorityFencesCaches ==
  answer # None /\ answer.kind = "authority" /\ (\A f \in Files : answer.contents[f] # Absent) =>
    \A f \in Settings : Usable(f) => cache[f] = answer.contents[f]

\* A capture that returns what the editor wrote since the capture before has a greater epoch than
\* that one, however many operations, failed ones too, came between.
ExternalChangeIsAttributed ==
  [][\A f \in Files :
       /\ lastCapture # None /\ lastCapture' # lastCapture
       /\ lastCapture'.sigs[f] \in outside /\ lastCapture'.sigs[f] # lastCapture.sigs[f]
       => lastCapture'.epoch > lastCapture.epoch]_vars
=============================================================================
